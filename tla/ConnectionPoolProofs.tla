------------------------ MODULE ConnectionPoolProofs ------------------------
(***************************************************************************)
(* Theorems about the connection pool, for any set of forwards, signatures,*)
(* connections and timers, and whatever events happen around the pool.     *)
(*                                                                         *)
(* PoolIInv is inductive: InitInv, TypeStep and InvStep.  The theorems at  *)
(* the end read the properties off it.                                     *)
(***************************************************************************)
EXTENDS ConnectionPoolInv, TLAPS

(* The empty pool satisfies the invariant.                                 *)
LEMMA InitInv == Init => PoolIInv
BY PoolSentinels DEF Init, PoolIInv, TypeOK, Attached, InHand, HandSteps,
   FlightLed, WaitersServed, Unborn, Private, PooledSignature, TakenOut,
   ClosedNotPooled, KeepaliveCovers, IdleLookedAfter, PCs, AcquireSteps,
   LeaderSteps

(* Every step keeps the variables in their types, provided the connection  *)
(* and the signature a forward works on are not nil.                       *)
LEMMA TypeStep ==
    ASSUME TypeOK, Attached, InHand, Next
    PROVE  TypeOK'
<1> USE PoolSentinels DEF TypeOK, Attached, InHand, HandSteps, PCs,
        AcquireSteps, LeaderSteps, poolVars, connVars, healthVars, callVars,
        timerVars
<1>1. ASSUME NEW f \in Forwards, NEW k \in Signatures, Lookup(f, k)
      PROVE  TypeOK'
  BY <1>1 DEF Lookup, Goto
<1>2. ASSUME NEW f \in Forwards, FoundAlive(f)
      PROVE  TypeOK'
  BY <1>2 DEF FoundAlive, Goto
<1>3. ASSUME NEW f \in Forwards, FoundDead(f)
      PROVE  TypeOK'
  BY <1>3 DEF FoundDead, Goto
<1>4. ASSUME NEW f \in Forwards, DropDead(f)
      PROVE  TypeOK'
  BY <1>4 DEF DropDead, Goto
<1>5. ASSUME NEW f \in Forwards, CloseDead(f)
      PROVE  TypeOK'
  BY <1>5 DEF CloseDead, Goto, CloseConns, MarkClosed, Unregister
<1>6. ASSUME NEW f \in Forwards, ReadStatus(f)
      PROVE  TypeOK'
  BY <1>6 DEF ReadStatus, Goto
<1>7. ASSUME NEW f \in Forwards, CancelLinger(f)
      PROVE  TypeOK'
  BY <1>7 DEF CancelLinger, Goto
<1>8. ASSUME NEW f \in Forwards, RenewContext(f)
      PROVE  TypeOK'
  BY <1>8 DEF RenewContext, Goto
<1>9. ASSUME NEW f \in Forwards, AcquireExisting(f)
      PROVE  TypeOK'
  BY <1>9 DEF AcquireExisting, Goto, TakeRef
<1>10. ASSUME NEW f \in Forwards, AcquireExistingFails(f)
       PROVE  TypeOK'
  BY <1>10 DEF AcquireExistingFails, Leave, Goto
<1>11. ASSUME NEW f \in Forwards, Lead(f)
       PROVE  TypeOK'
  BY <1>11 DEF Lead, Goto
<1>12. ASSUME NEW f \in Forwards, Join(f)
       PROVE  TypeOK'
  BY <1>12 DEF Join, Goto
<1>13. ASSUME NEW f \in Forwards, DoubleCheck(f)
       PROVE  TypeOK'
  BY <1>13 DEF DoubleCheck, Goto
<1>14. ASSUME NEW f \in Forwards, NEW c \in Conns, Dial(f, c)
       PROVE  TypeOK'
  BY <1>14 DEF Dial, Goto
<1>15. ASSUME NEW f \in Forwards, DialFails(f)
       PROVE  TypeOK'
  BY <1>15 DEF DialFails, Goto
<1>16. ASSUME NEW f \in Forwards, Insert(f)
       PROVE  TypeOK'
  BY <1>16 DEF Insert, Goto
<1>17. ASSUME NEW f \in Forwards, Watch(f)
       PROVE  TypeOK'
  BY <1>17 DEF Watch, Goto
<1>18. ASSUME NEW f \in Forwards, Finish(f)
       PROVE  TypeOK'
  BY <1>18 DEF Finish, Waiters
<1>19. ASSUME NEW f \in Forwards, Forget(f)
       PROVE  TypeOK'
  BY <1>19 DEF Forget, Leave, Goto
<1>20. ASSUME NEW f \in Forwards, ReturnUnshared(f)
       PROVE  TypeOK'
  BY <1>20 DEF ReturnUnshared, Goto
<1>21. ASSUME NEW f \in Forwards, AcquireShared(f)
       PROVE  TypeOK'
  BY <1>21 DEF AcquireShared, Goto, TakeRef
<1>22. ASSUME NEW f \in Forwards, AcquireSharedFails(f)
       PROVE  TypeOK'
  BY <1>22 DEF AcquireSharedFails, Leave, Goto
<1>23. ASSUME NEW f \in Forwards, ReleaseRef(f)
       PROVE  TypeOK'
  BY <1>23 DEF ReleaseRef, Goto
<1>24. ASSUME NEW f \in Forwards, ReleaseFails(f)
       PROVE  TypeOK'
  BY <1>24 DEF ReleaseFails, Leave, Goto
<1>25. ASSUME NEW f \in Forwards, StillReferenced(f)
       PROVE  TypeOK'
  BY <1>25 DEF StillReferenced, Leave, Goto
<1>26. ASSUME NEW f \in Forwards, NEW t \in Timers, Linger(f, t)
       PROVE  TypeOK'
  BY <1>26 DEF Linger, Leave, Goto
<1>27. ASSUME NEW t \in Timers, ArmTimer(t)
       PROVE  TypeOK'
  BY <1>27 DEF ArmTimer
<1>28. ASSUME NEW t \in Timers, TimerGivesUp(t)
       PROVE  TypeOK'
  BY <1>28 DEF TimerGivesUp, EndTimer, Expires
<1>29. ASSUME NEW t \in Timers, TimerChecked(t)
       PROVE  TypeOK'
  BY <1>29 DEF TimerChecked, Expires
<1>30. ASSUME NEW t \in Timers, CloseIdle(t)
       PROVE  TypeOK'
  BY <1>30 DEF CloseIdle, CloseConns, MarkClosed, Unregister, EndTimer
<1>31. ASSUME NEW t \in Timers, TimerCancelled(t)
       PROVE  TypeOK'
  BY <1>31 DEF TimerCancelled, EndTimer
<1>32. ASSUME NEW c \in Conns, KeepaliveStops(c)
       PROVE  TypeOK'
  BY <1>32 DEF KeepaliveStops
<1>33. ASSUME NEW c \in Conns, KeepaliveFails(c)
       PROVE  TypeOK'
  BY <1>33 DEF KeepaliveFails
<1>34. ASSUME NEW c \in Conns, Evict(c)
       PROVE  TypeOK'
  BY <1>34 DEF Evict
<1>35. ASSUME NEW c \in Conns, EvictClose(c)
       PROVE  TypeOK'
  BY <1>35 DEF EvictClose, CloseConns, MarkClosed, Unregister
<1>36. ASSUME NEW c \in Conns, CheckerPasses(c)
       PROVE  TypeOK'
  BY <1>36 DEF CheckerPasses
<1>37. ASSUME NEW c \in Conns, CheckerFails(c)
       PROVE  TypeOK'
  BY <1>37 DEF CheckerFails
<1>38. ASSUME NEW c \in Conns, PeerFails(c)
       PROVE  TypeOK'
  BY <1>38 DEF PeerFails
<1>39. ASSUME CheckerTick
       PROVE  TypeOK'
  BY <1>39 DEF CheckerTick, Monitored
<1>40. ASSUME HandleFailure
       PROVE  TypeOK'
  BY <1>40 DEF HandleFailure
<1>41. ASSUME ClosePool
       PROVE  TypeOK'
  BY <1>41 DEF ClosePool, CloseConns, MarkClosed
<1>42. ASSUME CloseReturns
       PROVE  TypeOK'
  BY <1>42 DEF CloseReturns
<1>43. QED
  BY <1>1, <1>2, <1>3, <1>4, <1>5, <1>6, <1>7, <1>8, <1>9, <1>10, <1>11,
     <1>12, <1>13, <1>14, <1>15, <1>16, <1>17, <1>18, <1>19, <1>20, <1>21,
     <1>22, <1>23, <1>24, <1>25, <1>26, <1>27, <1>28, <1>29, <1>30, <1>31,
     <1>32, <1>33, <1>34, <1>35, <1>36, <1>37, <1>38, <1>39, <1>40, <1>41,
     <1>42 DEF Next, ForwardStep, FastPath, SlowPath, EndRelease, TimerEnds,
     KeepaliveStep, CheckerStep

(* Every step of the pool preserves the rest of the invariant.             *)
LEMMA InvStep ==
    ASSUME PoolIInv, Next, TypeOK'
    PROVE  PoolIInv'
<1> USE PoolSentinels DEF PoolIInv, TypeOK, Attached, InHand, FlightLed,
        WaitersServed, Unborn, Private, PooledSignature, TakenOut,
        ClosedNotPooled, KeepaliveCovers, IdleLookedAfter, HandSteps,
        LeaderSteps, PCs, AcquireSteps, poolVars, connVars, healthVars,
        callVars, timerVars
<1>1. ASSUME NEW f \in Forwards, NEW k \in Signatures, Lookup(f, k)
      PROVE  PoolIInv'
  BY <1>1 DEF Lookup, Goto
<1>2. ASSUME NEW f \in Forwards, FoundAlive(f)
      PROVE  PoolIInv'
  BY <1>2 DEF FoundAlive, Goto
<1>3. ASSUME NEW f \in Forwards, FoundDead(f)
      PROVE  PoolIInv'
  BY <1>3 DEF FoundDead, Goto
<1>4. ASSUME NEW f \in Forwards, DropDead(f)
      PROVE  PoolIInv'
  BY <1>4, SMTT(30) DEF DropDead, Goto
<1>5. ASSUME NEW f \in Forwards, CloseDead(f)
      PROVE  PoolIInv'
  BY <1>5 DEF CloseDead, Goto, CloseConns, MarkClosed, Unregister
<1>6. ASSUME NEW f \in Forwards, ReadStatus(f)
      PROVE  PoolIInv'
  BY <1>6 DEF ReadStatus, Goto
<1>7. ASSUME NEW f \in Forwards, CancelLinger(f)
      PROVE  PoolIInv'
  BY <1>7 DEF CancelLinger, Goto
<1>8. ASSUME NEW f \in Forwards, RenewContext(f)
      PROVE  PoolIInv'
  BY <1>8 DEF RenewContext, Goto
<1>9. ASSUME NEW f \in Forwards, AcquireExisting(f)
      PROVE  PoolIInv'
  BY <1>9 DEF AcquireExisting, Goto, TakeRef
<1>10. ASSUME NEW f \in Forwards, AcquireExistingFails(f)
       PROVE  PoolIInv'
  BY <1>10 DEF AcquireExistingFails, Leave, Goto
<1>11. ASSUME NEW f \in Forwards, Lead(f)
       PROVE  PoolIInv'
  BY <1>11 DEF Lead, Goto
<1>12. ASSUME NEW f \in Forwards, Join(f)
       PROVE  PoolIInv'
  BY <1>12 DEF Join, Goto
<1>13. ASSUME NEW f \in Forwards, DoubleCheck(f)
       PROVE  PoolIInv'
  BY <1>13 DEF DoubleCheck, Goto
<1>14. ASSUME NEW f \in Forwards, NEW c \in Conns, Dial(f, c)
       PROVE  PoolIInv'
  BY <1>14 DEF Dial, Goto
<1>15. ASSUME NEW f \in Forwards, DialFails(f)
       PROVE  PoolIInv'
  BY <1>15 DEF DialFails, Goto
<1>16. ASSUME NEW f \in Forwards, Insert(f)
       PROVE  PoolIInv'
  <2>1. /\ pools' = [pools EXCEPT ![sig[f]] = conn[f]]
        /\ pc' = [pc EXCEPT ![f] = "watch"]
        /\ pc[f] = "insert"
        /\ UNCHANGED <<flight, shutdown, connVars, keepalive, healthVars,
                       callVars, timerVars>>
    BY <1>16 DEF Insert, Goto
  <2>2. IdleLookedAfter'
    BY <2>1, SMTT(30)
  <2>3. KeepaliveCovers' /\ ClosedNotPooled'
    BY <2>1
  <2>4. Attached' /\ InHand' /\ FlightLed' /\ WaitersServed'
    BY <2>1
  <2>5. Unborn' /\ Private' /\ PooledSignature' /\ TakenOut'
    BY <2>1
  <2>6. QED
    BY <2>2, <2>3, <2>4, <2>5
<1>17. ASSUME NEW f \in Forwards, Watch(f)
       PROVE  PoolIInv'
  BY <1>17 DEF Watch, Goto
<1>18. ASSUME NEW f \in Forwards, Finish(f)
       PROVE  PoolIInv'
  BY <1>18, SMTT(30) DEF Finish, Waiters
<1>19. ASSUME NEW f \in Forwards, Forget(f)
       PROVE  PoolIInv'
  BY <1>19 DEF Forget, Leave, Goto
<1>20. ASSUME NEW f \in Forwards, ReturnUnshared(f)
       PROVE  PoolIInv'
  BY <1>20 DEF ReturnUnshared, Goto
<1>21. ASSUME NEW f \in Forwards, AcquireShared(f)
       PROVE  PoolIInv'
  BY <1>21 DEF AcquireShared, Goto, TakeRef
<1>22. ASSUME NEW f \in Forwards, AcquireSharedFails(f)
       PROVE  PoolIInv'
  BY <1>22 DEF AcquireSharedFails, Leave, Goto
<1>23. ASSUME NEW f \in Forwards, ReleaseRef(f)
       PROVE  PoolIInv'
  BY <1>23 DEF ReleaseRef, Goto
<1>24. ASSUME NEW f \in Forwards, ReleaseFails(f)
       PROVE  PoolIInv'
  BY <1>24 DEF ReleaseFails, Leave, Goto
<1>25. ASSUME NEW f \in Forwards, StillReferenced(f)
       PROVE  PoolIInv'
  BY <1>25 DEF StillReferenced, Leave, Goto
<1>26. ASSUME NEW f \in Forwards, NEW t \in Timers, Linger(f, t)
       PROVE  PoolIInv'
  BY <1>26 DEF Linger, Leave, Goto
<1>27. ASSUME NEW t \in Timers, ArmTimer(t)
       PROVE  PoolIInv'
  BY <1>27 DEF ArmTimer
<1>28. ASSUME NEW t \in Timers, TimerGivesUp(t)
       PROVE  PoolIInv'
  BY <1>28 DEF TimerGivesUp, EndTimer, Expires
<1>29. ASSUME NEW t \in Timers, TimerChecked(t)
       PROVE  PoolIInv'
  BY <1>29 DEF TimerChecked, Expires
<1>30. ASSUME NEW t \in Timers, CloseIdle(t)
       PROVE  PoolIInv'
  BY <1>30 DEF CloseIdle, CloseConns, MarkClosed, Unregister, EndTimer
<1>31. ASSUME NEW t \in Timers, TimerCancelled(t)
       PROVE  PoolIInv'
  BY <1>31 DEF TimerCancelled, EndTimer
<1>32. ASSUME NEW c \in Conns, KeepaliveStops(c)
       PROVE  PoolIInv'
  BY <1>32 DEF KeepaliveStops
<1>33. ASSUME NEW c \in Conns, KeepaliveFails(c)
       PROVE  PoolIInv'
  BY <1>33 DEF KeepaliveFails
<1>34. ASSUME NEW c \in Conns, Evict(c)
       PROVE  PoolIInv'
  BY <1>34 DEF Evict
<1>35. ASSUME NEW c \in Conns, EvictClose(c)
       PROVE  PoolIInv'
  BY <1>35, SMTT(30) DEF EvictClose, CloseConns, MarkClosed, Unregister
<1>36. ASSUME NEW c \in Conns, CheckerPasses(c)
       PROVE  PoolIInv'
  BY <1>36 DEF CheckerPasses
<1>37. ASSUME NEW c \in Conns, CheckerFails(c)
       PROVE  PoolIInv'
  BY <1>37 DEF CheckerFails
<1>38. ASSUME NEW c \in Conns, PeerFails(c)
       PROVE  PoolIInv'
  BY <1>38 DEF PeerFails
<1>39. ASSUME CheckerTick
       PROVE  PoolIInv'
  BY <1>39 DEF CheckerTick, Monitored
<1>40. ASSUME HandleFailure
       PROVE  PoolIInv'
  BY <1>40 DEF HandleFailure
<1>41. ASSUME ClosePool
       PROVE  PoolIInv'
  BY <1>41 DEF ClosePool, CloseConns, MarkClosed
<1>42. ASSUME CloseReturns
       PROVE  PoolIInv'
  BY <1>42 DEF CloseReturns
<1>43. QED
  BY <1>1, <1>2, <1>3, <1>4, <1>5, <1>6, <1>7, <1>8, <1>9, <1>10, <1>11,
     <1>12, <1>13, <1>14, <1>15, <1>16, <1>17, <1>18, <1>19, <1>20, <1>21,
     <1>22, <1>23, <1>24, <1>25, <1>26, <1>27, <1>28, <1>29, <1>30, <1>31,
     <1>32, <1>33, <1>34, <1>35, <1>36, <1>37, <1>38, <1>39, <1>40, <1>41,
     <1>42 DEF Next, ForwardStep, FastPath, SlowPath, EndRelease, TimerEnds,
     KeepaliveStep, CheckerStep

(* An idle step changes nothing the invariant speaks of.                   *)
LEMMA StutterInv ==
    ASSUME PoolIInv, UNCHANGED vars
    PROVE  PoolIInv'
BY DEF vars, poolVars, connVars, healthVars, callVars, timerVars, PoolIInv,
   TypeOK, Attached, InHand, FlightLed, WaitersServed, Unborn, Private,
   PooledSignature, TakenOut, ClosedNotPooled, KeepaliveCovers, IdleLookedAfter

(* The invariant holds in every reachable state.                           *)
THEOREM PoolInvariant == Spec => []PoolIInv
<1>1. PoolIInv /\ [Next]_vars => PoolIInv'
  BY TypeStep, InvStep, StutterInv DEF PoolIInv
<1>2. QED
  BY InitInv, <1>1, PTL DEF Spec

(* Every variable keeps to its type: in particular RefCount never goes     *)
(* below zero, whatever the interleaving of Acquire and Release.           *)
THEOREM TypeCorrectness == Spec => []TypeOK
BY PoolInvariant, PTL DEF PoolIInv

(* No connection marked closed is in the pool: every path that closes one  *)
(* takes it out first, and no path puts one back.                          *)
THEOREM NoClosedConnectionPooled == Spec => []ClosedNotPooled
BY PoolInvariant, PTL DEF PoolIInv

(* Every pooled connection has a keepalive goroutine that will notice the  *)
(* loss of its peer, or is about to get one from the forward that dialled  *)
(* it.                                                                     *)
THEOREM EveryPooledConnectionProbed == Spec => []KeepaliveCovers
BY PoolInvariant, PTL DEF PoolIInv

(* A forward that joined a singleflight call waits for a forward that is   *)
(* executing that call.                                                    *)
THEOREM NobodyWaitsInVain == Spec => []WaitersServed
BY PoolInvariant, PTL DEF PoolIInv

(* A pooled connection that nobody references is on somebody's hands,      *)
(* unless its context was cancelled.                                       *)
THEOREM IdleConnectionsLookedAfter == Spec => []IdleLookedAfter
BY PoolInvariant, PTL DEF PoolIInv
=============================================================================
