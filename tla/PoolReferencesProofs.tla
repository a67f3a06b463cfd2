------------------------ MODULE PoolReferencesProofs ------------------------
(***************************************************************************)
(* Theorems about RefCount, for any finite set of forwards.                *)
(*                                                                         *)
(* Most steps are quiet: nobody begins or ceases to hold a connection, and *)
(* RefCount stays.  QuietStep says which, QuietKeeps that they preserve    *)
(* the account; AccountStep has the seven others.                          *)
(***************************************************************************)
EXTENDS PoolReferences, ConnectionPoolProofs, FiniteSetTheorems

(* The holders of a connection can be counted, before and after a step.    *)
LEMMA HoldersFinite ==
    ASSUME NEW c
    PROVE  /\ IsFiniteSet(Holders(c)) /\ Cardinality(Holders(c)) \in Nat
           /\ IsFiniteSet(Holders(c)') /\ Cardinality(Holders(c)') \in Nat
<1>1. Holders(c) \in SUBSET Forwards /\ Holders(c)' \in SUBSET Forwards
  BY DEF Holders
<1>2. QED
  BY <1>1, FiniteForwards, FS_Subset, FS_CardinalityType

(* One forward begins to hold a connection, or ceases to.                  *)
LEMMA HolderAdded ==
    ASSUME NEW c, NEW f, f \notin Holders(c), Holders(c)' = Holders(c) \cup {f}
    PROVE  Cardinality(Holders(c)') = Cardinality(Holders(c)) + 1
<1>1. IsFiniteSet(Holders(c))
  BY HoldersFinite
<1>2. Cardinality(Holders(c) \cup {f}) = Cardinality(Holders(c)) + 1
  BY <1>1, FS_AddElement
<1>3. QED
  BY <1>2

LEMMA HolderRemoved ==
    ASSUME NEW c, NEW f, f \in Holders(c), Holders(c)' = Holders(c) \ {f}
    PROVE  /\ Cardinality(Holders(c)') = Cardinality(Holders(c)) - 1
           /\ Cardinality(Holders(c)) > 0
<1>1. IsFiniteSet(Holders(c)) /\ Cardinality(Holders(c)) \in Nat
  BY HoldersFinite
<1>2. Cardinality(Holders(c) \ {f}) = Cardinality(Holders(c)) - 1
  BY <1>1, FS_RemoveElement
<1>3. Cardinality(Holders(c)) # 0
  BY <1>1, FS_EmptySet
<1>4. QED
  BY <1>1, <1>2, <1>3

(* The steps at which a connection is held because it was dialled.         *)
DialerSteps == {"insert", "watch", "finish", "result"}

(* A step in which nobody begins or ceases to hold a connection.           *)
Quiet ==
    /\ refCount' = refCount
    /\ \A f \in Forwards :
          /\ pc[f] = "result" /\ conn[f] \in Conns => pc'[f] = "result"
          /\ (pc[f] = "using" <=> pc'[f] = "using")
          /\ pc[f] = "using" => conn'[f] = conn[f]
          /\ dialed'[f] /\ pc'[f] \in DialerSteps <=> dialed[f] /\ pc[f] \in DialerSteps
          /\ dialed[f] /\ pc[f] \in DialerSteps => conn'[f] = conn[f]

LEMMA QuietKeeps ==
    ASSUME RefIInv, RefNext, Quiet
    PROVE  /\ drift' = drift
           /\ RefCountAccounted' /\ AtMostOneLeaked' /\ NotYetLeaked'
<1>1. drift' = drift
  <2>1. ASSUME NEW c \in Conns, NEW f \in Forwards
        PROVE  ~ExtraReference(f, c) /\ ~ReleaseRefused(f, c) /\ ~FreeRide(f, c)
    BY <2>1 DEF Quiet, ExtraReference, ReleaseRefused, FreeRide
  <2>2. QED
    BY <2>1 DEF RefNext, RefIInv
<1>2. ASSUME NEW c \in Conns
      PROVE  Holders(c)' = Holders(c)
  BY DEF Quiet, Holders, Holds, DialerSteps
<1>3. RefCountAccounted'
  BY <1>1, <1>2 DEF RefCountAccounted, RefIInv, Quiet
<1>4. AtMostOneLeaked' /\ NotYetLeaked'
  BY <1>1 DEF AtMostOneLeaked, NotYetLeaked, RefIInv, Quiet, DialerSteps
<1>5. QED
  BY <1>1, <1>3, <1>4

(* The steps that are not quiet.                                           *)
Counts(f) ==
    \/ AcquireExisting(f) \/ \E c \in Conns : Dial(f, c)
    \/ ReturnUnshared(f) \/ AcquireShared(f) \/ AcquireSharedFails(f)
    \/ ReleaseRef(f) \/ ReleaseFails(f)

LEMMA QuietStep ==
    ASSUME RefIInv, Next
    PROVE  Quiet \/ \E f \in Forwards : Counts(f)
<1> USE PoolSentinels DEF RefIInv, PoolIInv, TypeOK, PCs, AcquireSteps,
        DialedInHand, Quiet, DialerSteps, poolVars, connVars, healthVars,
        callVars, timerVars
<1>1. ASSUME NEW f \in Forwards, NEW k \in Signatures, Lookup(f, k)
      PROVE  Quiet
  BY <1>1 DEF Lookup, Goto
<1>2. ASSUME NEW f \in Forwards, FoundAlive(f)
      PROVE  Quiet
  BY <1>2 DEF FoundAlive, Goto
<1>3. ASSUME NEW f \in Forwards, FoundDead(f)
      PROVE  Quiet
  BY <1>3 DEF FoundDead, Goto
<1>4. ASSUME NEW f \in Forwards, DropDead(f)
      PROVE  Quiet
  BY <1>4 DEF DropDead, Goto
<1>5. ASSUME NEW f \in Forwards, CloseDead(f)
      PROVE  Quiet
  BY <1>5 DEF CloseDead, Goto, CloseConns, MarkClosed, Unregister
<1>6. ASSUME NEW f \in Forwards, ReadStatus(f)
      PROVE  Quiet
  BY <1>6 DEF ReadStatus, Goto
<1>7. ASSUME NEW f \in Forwards, CancelLinger(f)
      PROVE  Quiet
  BY <1>7 DEF CancelLinger, Goto
<1>8. ASSUME NEW f \in Forwards, RenewContext(f)
      PROVE  Quiet
  BY <1>8 DEF RenewContext, Goto
<1>9. ASSUME NEW f \in Forwards, AcquireExistingFails(f)
      PROVE  Quiet
  BY <1>9 DEF AcquireExistingFails, Leave, Goto
<1>10. ASSUME NEW f \in Forwards, Lead(f)
      PROVE  Quiet
  BY <1>10 DEF Lead, Goto
<1>11. ASSUME NEW f \in Forwards, Join(f)
      PROVE  Quiet
  BY <1>11 DEF Join, Goto
<1>12. ASSUME NEW f \in Forwards, DoubleCheck(f)
      PROVE  Quiet
  BY <1>12 DEF DoubleCheck, Goto
<1>13. ASSUME NEW f \in Forwards, DialFails(f)
      PROVE  Quiet
  BY <1>13 DEF DialFails, Goto
<1>14. ASSUME NEW f \in Forwards, Insert(f)
      PROVE  Quiet
  BY <1>14 DEF Insert, Goto
<1>15. ASSUME NEW f \in Forwards, Watch(f)
      PROVE  Quiet
  BY <1>15 DEF Watch, Goto
<1>16. ASSUME NEW f \in Forwards, Finish(f)
      PROVE  Quiet
  BY <1>16 DEF Finish, Waiters
<1>17. ASSUME NEW f \in Forwards, Forget(f)
      PROVE  Quiet
  BY <1>17 DEF Forget, Leave, Goto
<1>18. ASSUME NEW f \in Forwards, StillReferenced(f)
      PROVE  Quiet
  BY <1>18 DEF StillReferenced, Leave, Goto
<1>19. ASSUME NEW f \in Forwards, NEW t \in Timers, Linger(f, t)
      PROVE  Quiet
  BY <1>19 DEF Linger, Leave, Goto
<1>20. ASSUME NEW t \in Timers, ArmTimer(t)
      PROVE  Quiet
  BY <1>20 DEF ArmTimer
<1>21. ASSUME NEW t \in Timers, TimerGivesUp(t)
      PROVE  Quiet
  BY <1>21 DEF TimerGivesUp, EndTimer
<1>22. ASSUME NEW t \in Timers, TimerChecked(t)
      PROVE  Quiet
  BY <1>22 DEF TimerChecked
<1>23. ASSUME NEW t \in Timers, CloseIdle(t)
      PROVE  Quiet
  BY <1>23 DEF CloseIdle, CloseConns, MarkClosed, EndTimer
<1>24. ASSUME NEW t \in Timers, TimerCancelled(t)
      PROVE  Quiet
  BY <1>24 DEF TimerCancelled, EndTimer
<1>25. ASSUME NEW c \in Conns, KeepaliveStops(c)
      PROVE  Quiet
  BY <1>25 DEF KeepaliveStops
<1>26. ASSUME NEW c \in Conns, KeepaliveFails(c)
      PROVE  Quiet
  BY <1>26 DEF KeepaliveFails
<1>27. ASSUME NEW c \in Conns, Evict(c)
      PROVE  Quiet
  BY <1>27 DEF Evict
<1>28. ASSUME NEW c \in Conns, EvictClose(c)
      PROVE  Quiet
  BY <1>28 DEF EvictClose, CloseConns, MarkClosed
<1>29. ASSUME NEW c \in Conns, CheckerPasses(c)
      PROVE  Quiet
  BY <1>29 DEF CheckerPasses
<1>30. ASSUME NEW c \in Conns, CheckerFails(c)
      PROVE  Quiet
  BY <1>30 DEF CheckerFails
<1>31. ASSUME NEW c \in Conns, PeerFails(c)
      PROVE  Quiet
  BY <1>31 DEF PeerFails
<1>32. ASSUME CheckerTick
      PROVE  Quiet
  BY <1>32 DEF CheckerTick
<1>33. ASSUME HandleFailure
      PROVE  Quiet
  BY <1>33 DEF HandleFailure
<1>34. ASSUME ClosePool
      PROVE  Quiet
  BY <1>34 DEF ClosePool, CloseConns, MarkClosed
<1>35. ASSUME CloseReturns
      PROVE  Quiet
  BY <1>35 DEF CloseReturns
<1>36. QED
  BY <1>1, <1>2, <1>3, <1>4, <1>5, <1>6, <1>7, <1>8, <1>9, <1>10, <1>11,
     <1>12, <1>13, <1>14, <1>15, <1>16, <1>17, <1>18, <1>19, <1>20, <1>21,
     <1>22, <1>23, <1>24, <1>25, <1>26, <1>27, <1>28, <1>29, <1>30, <1>31,
     <1>32, <1>33, <1>34, <1>35 DEF Next, ForwardStep, FastPath, SlowPath,
     EndRelease, TimerEnds, KeepaliveStep, CheckerStep, Counts

(* A connection is dialled once, by one forward, which knows it as long as *)
(* it says it dialled one.                                                 *)
LEMMA DialersStep ==
    ASSUME RefIInv, Next
    PROVE  DialedInHand' /\ OneDialer' /\ UnbornUncounted'
<1> USE PoolSentinels DEF RefIInv, PoolIInv, TypeOK, PCs, AcquireSteps, InHand,
        HandSteps, Unborn, DialedInHand, OneDialer, UnbornUncounted, poolVars,
        connVars, healthVars, callVars, timerVars
<1>1. ASSUME NEW f \in Forwards, NEW k \in Signatures, Lookup(f, k)
      PROVE  DialedInHand' /\ OneDialer' /\ UnbornUncounted'
  BY <1>1 DEF Lookup, Goto
<1>2. ASSUME NEW f \in Forwards, FoundAlive(f)
      PROVE  DialedInHand' /\ OneDialer' /\ UnbornUncounted'
  BY <1>2 DEF FoundAlive, Goto
<1>3. ASSUME NEW f \in Forwards, FoundDead(f)
      PROVE  DialedInHand' /\ OneDialer' /\ UnbornUncounted'
  BY <1>3 DEF FoundDead, Goto
<1>4. ASSUME NEW f \in Forwards, DropDead(f)
      PROVE  DialedInHand' /\ OneDialer' /\ UnbornUncounted'
  BY <1>4 DEF DropDead, Goto
<1>5. ASSUME NEW f \in Forwards, CloseDead(f)
      PROVE  DialedInHand' /\ OneDialer' /\ UnbornUncounted'
  BY <1>5 DEF CloseDead, Goto, CloseConns, MarkClosed, Unregister
<1>6. ASSUME NEW f \in Forwards, ReadStatus(f)
      PROVE  DialedInHand' /\ OneDialer' /\ UnbornUncounted'
  BY <1>6 DEF ReadStatus, Goto
<1>7. ASSUME NEW f \in Forwards, CancelLinger(f)
      PROVE  DialedInHand' /\ OneDialer' /\ UnbornUncounted'
  BY <1>7 DEF CancelLinger, Goto
<1>8. ASSUME NEW f \in Forwards, RenewContext(f)
      PROVE  DialedInHand' /\ OneDialer' /\ UnbornUncounted'
  BY <1>8 DEF RenewContext, Goto
<1>9. ASSUME NEW f \in Forwards, AcquireExisting(f)
      PROVE  DialedInHand' /\ OneDialer' /\ UnbornUncounted'
  BY <1>9 DEF AcquireExisting, Goto, TakeRef
<1>10. ASSUME NEW f \in Forwards, AcquireExistingFails(f)
      PROVE  DialedInHand' /\ OneDialer' /\ UnbornUncounted'
  BY <1>10 DEF AcquireExistingFails, Leave, Goto
<1>11. ASSUME NEW f \in Forwards, Lead(f)
      PROVE  DialedInHand' /\ OneDialer' /\ UnbornUncounted'
  BY <1>11 DEF Lead, Goto
<1>12. ASSUME NEW f \in Forwards, Join(f)
      PROVE  DialedInHand' /\ OneDialer' /\ UnbornUncounted'
  BY <1>12 DEF Join, Goto
<1>13. ASSUME NEW f \in Forwards, DoubleCheck(f)
      PROVE  DialedInHand' /\ OneDialer' /\ UnbornUncounted'
  BY <1>13 DEF DoubleCheck, Goto
<1>14. ASSUME NEW f \in Forwards, NEW c \in Conns, Dial(f, c)
      PROVE  DialedInHand' /\ OneDialer' /\ UnbornUncounted'
  BY <1>14 DEF Dial, Goto
<1>15. ASSUME NEW f \in Forwards, DialFails(f)
      PROVE  DialedInHand' /\ OneDialer' /\ UnbornUncounted'
  BY <1>15 DEF DialFails, Goto
<1>16. ASSUME NEW f \in Forwards, Insert(f)
      PROVE  DialedInHand' /\ OneDialer' /\ UnbornUncounted'
  BY <1>16 DEF Insert, Goto
<1>17. ASSUME NEW f \in Forwards, Watch(f)
      PROVE  DialedInHand' /\ OneDialer' /\ UnbornUncounted'
  BY <1>17 DEF Watch, Goto
<1>18. ASSUME NEW f \in Forwards, Finish(f)
      PROVE  DialedInHand' /\ OneDialer' /\ UnbornUncounted'
  BY <1>18 DEF Finish, Waiters
<1>19. ASSUME NEW f \in Forwards, Forget(f)
      PROVE  DialedInHand' /\ OneDialer' /\ UnbornUncounted'
  BY <1>19 DEF Forget, Leave, Goto
<1>20. ASSUME NEW f \in Forwards, ReturnUnshared(f)
      PROVE  DialedInHand' /\ OneDialer' /\ UnbornUncounted'
  BY <1>20 DEF ReturnUnshared, Goto
<1>21. ASSUME NEW f \in Forwards, AcquireShared(f)
      PROVE  DialedInHand' /\ OneDialer' /\ UnbornUncounted'
  BY <1>21 DEF AcquireShared, Goto, TakeRef
<1>22. ASSUME NEW f \in Forwards, AcquireSharedFails(f)
      PROVE  DialedInHand' /\ OneDialer' /\ UnbornUncounted'
  BY <1>22 DEF AcquireSharedFails, Leave, Goto
<1>23. ASSUME NEW f \in Forwards, ReleaseRef(f)
      PROVE  DialedInHand' /\ OneDialer' /\ UnbornUncounted'
  BY <1>23 DEF ReleaseRef, Goto
<1>24. ASSUME NEW f \in Forwards, ReleaseFails(f)
      PROVE  DialedInHand' /\ OneDialer' /\ UnbornUncounted'
  BY <1>24 DEF ReleaseFails, Leave, Goto
<1>25. ASSUME NEW f \in Forwards, StillReferenced(f)
      PROVE  DialedInHand' /\ OneDialer' /\ UnbornUncounted'
  BY <1>25 DEF StillReferenced, Leave, Goto
<1>26. ASSUME NEW f \in Forwards, NEW t \in Timers, Linger(f, t)
      PROVE  DialedInHand' /\ OneDialer' /\ UnbornUncounted'
  BY <1>26 DEF Linger, Leave, Goto
<1>27. ASSUME NEW t \in Timers, ArmTimer(t)
      PROVE  DialedInHand' /\ OneDialer' /\ UnbornUncounted'
  BY <1>27 DEF ArmTimer
<1>28. ASSUME NEW t \in Timers, TimerGivesUp(t)
      PROVE  DialedInHand' /\ OneDialer' /\ UnbornUncounted'
  BY <1>28 DEF TimerGivesUp, EndTimer
<1>29. ASSUME NEW t \in Timers, TimerChecked(t)
      PROVE  DialedInHand' /\ OneDialer' /\ UnbornUncounted'
  BY <1>29 DEF TimerChecked
<1>30. ASSUME NEW t \in Timers, CloseIdle(t)
      PROVE  DialedInHand' /\ OneDialer' /\ UnbornUncounted'
  BY <1>30 DEF CloseIdle, CloseConns, MarkClosed, EndTimer
<1>31. ASSUME NEW t \in Timers, TimerCancelled(t)
      PROVE  DialedInHand' /\ OneDialer' /\ UnbornUncounted'
  BY <1>31 DEF TimerCancelled, EndTimer
<1>32. ASSUME NEW c \in Conns, KeepaliveStops(c)
      PROVE  DialedInHand' /\ OneDialer' /\ UnbornUncounted'
  BY <1>32 DEF KeepaliveStops
<1>33. ASSUME NEW c \in Conns, KeepaliveFails(c)
      PROVE  DialedInHand' /\ OneDialer' /\ UnbornUncounted'
  BY <1>33 DEF KeepaliveFails
<1>34. ASSUME NEW c \in Conns, Evict(c)
      PROVE  DialedInHand' /\ OneDialer' /\ UnbornUncounted'
  BY <1>34 DEF Evict
<1>35. ASSUME NEW c \in Conns, EvictClose(c)
      PROVE  DialedInHand' /\ OneDialer' /\ UnbornUncounted'
  BY <1>35 DEF EvictClose, CloseConns, MarkClosed
<1>36. ASSUME NEW c \in Conns, CheckerPasses(c)
      PROVE  DialedInHand' /\ OneDialer' /\ UnbornUncounted'
  BY <1>36 DEF CheckerPasses
<1>37. ASSUME NEW c \in Conns, CheckerFails(c)
      PROVE  DialedInHand' /\ OneDialer' /\ UnbornUncounted'
  BY <1>37 DEF CheckerFails
<1>38. ASSUME NEW c \in Conns, PeerFails(c)
      PROVE  DialedInHand' /\ OneDialer' /\ UnbornUncounted'
  BY <1>38 DEF PeerFails
<1>39. ASSUME CheckerTick
      PROVE  DialedInHand' /\ OneDialer' /\ UnbornUncounted'
  BY <1>39 DEF CheckerTick
<1>40. ASSUME HandleFailure
      PROVE  DialedInHand' /\ OneDialer' /\ UnbornUncounted'
  BY <1>40 DEF HandleFailure
<1>41. ASSUME ClosePool
      PROVE  DialedInHand' /\ OneDialer' /\ UnbornUncounted'
  BY <1>41 DEF ClosePool, CloseConns, MarkClosed
<1>42. ASSUME CloseReturns
      PROVE  DialedInHand' /\ OneDialer' /\ UnbornUncounted'
  BY <1>42 DEF CloseReturns
<1>43. QED
  BY <1>1, <1>2, <1>3, <1>4, <1>5, <1>6, <1>7, <1>8, <1>9, <1>10, <1>11,
     <1>12, <1>13, <1>14, <1>15, <1>16, <1>17, <1>18, <1>19, <1>20, <1>21,
     <1>22, <1>23, <1>24, <1>25, <1>26, <1>27, <1>28, <1>29, <1>30, <1>31,
     <1>32, <1>33, <1>34, <1>35, <1>36, <1>37, <1>38, <1>39, <1>40, <1>41,
     <1>42 DEF Next, ForwardStep, FastPath, SlowPath, EndRelease, TimerEnds,
     KeepaliveStep, CheckerStep

(* Only one connection is concerned by such a step.                        *)
LEMMA OthersKeep ==
    ASSUME RefIInv, RefNext, NEW c \in Conns, NEW f \in Forwards,
           conn[f] = c \/ (conn'[f] = c /\ ~dialed[f] /\ pc[f] = "dial"),
           \A g \in Forwards \ {f} :
               /\ pc'[g] = pc[g] /\ conn'[g] = conn[g] /\ dialed'[g] = dialed[g],
           \A d \in Conns \ {c} : conn'[f] # d,
           \A d \in Conns \ {c} : refCount'[d] = refCount[d]
    PROVE  \A d \in Conns \ {c} :
               /\ Holders(d)' = Holders(d) /\ drift'[d] = drift[d]
               /\ refCount'[d] = Cardinality(Holders(d)') + drift'[d]
<1>1. ASSUME NEW d \in Conns \ {c}
      PROVE  Holders(d)' = Holders(d) /\ drift'[d] = drift[d]
  <2>1. ASSUME NEW g \in Forwards
        PROVE  Holds(g, d)' <=> Holds(g, d)
    BY DEF Holds, RefIInv, PoolIInv
  <2>2. Holders(d)' = Holders(d)
    BY <2>1 DEF Holders
  <2>3. ASSUME NEW g \in Forwards
        PROVE  ~ExtraReference(g, d) /\ ~ReleaseRefused(g, d) /\ ~FreeRide(g, d)
    BY DEF ExtraReference, ReleaseRefused, FreeRide
  <2>4. drift'[d] = drift[d]
    BY <2>3 DEF RefNext
  <2>5. QED
    BY <2>2, <2>4
<1>2. QED
  BY <1>1 DEF RefIInv, RefCountAccounted

(* The account after a step that concerns c, given how its holders, its    *)
(* RefCount and its drift change.                                          *)
LEMMA AccountKept ==
    ASSUME RefIInv, NEW c \in Conns,
           \A d \in Conns \ {c} :
               /\ drift'[d] = drift[d]
               /\ refCount'[d] = Cardinality(Holders(d)') + drift'[d],
           drift' = [d \in Conns |-> drift'[d]],
           drift'[c] \in Int,
           refCount'[c] = Cardinality(Holders(c)') + drift'[c],
           drift'[c] <= 1
    PROVE  drift' \in [Conns -> Int] /\ RefCountAccounted' /\ AtMostOneLeaked'
<1>1. \A d \in Conns : drift'[d] \in Int /\ drift'[d] <= 1
  BY DEF RefIInv, AtMostOneLeaked
<1>2. QED
  BY <1>1 DEF RefIInv, RefCountAccounted, AtMostOneLeaked

LEMMA AccountStep ==
    ASSUME RefIInv, RefNext, DialedInHand', OneDialer',
           NEW f \in Forwards, Counts(f)
    PROVE  /\ drift' \in [Conns -> Int]
           /\ RefCountAccounted' /\ AtMostOneLeaked' /\ NotYetLeaked'
<1>t. /\ pc \in [Forwards -> PCs] /\ conn \in [Forwards -> Conns \cup {NoConn}]
      /\ dialed \in [Forwards -> BOOLEAN]
      /\ refCount \in [Conns -> Nat] /\ drift \in [Conns -> Int]
      /\ InHand /\ Unborn /\ DialedInHand /\ OneDialer /\ NotYetLeaked
      /\ UnbornUncounted /\ RefCountAccounted /\ AtMostOneLeaked
  BY DEF RefIInv, PoolIInv, TypeOK
<1> USE <1>t, PoolSentinels DEF InHand, HandSteps, DialedInHand, NotYetLeaked
<1>0. drift' = [d \in Conns |-> drift'[d]]
  BY DEF RefNext
<1>h. \A d \in Conns : refCount[d] = Cardinality(Holders(d)) + drift[d]
  BY DEF RefCountAccounted
<1>1. CASE AcquireExisting(f)
  <2>1. PICK c \in Conns :
        /\ c = conn[f] /\ pc[f] = "acquire" /\ ~dialed[f]
        /\ pc' = [pc EXCEPT ![f] = "using"]
        /\ refCount' = [refCount EXCEPT ![c] = @ + 1]
        /\ UNCHANGED <<conn, dialed>>
    BY <1>1 DEF AcquireExisting, Goto, TakeRef, callVars
  <2>2. \A d \in Conns \ {c} :
            /\ drift'[d] = drift[d]
            /\ refCount'[d] = Cardinality(Holders(d)') + drift'[d]
    <3>1. \A g \in Forwards \ {f} :
              pc'[g] = pc[g] /\ conn'[g] = conn[g] /\ dialed'[g] = dialed[g]
      BY <2>1
    <3>2. \A d \in Conns \ {c} : conn'[f] # d /\ refCount'[d] = refCount[d]
      BY <2>1
    <3>3. conn[f] = c \/ (conn'[f] = c /\ ~dialed[f] /\ pc[f] = "dial")
      BY <2>1
    <3>4. QED
      BY <3>1, <3>2, <3>3, OthersKeep
  <2>3. Holders(c)' = Holders(c) \cup {f} /\ f \notin Holders(c)
    BY <2>1 DEF Holders, Holds
  <2>4. drift'[c] = drift[c]
    BY <2>1 DEF RefNext, ExtraReference, ReleaseRefused, FreeRide
  <2>5. Cardinality(Holders(c)') = Cardinality(Holders(c)) + 1
    BY <2>3, HolderAdded
  <2>6. refCount'[c] = Cardinality(Holders(c)') + drift'[c] /\ drift'[c] <= 1
    BY <1>h, <2>1, <2>4, <2>5, HoldersFinite DEF AtMostOneLeaked
  <2>7. NotYetLeaked'
    BY <2>1, <2>2, <2>4
  <2>8. QED
    BY <1>0, <2>1, <2>2, <2>4, <2>6, <2>7, AccountKept
<1>2. ASSUME NEW c \in Conns, Dial(f, c)
      PROVE  /\ drift' \in [Conns -> Int]
             /\ RefCountAccounted' /\ AtMostOneLeaked' /\ NotYetLeaked'
  <2>1. /\ pc[f] = "dial" /\ ~dialed[f] /\ status[c] = "none"
        /\ pc' = [pc EXCEPT ![f] = "insert"]
        /\ conn' = [conn EXCEPT ![f] = c]
        /\ dialed' = [dialed EXCEPT ![f] = TRUE]
        /\ refCount' = [refCount EXCEPT ![c] = 1]
    BY <1>2 DEF Dial, Goto
  <2>2. \A d \in Conns \ {c} :
            /\ drift'[d] = drift[d]
            /\ refCount'[d] = Cardinality(Holders(d)') + drift'[d]
    <3>1. \A g \in Forwards \ {f} :
              pc'[g] = pc[g] /\ conn'[g] = conn[g] /\ dialed'[g] = dialed[g]
      BY <2>1
    <3>2. \A d \in Conns \ {c} : conn'[f] # d /\ refCount'[d] = refCount[d]
      BY <2>1
    <3>3. conn[f] = c \/ (conn'[f] = c /\ ~dialed[f] /\ pc[f] = "dial")
      BY <2>1
    <3>4. QED
      BY <3>1, <3>2, <3>3, OthersKeep
  <2>3. Holders(c)' = {f} /\ Holders(c) = {}
    BY <2>1 DEF Holders, Holds, Unborn
  <2>4. drift'[c] = drift[c]
    BY <2>1 DEF RefNext, ExtraReference, ReleaseRefused, FreeRide, Unborn
  <2>5. Cardinality(Holders(c)') = 1 /\ Cardinality(Holders(c)) = 0
    BY <2>3, FS_Singleton, FS_EmptySet
  <2>6. drift[c] = 0
    BY <1>h, <2>1, <2>5 DEF UnbornUncounted
  <2>7. NotYetLeaked'
    BY <2>1, <2>2, <2>4, <2>6
  <2>8. refCount'[c] = Cardinality(Holders(c)') + drift'[c] /\ drift'[c] <= 1
    BY <2>1, <2>4, <2>5, <2>6
  <2>9. QED
    BY <1>0, <2>2, <2>4, <2>6, <2>7, <2>8, AccountKept
<1>3. CASE ReturnUnshared(f)
  <2>1. PICK c \in Conns :
        /\ c = conn[f] /\ pc[f] = "result" /\ ~shared[f]
        /\ pc' = [pc EXCEPT ![f] = "using"]
        /\ UNCHANGED <<refCount, conn, dialed>>
    BY <1>3 DEF ReturnUnshared, Goto, callVars, connVars
  <2>2. \A d \in Conns \ {c} :
            /\ drift'[d] = drift[d]
            /\ refCount'[d] = Cardinality(Holders(d)') + drift'[d]
    <3>1. \A g \in Forwards \ {f} :
              pc'[g] = pc[g] /\ conn'[g] = conn[g] /\ dialed'[g] = dialed[g]
      BY <2>1
    <3>2. \A d \in Conns \ {c} : conn'[f] # d /\ refCount'[d] = refCount[d]
      BY <2>1
    <3>3. conn[f] = c \/ (conn'[f] = c /\ ~dialed[f] /\ pc[f] = "dial")
      BY <2>1
    <3>4. QED
      BY <3>1, <3>2, <3>3, OthersKeep
  <2>3. CASE dialed[f]
    <3>1. Holders(c)' = Holders(c)
      BY <2>1, <2>3 DEF Holders, Holds
    <3>2. drift'[c] = drift[c]
      BY <2>1, <2>3 DEF RefNext, ExtraReference, ReleaseRefused, FreeRide
    <3>3. NotYetLeaked'
      BY <2>1, <2>2, <3>2
    <3>4. QED
      BY <1>0, <1>h, <2>1, <2>2, <3>1, <3>2, <3>3, AccountKept
         DEF AtMostOneLeaked
  <2>4. CASE ~dialed[f]
    <3>1. Holders(c)' = Holders(c) \cup {f} /\ f \notin Holders(c)
      BY <2>1, <2>4 DEF Holders, Holds
    <3>2. drift'[c] = drift[c] - 1
      BY <2>1, <2>4 DEF RefNext, ExtraReference, ReleaseRefused, FreeRide
    <3>3. Cardinality(Holders(c)') = Cardinality(Holders(c)) + 1
      BY <3>1, HolderAdded
    <3>4. NotYetLeaked'
      BY <2>1, <2>2, <3>2
    <3>5. /\ refCount'[c] = Cardinality(Holders(c)') + drift'[c]
          /\ drift'[c] <= 1 /\ drift'[c] \in Int
      BY <1>h, <2>1, <3>2, <3>3, HoldersFinite DEF AtMostOneLeaked
    <3>6. QED
      BY <1>0, <2>1, <2>2, <3>4, <3>5, AccountKept
  <2>5. QED
    BY <2>3, <2>4
<1>4. CASE AcquireShared(f)
  <2>1. PICK c \in Conns :
        /\ c = conn[f] /\ pc[f] = "result" /\ shared[f]
        /\ pc' = [pc EXCEPT ![f] = "using"]
        /\ refCount' = [refCount EXCEPT ![c] = @ + 1]
        /\ UNCHANGED <<conn, dialed>>
    BY <1>4 DEF AcquireShared, Goto, TakeRef, callVars
  <2>2. \A d \in Conns \ {c} :
            /\ drift'[d] = drift[d]
            /\ refCount'[d] = Cardinality(Holders(d)') + drift'[d]
    <3>1. \A g \in Forwards \ {f} :
              pc'[g] = pc[g] /\ conn'[g] = conn[g] /\ dialed'[g] = dialed[g]
      BY <2>1
    <3>2. \A d \in Conns \ {c} : conn'[f] # d /\ refCount'[d] = refCount[d]
      BY <2>1
    <3>3. conn[f] = c \/ (conn'[f] = c /\ ~dialed[f] /\ pc[f] = "dial")
      BY <2>1
    <3>4. QED
      BY <3>1, <3>2, <3>3, OthersKeep
  <2>3. CASE dialed[f]
    <3>1. Holders(c)' = Holders(c)
      BY <2>1, <2>3 DEF Holders, Holds
    <3>2. drift'[c] = drift[c] + 1 /\ drift[c] <= 0
      BY <2>1, <2>3 DEF RefNext, ExtraReference, ReleaseRefused, FreeRide
    <3>3. NotYetLeaked'
      <4>1. ASSUME NEW g \in Forwards, dialed'[g],
                   pc'[g] \in {"insert", "watch", "finish", "result"}
            PROVE  drift'[conn'[g]] <= 0
        <5>1. g # f /\ dialed[g] /\ pc[g] = pc'[g] /\ conn'[g] = conn[g]
          BY <2>1, <4>1
        <5>2. conn[g] # c /\ conn[g] \in Conns
          BY <2>1, <2>3, <5>1 DEF OneDialer
        <5>3. QED
          BY <2>2, <4>1, <5>1, <5>2
      <4>2. QED
        BY <4>1
    <3>4. /\ refCount'[c] = Cardinality(Holders(c)') + drift'[c]
          /\ drift'[c] <= 1 /\ drift'[c] \in Int
      BY <1>h, <2>1, <3>1, <3>2, HoldersFinite
    <3>5. QED
      BY <1>0, <2>1, <2>2, <3>3, <3>4, AccountKept
  <2>4. CASE ~dialed[f]
    <3>1. Holders(c)' = Holders(c) \cup {f} /\ f \notin Holders(c)
      BY <2>1, <2>4 DEF Holders, Holds
    <3>2. drift'[c] = drift[c]
      BY <2>1, <2>4 DEF RefNext, ExtraReference, ReleaseRefused, FreeRide
    <3>3. Cardinality(Holders(c)') = Cardinality(Holders(c)) + 1
      BY <3>1, HolderAdded
    <3>4. NotYetLeaked'
      BY <2>1, <2>2, <3>2
    <3>5. /\ refCount'[c] = Cardinality(Holders(c)') + drift'[c]
          /\ drift'[c] <= 1 /\ drift'[c] \in Int
      BY <1>h, <2>1, <3>2, <3>3, HoldersFinite DEF AtMostOneLeaked
    <3>6. QED
      BY <1>0, <2>1, <2>2, <3>4, <3>5, AccountKept
  <2>5. QED
    BY <2>3, <2>4
<1>5. CASE AcquireSharedFails(f)
  <2>1. PICK c \in Conns :
        /\ c = conn[f] /\ pc[f] = "result" /\ shared[f]
        /\ pc' = [pc EXCEPT ![f] = "out"]
        /\ conn' = [conn EXCEPT ![f] = NoConn]
        /\ dialed' = [dialed EXCEPT ![f] = FALSE]
        /\ refCount' = refCount
    BY <1>5 DEF AcquireSharedFails, Leave, Goto, connVars
  <2>2. \A d \in Conns \ {c} :
            /\ drift'[d] = drift[d]
            /\ refCount'[d] = Cardinality(Holders(d)') + drift'[d]
    <3>1. \A g \in Forwards \ {f} :
              pc'[g] = pc[g] /\ conn'[g] = conn[g] /\ dialed'[g] = dialed[g]
      BY <2>1
    <3>2. \A d \in Conns \ {c} : conn'[f] # d /\ refCount'[d] = refCount[d]
      BY <2>1
    <3>3. conn[f] = c \/ (conn'[f] = c /\ ~dialed[f] /\ pc[f] = "dial")
      BY <2>1
    <3>4. QED
      BY <3>1, <3>2, <3>3, OthersKeep
  <2>3. CASE dialed[f]
    <3>1. Holders(c)' = Holders(c) \ {f} /\ f \in Holders(c)
      BY <2>1, <2>3 DEF Holders, Holds
    <3>2. drift'[c] = drift[c] + 1 /\ drift[c] <= 0
      BY <2>1, <2>3 DEF RefNext, ExtraReference, ReleaseRefused, FreeRide
    <3>3. Cardinality(Holders(c)') = Cardinality(Holders(c)) - 1
      BY <3>1, HolderRemoved
    <3>4. NotYetLeaked'
      <4>1. ASSUME NEW g \in Forwards, dialed'[g],
                   pc'[g] \in {"insert", "watch", "finish", "result"}
            PROVE  drift'[conn'[g]] <= 0
        <5>1. g # f /\ dialed[g] /\ pc[g] = pc'[g] /\ conn'[g] = conn[g]
          BY <2>1, <4>1
        <5>2. conn[g] # c /\ conn[g] \in Conns
          BY <2>1, <2>3, <5>1 DEF OneDialer
        <5>3. QED
          BY <2>2, <4>1, <5>1, <5>2
      <4>2. QED
        BY <4>1
    <3>5. /\ refCount'[c] = Cardinality(Holders(c)') + drift'[c]
          /\ drift'[c] <= 1 /\ drift'[c] \in Int
      <4>1. refCount'[c] = refCount[c]
        BY <2>1
      <4>2. refCount[c] = Cardinality(Holders(c)) + drift[c]
        BY <1>h
      <4>3. Cardinality(Holders(c)) \in Nat /\ drift[c] \in Int
        BY HoldersFinite
      <4>4. QED
        BY <3>2, <3>3, <4>1, <4>2, <4>3
    <3>6. QED
      BY <1>0, <2>1, <2>2, <3>4, <3>5, AccountKept
  <2>4. CASE ~dialed[f]
    <3>1. Holders(c)' = Holders(c)
      BY <2>1, <2>4 DEF Holders, Holds
    <3>2. drift'[c] = drift[c]
      BY <2>1, <2>4 DEF RefNext, ExtraReference, ReleaseRefused, FreeRide
    <3>3. NotYetLeaked'
      BY <2>1, <2>2, <3>2
    <3>4. QED
      BY <1>0, <1>h, <2>1, <2>2, <3>1, <3>2, <3>3, AccountKept
         DEF AtMostOneLeaked
  <2>5. QED
    BY <2>3, <2>4
<1>6. CASE ReleaseRef(f)
  <2>1. PICK c \in Conns :
        /\ c = conn[f] /\ pc[f] = "using"
        /\ pc' = [pc EXCEPT ![f] = "released"]
        /\ refCount' = [refCount EXCEPT ![c] = @ - 1]
        /\ UNCHANGED <<conn, dialed>>
    BY <1>6 DEF ReleaseRef, Goto, callVars
  <2>2. \A d \in Conns \ {c} :
            /\ drift'[d] = drift[d]
            /\ refCount'[d] = Cardinality(Holders(d)') + drift'[d]
    <3>1. \A g \in Forwards \ {f} :
              pc'[g] = pc[g] /\ conn'[g] = conn[g] /\ dialed'[g] = dialed[g]
      BY <2>1
    <3>2. \A d \in Conns \ {c} : conn'[f] # d /\ refCount'[d] = refCount[d]
      BY <2>1
    <3>3. conn[f] = c \/ (conn'[f] = c /\ ~dialed[f] /\ pc[f] = "dial")
      BY <2>1
    <3>4. QED
      BY <3>1, <3>2, <3>3, OthersKeep
  <2>3. Holders(c)' = Holders(c) \ {f} /\ f \in Holders(c)
    BY <2>1 DEF Holders, Holds
  <2>4. drift'[c] = drift[c]
    BY <2>1 DEF RefNext, ExtraReference, ReleaseRefused, FreeRide
  <2>5. Cardinality(Holders(c)') = Cardinality(Holders(c)) - 1
    BY <2>3, HolderRemoved
  <2>6. NotYetLeaked'
    BY <2>1, <2>2, <2>4
  <2>7. refCount'[c] = Cardinality(Holders(c)') + drift'[c] /\ drift'[c] <= 1
    BY <1>h, <2>1, <2>4, <2>5, HoldersFinite DEF AtMostOneLeaked
  <2>8. QED
    BY <1>0, <2>1, <2>2, <2>4, <2>6, <2>7, AccountKept
<1>7. CASE ReleaseFails(f)
  <2>1. PICK c \in Conns :
        /\ c = conn[f] /\ pc[f] = "using" /\ refCount[c] = 0
        /\ pc' = [pc EXCEPT ![f] = "out"]
        /\ conn' = [conn EXCEPT ![f] = NoConn]
        /\ dialed' = [dialed EXCEPT ![f] = FALSE]
        /\ refCount' = refCount
    BY <1>7 DEF ReleaseFails, Leave, Goto, connVars
  <2>2. \A d \in Conns \ {c} :
            /\ drift'[d] = drift[d]
            /\ refCount'[d] = Cardinality(Holders(d)') + drift'[d]
    <3>1. \A g \in Forwards \ {f} :
              pc'[g] = pc[g] /\ conn'[g] = conn[g] /\ dialed'[g] = dialed[g]
      BY <2>1
    <3>2. \A d \in Conns \ {c} : conn'[f] # d /\ refCount'[d] = refCount[d]
      BY <2>1
    <3>3. conn[f] = c \/ (conn'[f] = c /\ ~dialed[f] /\ pc[f] = "dial")
      BY <2>1
    <3>4. QED
      BY <3>1, <3>2, <3>3, OthersKeep
  <2>3. Holders(c)' = Holders(c) \ {f} /\ f \in Holders(c)
    BY <2>1 DEF Holders, Holds
  <2>4. drift'[c] = drift[c] + 1
    BY <2>1 DEF RefNext, ExtraReference, ReleaseRefused, FreeRide
  <2>5. Cardinality(Holders(c)') = Cardinality(Holders(c)) - 1
    BY <2>3, HolderRemoved
  <2>6. Cardinality(Holders(c)) > 0
    BY <2>3, HolderRemoved
  <2>7. /\ refCount'[c] = Cardinality(Holders(c)') + drift'[c]
        /\ drift'[c] <= 0 /\ drift'[c] \in Int
    BY <1>h, <2>1, <2>4, <2>5, <2>6, HoldersFinite
  <2>8. NotYetLeaked'
    BY <2>1, <2>2, <2>7
  <2>9. QED
    BY <1>0, <2>1, <2>2, <2>7, <2>8, AccountKept
<1>8. QED
  BY <1>1, <1>2, <1>3, <1>4, <1>5, <1>6, <1>7 DEF Counts

LEMMA InitRef == RefInit => RefIInv
<1> SUFFICES ASSUME RefInit PROVE RefIInv
  OBVIOUS
<1>1. PoolIInv
  BY InitInv DEF RefInit
<1>2. ASSUME NEW c \in Conns
      PROVE  Holders(c) = {}
  BY DEF Holders, Holds, RefInit, Init
<1>3. RefCountAccounted
  <2>1. \A c \in Conns : Cardinality(Holders(c)) = 0
    BY <1>2, FS_EmptySet
  <2>2. QED
    BY <2>1 DEF RefCountAccounted, RefInit, Init
<1>4. DialedInHand /\ OneDialer /\ NotYetLeaked /\ UnbornUncounted
  BY DEF DialedInHand, OneDialer, NotYetLeaked, UnbornUncounted, RefInit, Init
<1>5. drift \in [Conns -> Int] /\ AtMostOneLeaked
  BY DEF AtMostOneLeaked, RefInit
<1>6. QED
  BY <1>1, <1>3, <1>4, <1>5 DEF RefIInv

LEMMA RefStep == RefIInv /\ RefNext => RefIInv'
<1> SUFFICES ASSUME RefIInv, RefNext PROVE RefIInv'
  OBVIOUS
<1>1. PoolIInv /\ Next
  BY DEF RefIInv, RefNext
<1>2. PoolIInv'
  BY <1>1, TypeStep, InvStep DEF PoolIInv
<1>3. DialedInHand' /\ OneDialer' /\ UnbornUncounted'
  BY <1>1, DialersStep
<1>4. /\ drift' \in [Conns -> Int]
      /\ RefCountAccounted' /\ AtMostOneLeaked' /\ NotYetLeaked'
  <2>1. CASE Quiet
    BY <2>1, QuietKeeps DEF RefIInv
  <2>2. CASE \E f \in Forwards : Counts(f)
    BY <1>3, <2>2, AccountStep
  <2>3. QED
    BY <1>1, <2>1, <2>2, QuietStep
<1>5. QED
  BY <1>2, <1>3, <1>4 DEF RefIInv

LEMMA RefStutter == RefIInv /\ UNCHANGED <<vars, drift>> => RefIInv'
<1> SUFFICES ASSUME RefIInv, UNCHANGED <<vars, drift>> PROVE RefIInv'
  OBVIOUS
<1>1. PoolIInv'
  BY StutterInv DEF RefIInv
<1>2. /\ refCount' = refCount /\ status' = status
      /\ pc' = pc /\ conn' = conn /\ dialed' = dialed /\ drift' = drift
  BY DEF vars, connVars, callVars
<1>3. ASSUME NEW c \in Conns
      PROVE  Holders(c)' = Holders(c)
  BY <1>2 DEF Holders, Holds
<1>4. RefCountAccounted'
  BY <1>2, <1>3 DEF RefIInv, RefCountAccounted
<1>5. /\ DialedInHand' /\ OneDialer' /\ NotYetLeaked' /\ UnbornUncounted'
      /\ drift' \in [Conns -> Int] /\ AtMostOneLeaked'
  BY <1>2 DEF RefIInv, DialedInHand, OneDialer, NotYetLeaked,
     UnbornUncounted, AtMostOneLeaked
<1>6. QED
  BY <1>1, <1>4, <1>5 DEF RefIInv

-----------------------------------------------------------------------------
(* The inductive invariant: that of the pool, and the account.             *)
THEOREM RefInvariant == RefSpec => []RefIInv
<1>1. RefIInv /\ [RefNext]_<<vars, drift>> => RefIInv'
  BY RefStep, RefStutter
<1>2. QED
  BY InitRef, <1>1, PTL DEF RefSpec

(* RefCount departs from the number of forwards that hold the connection   *)
(* only at the three places of Acquire and Release that ExtraReference,    *)
(* FreeRide and ReleaseRefused name, whatever the interleaving.            *)
THEOREM RefCountExact == RefSpec => []RefCountAccounted
<1>1. RefIInv => RefCountAccounted
  BY DEF RefIInv
<1>2. QED
  BY RefInvariant, <1>1, PTL

(* A connection leaks at most one reference in its life: only the forward  *)
(* that dialled it takes two, and it does so once (pool.go 247-252).       *)
THEOREM OneLeakAtMost == RefSpec => []AtMostOneLeaked
<1>1. RefIInv => AtMostOneLeaked
  BY DEF RefIInv
<1>2. QED
  BY RefInvariant, <1>1, PTL
=============================================================================
