------------------------ MODULE ForwardLifecycleProofs ------------------------
(***************************************************************************)
(* Theorems about the life of a forward, for any set of connections and    *)
(* either, both or none of the monitors.                                   *)
(*                                                                         *)
(* LifecycleIInv is inductive: InitInv and InvStep; the properties are read*)
(* off it.  RefInit and RefStep show that, with the invariant, every step  *)
(* of a forward is a step of ForwardInstance or none.                      *)
(***************************************************************************)
EXTENDS ForwardLifecycleInv, TLAPS

(* A forward that was just created satisfies the invariant.                *)
LEMMA InitInv == Init => LifecycleIInv
<1> SUFFICES ASSUME Init PROVE LifecycleIInv
  OBVIOUS
<1>1. TypeOK /\ PanicsOnNilOnly
  <2>1. refs \in [Kept \cup Monitors \cup Conns -> -2 .. 1]
    BY DEF Init
  <2>2. pc \in [Goroutines \cup {"start", "stop"} -> PCs]
    BY DEF Init, PCs
  <2>3. channel \in [Conns -> {"none", "open", "closed"}]
    BY DEF Init
  <2>4. QED
    BY <2>1, <2>2, <2>3 DEF Init, TypeOK, PanicsOnNilOnly
<1>2. Places /\ KeptByKind /\ Alone
  BY NamesAssumption DEF Init, Places, KeptByKind, Alone, Early, Listening,
     Spawned, Goroutines, Kept
<1>3. OneCleanup /\ TornDown /\ StatusHistory /\ StopWaited
  BY DEF Init, OneCleanup, TornDown, StatusHistory, StopWaited, Early, Spawned,
     Goroutines
<1>4. KeptCounted
  BY DEF Init, KeptCounted, Kept, Is, Goroutines
<1>5. ChannelsCounted
  BY DEF Init, ChannelsCounted, ChannelUse, ChannelCount, Closing, Is,
     Goroutines
<1>6. QED
  BY <1>1, <1>2, <1>3, <1>4, <1>5 DEF LifecycleIInv

(* A step that leaves a connection alone, and does not bring a cleanup     *)
(* back, leaves its channel as it was.                                     *)
LEMMA SameChannel ==
    ASSUME NEW d \in Conns, TypeOK, ChannelsCounted, kind' = kind,
           pc'[d] = pc[d], refs'[d] = refs[d], channel'[d] = channel[d],
           d \in registered' <=> d \in registered,
           d \in copying' <=> d \in copying,
           \A k \in Closers : <<d, k>> \in closing' <=> <<d, k>> \in closing,
           \/ pc'["cleanup"] = pc["cleanup"]
           \/ /\ pc["cleanup"] \in {"none", "wait"}
              /\ <<d, "cleanup">> \notin closing
    PROVE  ChannelUse(d)' /\ ChannelCount(d)'
<1>1. Closing(d)' <=> Closing(d)
  BY DEF Closing
<1>2. ChannelUse(d)'
  BY <1>1 DEF ChannelsCounted, ChannelUse, Closers
<1>3. CopierLeft(d)' = CopierLeft(d) /\ HandlerLeft(d)' = HandlerLeft(d)
  BY DEF CopierLeft, HandlerLeft, Closers
<1>4. CleanupLeft(d)' => CleanupLeft(d)
  BY DEF CleanupLeft, Closers
<1>5. refs[d] \in -2 .. 1
  BY DEF TypeOK
<1>6. ChannelCount(d)'
  BY <1>3, <1>4, <1>5 DEF ChannelsCounted, ChannelCount, Is
<1>7. QED
  BY <1>2, <1>6

(* A release by k counts as one of the three that may close the channel.   *)
LEMMA ReleaseCounts ==
    ASSUME NEW c \in Conns, NEW k \in Closers, ChannelCount(c),
           refs[c] \in -2 .. 1, channel[c] \in {"open", "closed"},
           refs'[c] = refs[c] - 1, channel'[c] = "closed",
           k = "copier" => /\ CopierLeft(c) /\ ~CopierLeft(c)'
                           /\ HandlerLeft(c)' = HandlerLeft(c)
                           /\ CleanupLeft(c)' = CleanupLeft(c),
           k = "handler" => /\ HandlerLeft(c) /\ ~HandlerLeft(c)'
                            /\ CopierLeft(c)' = CopierLeft(c)
                            /\ CleanupLeft(c)' = CleanupLeft(c),
           k = "cleanup" => /\ CleanupLeft(c) /\ ~CleanupLeft(c)'
                            /\ CopierLeft(c)' = CopierLeft(c)
                            /\ HandlerLeft(c)' = HandlerLeft(c)
    PROVE  refs[c] \in -1 .. 1 /\ ChannelCount(c)'
<1>1. k \in {"copier", "handler", "cleanup"}
  BY DEF Closers
<1>2. refs[c] \in -1 .. 1
  BY <1>1 DEF ChannelCount, Is
<1>3. refs'[c] <= 0
  BY <1>2
<1>4. refs'[c] >= Is(CopierLeft(c)') + Is(HandlerLeft(c)')
                    + Is(CleanupLeft(c)') - 2
  BY <1>1, <1>2 DEF ChannelCount, Is
<1>5. QED
  BY <1>2, <1>3, <1>4 DEF ChannelCount

(* Every step of every goroutine preserves the invariant.                  *)
LEMMA InvStep ==
    ASSUME LifecycleIInv, [Next]_vars
    PROVE  LifecycleIInv'
<1> USE NamesAssumption DEF LifecycleIInv, TypeOK, Places, KeptByKind, Alone,
        OneCleanup, TornDown, StatusHistory, StopWaited, KeptCounted,
        ChannelsCounted, ChannelUse, ChannelCount, PanicsOnNilOnly, Early,
        Listening, Spawned, Is, CopierLeft, HandlerLeft, CleanupLeft, Closing,
        Closers, Kept, Keeps, Goroutines, At, Goto, shared, connVars, PCs
<1>1. ASSUME Begin
      PROVE  LifecycleIInv'
  BY <1>1 DEF Begin
<1>2. ASSUME AcquireSource
      PROVE  LifecycleIInv'
  BY <1>2 DEF AcquireSource, Take
<1>3. ASSUME AcquireTarget
      PROVE  LifecycleIInv'
  BY <1>3 DEF AcquireTarget, Take
<1>4. ASSUME AcquireFails
      PROVE  LifecycleIInv'
  BY <1>4 DEF AcquireFails, DropAll
<1>5. ASSUME ListenSucceeds
      PROVE  LifecycleIInv'
  BY <1>5 DEF ListenSucceeds
<1>6. ASSUME ListenFails
      PROVE  LifecycleIInv'
  BY <1>6 DEF ListenFails, DropAll
<1>7. ASSUME ReportFailedStart
      PROVE  LifecycleIInv'
  BY <1>7 DEF ReportFailedStart
<1>8. ASSUME Refuse
      PROVE  LifecycleIInv'
  BY <1>8 DEF Refuse
<1>9. ASSUME SetRunning
      PROVE  LifecycleIInv'
  BY <1>9 DEF SetRunning
<1>10. ASSUME Spawn
       PROVE  LifecycleIInv'
  <2>1. \A d \in Conns : pc'[d] = pc[d]
    BY <1>10 DEF Spawn
  <2>2. pc["cleanup"] \in {"none", "wait"}
    BY <1>10 DEF Spawn
  <2>3. \A d \in Conns : <<d, "cleanup">> \notin closing
    BY <2>2
  <2>4. UNCHANGED <<kind, registered, channel, closing, copying, refs>>
    BY <1>10 DEF Spawn
  <2>5. pc' \in [Goroutines \cup {"start", "stop"} -> PCs]
    BY <1>10 DEF Spawn
  <2>6. TypeOK'
    BY <1>10, <2>5 DEF Spawn
  <2> HIDE DEF ChannelUse, ChannelCount
  <2>7. ChannelsCounted'
    BY <2>1, <2>2, <2>3, <2>4, SameChannel
  <2>8. PanicsOnNilOnly'
    BY <1>10 DEF Spawn
  <2>9. Places'
    BY <1>10 DEF Spawn
  <2>10. KeptByKind' /\ Alone'
    BY <1>10 DEF Spawn
  <2>11. OneCleanup' /\ TornDown'
    BY <1>10 DEF Spawn
  <2>12. StatusHistory' /\ StopWaited'
    BY <1>10 DEF Spawn
  <2>13. KeptCounted'
    BY <1>10 DEF Spawn
  <2>14. QED
    BY <2>6, <2>7, <2>8, <2>9, <2>10, <2>11, <2>12, <2>13
<1>11. ASSUME CheckStarted
       PROVE  LifecycleIInv'
  <2>1. \A d \in Conns : pc'[d] = pc[d]
    BY <1>11 DEF CheckStarted, CloseDone
  <2>2. pc'["cleanup"] = pc["cleanup"]
    BY <1>11 DEF CheckStarted, CloseDone
  <2>3. UNCHANGED <<kind, registered, channel, closing, copying, refs>>
    BY <1>11 DEF CheckStarted, CloseDone
  <2>4. pc' \in [Goroutines \cup {"start", "stop"} -> PCs]
    BY <1>11 DEF CheckStarted, CloseDone
  <2>5. panicked' \in BOOLEAN /\ once' \in {"unused", "busy", "used"}
        /\ done' \in BOOLEAN
    BY <1>11 DEF CheckStarted, CloseDone
  <2>6. TypeOK'
    BY <1>11, <2>3, <2>5, <2>4 DEF CheckStarted
  <2> HIDE DEF ChannelUse, ChannelCount
  <2>7. ChannelsCounted'
    BY <2>1, <2>2, <2>1, <2>3, SameChannel
  <2>8. PanicsOnNilOnly'
    BY <1>11 DEF CheckStarted, CloseDone
  <2>9. Places'
    BY <1>11 DEF CheckStarted, CloseDone
  <2>10. KeptByKind' /\ Alone'
    BY <1>11 DEF CheckStarted, CloseDone
  <2>11. OneCleanup' /\ TornDown'
    BY <1>11 DEF CheckStarted, CloseDone
  <2>12. StatusHistory' /\ StopWaited'
    BY <1>11 DEF CheckStarted, CloseDone
  <2>13. KeptCounted'
    BY <1>11 DEF CheckStarted, CloseDone
  <2>14. QED
    BY <2>6, <2>7, <2>8, <2>9, <2>10, <2>11, <2>12, <2>13
<1>12. ASSUME UndoRelease
       PROVE  LifecycleIInv'
  BY <1>12 DEF UndoRelease, DropAll
<1>13. ASSUME UndoListen
       PROVE  LifecycleIInv'
  BY <1>13 DEF UndoListen
<1>14. ASSUME ReportStart
       PROVE  LifecycleIInv'
  BY <1>14 DEF ReportStart
<1>15. ASSUME Report("start")
       PROVE  LifecycleIInv'
  BY <1>15 DEF Report, SetErrorStatus
<1>16. ASSUME StartWrites
       PROVE  LifecycleIInv'
  BY <1>16 DEF StartWrites
<1>17. ASSUME NEW g \in Monitors, MonitorQuits(g)
       PROVE  LifecycleIInv'
  BY <1>17 DEF MonitorQuits
<1>18. ASSUME NEW g \in Monitors, CheckNotRunning(g)
       PROVE  LifecycleIInv'
  BY <1>18 DEF CheckNotRunning, SetErrorStatus
<1>19. ASSUME NEW g \in Monitors, LlrCheck(g)
       PROVE  LifecycleIInv'
  BY <1>19 DEF LlrCheck, Take
<1>20. ASSUME NEW g \in Monitors, g = "health" /\ LlrNoConnection
       PROVE  LifecycleIInv'
  BY <1>20 DEF LlrNoConnection
<1>21. ASSUME NEW g \in Monitors, RemoteCheck(g)
       PROVE  LifecycleIInv'
  BY <1>21 DEF RemoteCheck
<1>22. ASSUME NEW g \in Monitors, LlrPasses(g)
       PROVE  LifecycleIInv'
  BY <1>22 DEF LlrPasses, Drop
<1>23. ASSUME NEW g \in Monitors, LlrFails(g)
       PROVE  LifecycleIInv'
  BY <1>23 DEF LlrFails, Drop, SetErrorStatus
<1>24. ASSUME NEW g \in Monitors, RemoteUse(g)
       PROVE  LifecycleIInv'
  BY <1>24 DEF RemoteUse
<1>25. ASSUME NEW g \in Monitors, RemoteNil(g)
       PROVE  LifecycleIInv'
  BY <1>25 DEF RemoteNil, Panic
<1>26. ASSUME NEW g \in Monitors, RemotePasses(g)
       PROVE  LifecycleIInv'
  BY <1>26 DEF RemotePasses
<1>27. ASSUME NEW g \in Monitors, RemoteFails(g)
       PROVE  LifecycleIInv'
  BY <1>27 DEF RemoteFails, SetErrorStatus
<1>28. ASSUME NEW g \in Monitors, Report(g)
       PROVE  LifecycleIInv'
  BY <1>28 DEF Report, SetErrorStatus
<1>29. ASSUME NEW g \in Monitors, MonitorCancels(g)
       PROVE  LifecycleIInv'
  BY <1>29 DEF MonitorCancels
<1>30. ASSUME AcceptStops
       PROVE  LifecycleIInv'
  BY <1>30 DEF AcceptStops
<1>31. ASSUME AcceptFails
       PROVE  LifecycleIInv'
  BY <1>31 DEF AcceptFails
<1>32. ASSUME AcceptVerdict
       PROVE  LifecycleIInv'
  BY <1>32 DEF AcceptVerdict
<1>33. ASSUME Report("accept")
       PROVE  LifecycleIInv'
  BY <1>33 DEF Report, SetErrorStatus
<1>34. ASSUME WritesAndEnds("accept")
       PROVE  LifecycleIInv'
  BY <1>34 DEF WritesAndEnds
<1>35. ASSUME NEW c \in Conns, AcceptConn(c)
       PROVE  LifecycleIInv'
  BY <1>35 DEF AcceptConn
<1>36. ASSUME NEW c \in Conns, PeerCloses(c)
       PROVE  LifecycleIInv'
  BY <1>36 DEF PeerCloses
<1>37. ASSUME NEW c \in Conns, AcquireForChannel(c)
       PROVE  LifecycleIInv'
  <2>1. channel[c] = "none" /\ refs[c] = 0
    BY <1>37 DEF AcquireForChannel, Take
  <2>2. \A d \in Conns \ {c} :
        pc'[d] = pc[d] /\ refs'[d] = refs[d] /\ channel'[d] = channel[d]
    BY <1>37 DEF AcquireForChannel, Take
  <2>3. UNCHANGED <<registered, copying, closing>>
    BY <1>37 DEF AcquireForChannel, Take
  <2>4. pc'["cleanup"] = pc["cleanup"] /\ kind' = kind
    BY <1>37 DEF AcquireForChannel, Take
  <2>5. pc' \in [Goroutines \cup {"start", "stop"} -> PCs]
    BY <1>37 DEF AcquireForChannel, Take
  <2>6. refs' \in [Kept \cup Monitors \cup Conns -> -2 .. 1]
    BY <1>37, <2>1 DEF AcquireForChannel, Take
  <2>7. TypeOK'
    BY <1>37, <2>5, <2>6 DEF AcquireForChannel, Take
  <2>8. ChannelUse(c)'
    BY <1>37, <2>1, <2>4 DEF AcquireForChannel, Take
  <2>9. ChannelCount(c)'
    BY <1>37, <2>1, <2>4 DEF AcquireForChannel, Take
  <2> HIDE DEF ChannelUse, ChannelCount
  <2>10. \A d \in Conns \ {c} : ChannelUse(d)' /\ ChannelCount(d)'
    BY <2>2, <2>3, <2>4, SameChannel
  <2>11. ChannelsCounted'
    BY <2>8, <2>9, <2>10
  <2>12. PanicsOnNilOnly'
    BY <1>37 DEF AcquireForChannel, Take
  <2>13. Places'
    BY <1>37 DEF AcquireForChannel, Take
  <2>14. KeptByKind' /\ Alone'
    BY <1>37 DEF AcquireForChannel, Take
  <2>15. OneCleanup' /\ TornDown'
    BY <1>37 DEF AcquireForChannel, Take
  <2>16. StatusHistory' /\ StopWaited'
    BY <1>37 DEF AcquireForChannel, Take
  <2>17. KeptCounted'
    BY <1>37 DEF AcquireForChannel, Take
  <2>18. QED
    BY <2>7, <2>11, <2>12, <2>13, <2>14, <2>15, <2>16, <2>17
<1>38. ASSUME NEW c \in Conns, NoConnection(c)
       PROVE  LifecycleIInv'
  BY <1>38 DEF NoConnection
<1>39. ASSUME NEW c \in Conns, OpenChannel(c)
       PROVE  LifecycleIInv'
  <2>1. channel[c] = "none" /\ refs[c] = 1 /\ kind = "llr" /\ ~Closing(c)
        /\ c \notin copying /\ c \notin registered
    BY <1>39 DEF OpenChannel
  <2>2. \A d \in Conns \ {c} :
        pc'[d] = pc[d] /\ refs'[d] = refs[d] /\ channel'[d] = channel[d]
    BY <1>39 DEF OpenChannel
  <2>3. UNCHANGED <<registered, copying, closing>>
    BY <1>39 DEF OpenChannel
  <2>4. pc'["cleanup"] = pc["cleanup"] /\ kind' = kind
    BY <1>39 DEF OpenChannel
  <2>5. pc' \in [Goroutines \cup {"start", "stop"} -> PCs]
    BY <1>39 DEF OpenChannel
  <2>6. refs' \in [Kept \cup Monitors \cup Conns -> -2 .. 1]
    BY <1>39, <2>1 DEF OpenChannel
  <2>7. TypeOK'
    BY <1>39, <2>5, <2>6 DEF OpenChannel
  <2>8. ChannelUse(c)'
    BY <1>39, <2>1, <2>4 DEF OpenChannel
  <2>9. ChannelCount(c)'
    BY <1>39, <2>1, <2>4 DEF OpenChannel
  <2> HIDE DEF ChannelUse, ChannelCount
  <2>10. \A d \in Conns \ {c} : ChannelUse(d)' /\ ChannelCount(d)'
    BY <2>2, <2>3, <2>4, SameChannel
  <2>11. ChannelsCounted'
    BY <2>8, <2>9, <2>10
  <2>12. PanicsOnNilOnly'
    BY <1>39 DEF OpenChannel
  <2>13. Places'
    BY <1>39 DEF OpenChannel
  <2>14. KeptByKind' /\ Alone'
    BY <1>39 DEF OpenChannel
  <2>15. OneCleanup' /\ TornDown'
    BY <1>39 DEF OpenChannel
  <2>16. StatusHistory' /\ StopWaited'
    BY <1>39 DEF OpenChannel
  <2>17. KeptCounted'
    BY <1>39 DEF OpenChannel
  <2>18. QED
    BY <2>7, <2>11, <2>12, <2>13, <2>14, <2>15, <2>16, <2>17
<1>40. ASSUME NEW c \in Conns, OpenChannelFails(c)
       PROVE  LifecycleIInv'
  <2>1. channel[c] = "none" /\ refs[c] = 1
    BY <1>40 DEF OpenChannelFails, Drop
  <2>2. \A d \in Conns \ {c} :
        pc'[d] = pc[d] /\ refs'[d] = refs[d] /\ channel'[d] = channel[d]
    BY <1>40 DEF OpenChannelFails, Drop
  <2>3. UNCHANGED <<registered, copying, closing>>
    BY <1>40 DEF OpenChannelFails, Drop
  <2>4. pc'["cleanup"] = pc["cleanup"] /\ kind' = kind
    BY <1>40 DEF OpenChannelFails, Drop
  <2>5. pc' \in [Goroutines \cup {"start", "stop"} -> PCs]
    BY <1>40 DEF OpenChannelFails, Drop
  <2>6. refs' \in [Kept \cup Monitors \cup Conns -> -2 .. 1]
    BY <1>40, <2>1 DEF OpenChannelFails, Drop
  <2>7. TypeOK'
    BY <1>40, <2>5, <2>6 DEF OpenChannelFails, Drop
  <2>8. ChannelUse(c)'
    BY <1>40, <2>1, <2>4 DEF OpenChannelFails, Drop
  <2>9. ChannelCount(c)'
    BY <1>40, <2>1, <2>4 DEF OpenChannelFails, Drop
  <2> HIDE DEF ChannelUse, ChannelCount
  <2>10. \A d \in Conns \ {c} : ChannelUse(d)' /\ ChannelCount(d)'
    BY <2>2, <2>3, <2>4, SameChannel
  <2>11. ChannelsCounted'
    BY <2>8, <2>9, <2>10
  <2>12. PanicsOnNilOnly'
    BY <1>40 DEF OpenChannelFails, Drop
  <2>13. Places'
    BY <1>40 DEF OpenChannelFails, Drop
  <2>14. KeptByKind' /\ Alone'
    BY <1>40 DEF OpenChannelFails, Drop
  <2>15. OneCleanup' /\ TornDown'
    BY <1>40 DEF OpenChannelFails, Drop
  <2>16. StatusHistory' /\ StopWaited'
    BY <1>40 DEF OpenChannelFails, Drop
  <2>17. KeptCounted'
    BY <1>40 DEF OpenChannelFails, Drop
  <2>18. QED
    BY <2>7, <2>11, <2>12, <2>13, <2>14, <2>15, <2>16, <2>17
<1>41. ASSUME NEW c \in Conns, DialLocal(c)
       PROVE  LifecycleIInv'
  <2>1. channel[c] = "none" /\ refs[c] = 0 /\ ~Closing(c) /\ c \notin copying
    BY <1>41 DEF DialLocal
  <2>2. \A d \in Conns \ {c} :
        pc'[d] = pc[d] /\ refs'[d] = refs[d] /\ channel'[d] = channel[d]
    BY <1>41 DEF DialLocal
  <2>3. UNCHANGED <<registered, copying, closing>>
    BY <1>41 DEF DialLocal
  <2>4. pc'["cleanup"] = pc["cleanup"] /\ kind' = kind
    BY <1>41 DEF DialLocal
  <2>5. pc' \in [Goroutines \cup {"start", "stop"} -> PCs]
    BY <1>41 DEF DialLocal
  <2>6. refs' \in [Kept \cup Monitors \cup Conns -> -2 .. 1]
    BY <1>41, <2>1 DEF DialLocal
  <2>7. TypeOK'
    BY <1>41, <2>5, <2>6 DEF DialLocal
  <2>8. ChannelUse(c)'
    BY <1>41, <2>1, <2>4 DEF DialLocal
  <2>9. ChannelCount(c)'
    BY <1>41, <2>1, <2>4 DEF DialLocal
  <2> HIDE DEF ChannelUse, ChannelCount
  <2>10. \A d \in Conns \ {c} : ChannelUse(d)' /\ ChannelCount(d)'
    BY <2>2, <2>3, <2>4, SameChannel
  <2>11. ChannelsCounted'
    BY <2>8, <2>9, <2>10
  <2>12. PanicsOnNilOnly'
    BY <1>41 DEF DialLocal
  <2>13. Places'
    BY <1>41 DEF DialLocal
  <2>14. KeptByKind' /\ Alone'
    BY <1>41 DEF DialLocal
  <2>15. OneCleanup' /\ TornDown'
    BY <1>41 DEF DialLocal
  <2>16. StatusHistory' /\ StopWaited'
    BY <1>41 DEF DialLocal
  <2>17. KeptCounted'
    BY <1>41 DEF DialLocal
  <2>18. QED
    BY <2>7, <2>11, <2>12, <2>13, <2>14, <2>15, <2>16, <2>17
<1>42. ASSUME NEW c \in Conns, DialTarget(c)
       PROVE  LifecycleIInv'
  <2>1. CASE "target" \in pooled
    <3>1. channel[c] = "none" /\ refs[c] = 0 /\ ~Closing(c) /\ c \notin copying
      BY <1>42, <2>1 DEF DialTarget, Panic
    <3>2. \A d \in Conns \ {c} :
          pc'[d] = pc[d] /\ refs'[d] = refs[d] /\ channel'[d] = channel[d]
      BY <1>42, <2>1 DEF DialTarget, Panic
    <3>3. UNCHANGED <<registered, copying, closing>>
      BY <1>42, <2>1 DEF DialTarget, Panic
    <3>4. pc'["cleanup"] = pc["cleanup"] /\ kind' = kind
      BY <1>42, <2>1 DEF DialTarget, Panic
    <3>5. pc' \in [Goroutines \cup {"start", "stop"} -> PCs]
      BY <1>42, <2>1 DEF DialTarget, Panic
    <3>6. refs' \in [Kept \cup Monitors \cup Conns -> -2 .. 1]
      BY <1>42, <2>1, <3>1 DEF DialTarget, Panic
    <3>7. TypeOK'
      BY <1>42, <2>1, <3>5, <3>6 DEF DialTarget, Panic
    <3>8. ChannelUse(c)'
      BY <1>42, <2>1, <3>1, <3>4 DEF DialTarget, Panic
    <3>9. ChannelCount(c)'
      BY <1>42, <2>1, <3>1, <3>4 DEF DialTarget, Panic
    <3> HIDE DEF ChannelUse, ChannelCount
    <3>10. \A d \in Conns \ {c} : ChannelUse(d)' /\ ChannelCount(d)'
      BY <3>2, <3>3, <3>4, SameChannel
    <3>11. ChannelsCounted'
      BY <3>8, <3>9, <3>10
    <3>12. PanicsOnNilOnly'
      BY <1>42, <2>1 DEF DialTarget, Panic
    <3>13. Places'
      BY <1>42, <2>1 DEF DialTarget, Panic
    <3>14. KeptByKind' /\ Alone'
      BY <1>42, <2>1 DEF DialTarget, Panic
    <3>15. OneCleanup' /\ TornDown'
      BY <1>42, <2>1 DEF DialTarget, Panic
    <3>16. StatusHistory' /\ StopWaited'
      BY <1>42, <2>1 DEF DialTarget, Panic
    <3>17. KeptCounted'
      BY <1>42, <2>1 DEF DialTarget, Panic
    <3>18. QED
      BY <3>7, <3>11, <3>12, <3>13, <3>14, <3>15, <3>16, <3>17
  <2>2. CASE "target" \notin pooled
    <3>1. /\ panicked' = TRUE /\ kind = "rlr" /\ pc[c] # "none"
          /\ UNCHANGED <<kind, status, pc, cancelled, once, done, listener,
                         pooled, connVars, refs>>
      BY <1>42, <2>2 DEF DialTarget, Panic
    <3>2. once # "unused" /\ pooled # Keeps
      BY <2>2, <3>1
    <3>3. QED
      BY <3>1, <3>2
  <2>3. QED
    BY <2>1, <2>2
<1>43. ASSUME NEW c \in Conns, Register(c)
       PROVE  LifecycleIInv'
  BY <1>43 DEF Register, ConnMuFree
<1>44. ASSUME NEW c \in Conns, LeaveCopy(c)
       PROVE  LifecycleIInv'
  BY <1>44 DEF LeaveCopy, FindsOpen, FindsClosed
<1>45. ASSUME NEW c \in Conns, Unregister(c)
       PROVE  LifecycleIInv'
  BY <1>45 DEF Unregister, ConnMuFree
<1>46. ASSUME NEW c \in Conns, Report(c)
       PROVE  LifecycleIInv'
  BY <1>46 DEF Report, SetErrorStatus
<1>47. ASSUME NEW c \in Conns, WritesAndEnds(c)
       PROVE  LifecycleIInv'
  BY <1>47 DEF WritesAndEnds
<1>48. ASSUME NEW c \in Conns, CopierEnds(c)
       PROVE  LifecycleIInv'
  BY <1>48 DEF CopierEnds, FindsOpen, FindsClosed
<1>49. ASSUME NEW c \in Conns, NEW k \in Closers, ReleaseChannel(c, k)
       PROVE  LifecycleIInv'
  <2>1. channel[c] # "none" /\ pc[c] # "register"
    BY <1>49 DEF ReleaseChannel
  <2>3. refs[c] \in -2 .. 1 /\ channel[c] \in {"open", "closed"}
    BY <2>1
  <2>8. \A d \in Conns \ {c} :
          pc'[d] = pc[d] /\ refs'[d] = refs[d] /\ channel'[d] = channel[d]
    BY <1>49 DEF ReleaseChannel, Drop
  <2>9. \A d \in Conns, l \in Closers : d # c \/ l # k =>
          (<<d, l>> \in closing' <=> <<d, l>> \in closing)
    BY <1>49 DEF ReleaseChannel
  <2>10. /\ UNCHANGED <<kind, registered, copying>>
         /\ pc'["cleanup"] = pc["cleanup"]
         /\ refs'[c] = refs[c] - 1
         /\ channel'[c] = "closed"
         /\ <<c, k>> \in closing /\ <<c, k>> \notin closing'
    BY <1>49 DEF ReleaseChannel, Drop
  <2>4. k = "handler" => pc[c] = "leave"
    BY <2>10
  <2>11. /\ k = "handler" => pc[c] = "leave" /\ pc'[c] = "unregister"
         /\ k # "handler" => pc'[c] = pc[c]
    <3>1. k = "handler" => pc'[c] = "unregister"
      BY <1>49 DEF ReleaseChannel
    <3>2. k # "handler" => pc'[c] = pc[c]
      BY <1>49 DEF ReleaseChannel
    <3>3. QED
      BY <2>4, <3>1, <3>2
  <2>12. ChannelUse(c)'
    BY <2>1, <2>9, <2>10, <2>11
  <2>13. k = "copier" => /\ CopierLeft(c) /\ ~CopierLeft(c)'
                         /\ HandlerLeft(c)' = HandlerLeft(c)
                         /\ CleanupLeft(c)' = CleanupLeft(c)
    BY <2>1, <2>9, <2>10, <2>11
  <2>14. k = "handler" => /\ HandlerLeft(c) /\ ~HandlerLeft(c)'
                          /\ CopierLeft(c)' = CopierLeft(c)
                          /\ CleanupLeft(c)' = CleanupLeft(c)
    BY <2>1, <2>9, <2>10, <2>11
  <2>15. k = "cleanup" => /\ CleanupLeft(c) /\ ~CleanupLeft(c)'
                          /\ CopierLeft(c)' = CopierLeft(c)
                          /\ HandlerLeft(c)' = HandlerLeft(c)
    BY <2>1, <2>9, <2>10, <2>11
  <2>16. refs[c] \in -1 .. 1 /\ ChannelCount(c)'
    <3> HIDE DEF CopierLeft, HandlerLeft, CleanupLeft, ChannelCount, ChannelUse
    <3>1. ChannelCount(c)
      OBVIOUS
    <3>2. QED
      BY <3>1, <2>3, <2>10, <2>13, <2>14, <2>15, ReleaseCounts
  <2>5. refs' \in [Kept \cup Monitors \cup Conns -> -2 .. 1]
    BY <1>49, <2>16 DEF ReleaseChannel, Drop
  <2>6. pc' \in [Goroutines \cup {"start", "stop"} -> PCs]
    BY <1>49 DEF ReleaseChannel
  <2>7. TypeOK'
    BY <1>49, <2>5, <2>6, ZenonT(40) DEF ReleaseChannel
  <2> HIDE DEF ChannelUse, ChannelCount
  <2>17. \A d \in Conns \ {c} : ChannelUse(d)' /\ ChannelCount(d)'
    BY <2>8, <2>9, <2>10, SameChannel, ZenonT(40)
  <2>18. ChannelsCounted'
    BY <2>12, <2>16, <2>17
  <2>19. Places' /\ KeptByKind'
    BY <1>49, <2>11 DEF ReleaseChannel
  <2>20. Alone'
    BY <1>49, <2>11 DEF ReleaseChannel
  <2>21. OneCleanup' /\ TornDown' /\ PanicsOnNilOnly'
    BY <1>49, <2>11 DEF ReleaseChannel
  <2>22. StatusHistory'
    BY <1>49, <2>11 DEF ReleaseChannel
  <2>23. StopWaited'
    BY <1>49, <2>11 DEF ReleaseChannel
  <2>24. KeptCounted'
    BY <1>49, <2>11 DEF ReleaseChannel, Drop
  <2>25. QED
    BY <2>7, <2>18, <2>19, <2>20, <2>21, <2>22, <2>23, <2>24
<1>50. ASSUME CleanupBegins
       PROVE  LifecycleIInv'
  <2>1. \A d \in Conns : pc'[d] = pc[d]
    BY <1>50 DEF CleanupBegins, CloseDone
  <2>2. pc["cleanup"] \in {"none", "wait"}
    BY <1>50 DEF CleanupBegins, CloseDone
  <2>3. \A d \in Conns : <<d, "cleanup">> \notin closing
    BY <2>2
  <2>4. UNCHANGED <<kind, registered, channel, closing, copying, refs>>
    BY <1>50 DEF CleanupBegins, CloseDone
  <2>5. pc' \in [Goroutines \cup {"start", "stop"} -> PCs]
    BY <1>50 DEF CleanupBegins, CloseDone
  <2>6. panicked' \in BOOLEAN /\ once' \in {"unused", "busy", "used"}
        /\ done' \in BOOLEAN
    BY <1>50 DEF CleanupBegins, CloseDone
  <2>7. TypeOK'
    BY <1>50, <2>4, <2>6, <2>5 DEF CleanupBegins
  <2> HIDE DEF ChannelUse, ChannelCount
  <2>8. ChannelsCounted'
    BY <2>1, <2>2, <2>3, <2>4, SameChannel
  <2>9. PanicsOnNilOnly'
    BY <1>50 DEF CleanupBegins, CloseDone
  <2>10. Places'
    BY <1>50 DEF CleanupBegins, CloseDone
  <2>11. KeptByKind' /\ Alone'
    BY <1>50 DEF CleanupBegins, CloseDone
  <2>12. OneCleanup' /\ TornDown'
    BY <1>50 DEF CleanupBegins, CloseDone
  <2>13. StatusHistory' /\ StopWaited'
    BY <1>50 DEF CleanupBegins, CloseDone
  <2>14. KeptCounted'
    BY <1>50 DEF CleanupBegins, CloseDone
  <2>15. QED
    BY <2>7, <2>8, <2>9, <2>10, <2>11, <2>12, <2>13, <2>14
<1>51. ASSUME CloseListener
       PROVE  LifecycleIInv'
  BY <1>51 DEF CloseListener
<1>52. ASSUME CloseConns
       PROVE  LifecycleIInv'
  BY <1>52 DEF CloseConns, FindsClosed
<1>53. ASSUME ReleaseKept
       PROVE  LifecycleIInv'
  BY <1>53 DEF ReleaseKept, DropAll, ConnMuFree
<1>54. ASSUME StopWrapper
       PROVE  LifecycleIInv'
  BY <1>54 DEF StopWrapper
<1>55. ASSUME SetStopped
       PROVE  LifecycleIInv'
  BY <1>55 DEF SetStopped
<1>56. ASSUME StopReturns
       PROVE  LifecycleIInv'
  BY <1>56 DEF StopReturns
<1>57. ASSUME UNCHANGED vars
       PROVE  LifecycleIInv'
  BY <1>57 DEF vars
<1> HIDE DEF LifecycleIInv, At, Goto, Closing
<1>58. QED
  BY <1>1, <1>2, <1>3, <1>4, <1>5, <1>6, <1>7, <1>8, <1>9, <1>10, <1>11, <1>12,
     <1>13, <1>14, <1>15, <1>16, <1>17, <1>18, <1>19, <1>20, <1>21, <1>22,
     <1>23, <1>24, <1>25, <1>26, <1>27, <1>28, <1>29, <1>30, <1>31, <1>32,
     <1>33, <1>34, <1>35, <1>36, <1>37, <1>38, <1>39, <1>40, <1>41, <1>42,
     <1>43, <1>44, <1>45, <1>46, <1>47, <1>48, <1>49, <1>50, <1>51, <1>52,
     <1>53, <1>54, <1>55, <1>56, <1>57 DEF Next, Start, Check, Observe,
     AcceptEnds, Handle, Copier, Cleanup, Stop, Terminated

(* The invariant holds in every reachable state.                           *)
THEOREM LifecycleInvariant == Spec => []LifecycleIInv
BY InitInv, InvStep, PTL DEF Spec

(* Every variable keeps to its type; in particular no interleaving of the  *)
(* three that may close a channel releases its connection more than three  *)
(* times, and no check of a monitor keeps the connection it acquired.      *)
THEOREM TypeCorrectness == Spec => []TypeOK
BY LifecycleInvariant, PTL DEF LifecycleIInv

(* A forward that says it is running, and was not told to end, accepts     *)
(* connections, whatever fails in it and when.                             *)
THEOREM RunningForwardAccepts == Spec => []RunningAccepts
<1>1. LifecycleIInv => RunningAccepts
  BY DEF LifecycleIInv, Alone, TornDown, StatusHistory, RunningAccepts, Spawned,
     Early, At
<1>2. QED
  BY <1>1, LifecycleInvariant, PTL

(* The connections a forward keeps are released once: cleanupOnce, the     *)
(* error paths of Start and the fields set to nil fit together.            *)
THEOREM KeptConnectionsReleasedOnce == Spec => []KeptReleasedOnce
<1>1. LifecycleIInv => KeptReleasedOnce
  BY DEF LifecycleIInv, KeptCounted, KeptReleasedOnce, Kept, Is
<1>2. QED
  BY <1>1, LifecycleInvariant, PTL

(* The only panic is the use of a kept connection that a cleanup has set   *)
(* to nil.                                                                 *)
THEOREM PanicsOnlyOnNil == Spec => []PanicsOnNilOnly
BY LifecycleInvariant, PTL DEF LifecycleIInv

(* When Stop has returned, nothing is listening, registered or held, but   *)
(* for a channel that a copier is about to release.                        *)
THEOREM StoppedForwardHoldsNothing == Spec => []StoppedHoldsNothing
<1>1. LifecycleIInv => StoppedHoldsNothing
  <2> SUFFICES ASSUME LifecycleIInv, At("stop", "returned")
               PROVE  /\ listener # "open" /\ registered = {}
                      /\ \A h \in Kept \cup Monitors : refs[h] = 0
                      /\ \A c \in Conns : refs[c] > 0 => <<c, "copier">> \in closing
    BY DEF StoppedHoldsNothing
  <2>1. \A g \in Goroutines : pc[g] \in {"none", "exit"}
    BY DEF LifecycleIInv, StopWaited, At
  <2>2. listener # "open" /\ pooled = {} /\ pc["start"] \in {"refused", "returned"}
    BY <2>1 DEF LifecycleIInv, Alone, OneCleanup, TornDown, At, Early, Spawned,
       Goroutines
  <2>3. registered = {}
    BY <2>1 DEF LifecycleIInv, TypeOK, ChannelsCounted, ChannelUse, Goroutines
  <2>4. \A h \in Kept \cup Monitors : refs[h] = 0
    BY <2>1, <2>2 DEF LifecycleIInv, KeptCounted, Kept, Goroutines, Is
  <2>5. ASSUME NEW c \in Conns, refs[c] > 0
        PROVE  <<c, "copier">> \in closing
    <3>1. pc[c] \in {"none", "exit"} /\ pc["cleanup"] # "release"
      BY <2>1 DEF Goroutines
    <3>2. channel[c] = "open"
      BY <2>5, <3>1 DEF LifecycleIInv, TypeOK, ChannelsCounted, ChannelCount, Is
    <3>3. QED
      BY <3>1, <3>2 DEF LifecycleIInv, ChannelsCounted, ChannelUse, Closing,
         Closers
  <2>6. QED
    BY <2>2, <2>3, <2>4, <2>5
<1>2. QED
  BY <1>1, LifecycleInvariant, PTL

-----------------------------------------------------------------------------
(* A new forward is one that is not bound, for the service.                *)
LEMMA RefInit == Init => Contract!Init
BY DEF Init, Contract!Init, Health, Bound, Reporting, Stopping, Ran

(* Every step of a forward is one its contract allows, or invisible.       *)
LEMMA RefStep ==
    ASSUME LifecycleIInv, LifecycleIInv', [Next]_vars
    PROVE  [Contract!Next]_(Contract!vars)
<1> USE NamesAssumption DEF LifecycleIInv, TypeOK, Places, KeptByKind, Alone,
        OneCleanup, TornDown, StatusHistory, StopWaited, Early, Listening,
        Spawned, Kept, Keeps, Goroutines, At, Goto, shared, connVars, PCs,
        Ran, Alive, Health, Bound, Reporting, Stopping, Contract!vars,
        Contract!Next, Contract!Starts, Contract!Fails, Contract!Releases,
        Contract!Release, Contract!WriteError, Contract!StopCalled,
        Contract!SetStopped, Contract!StopReturns, Contract!ProcessEnds
<1>1. ASSUME Begin
      PROVE  [Contract!Next]_(Contract!vars)
  BY <1>1 DEF Begin
<1>2. ASSUME AcquireSource
      PROVE  [Contract!Next]_(Contract!vars)
  BY <1>2 DEF AcquireSource, Take
<1>3. ASSUME AcquireTarget
      PROVE  [Contract!Next]_(Contract!vars)
  BY <1>3 DEF AcquireTarget, Take
<1>4. ASSUME AcquireFails
      PROVE  [Contract!Next]_(Contract!vars)
  BY <1>4 DEF AcquireFails, DropAll
<1>5. ASSUME ListenSucceeds
      PROVE  [Contract!Next]_(Contract!vars)
  BY <1>5 DEF ListenSucceeds
<1>6. ASSUME ListenFails
      PROVE  [Contract!Next]_(Contract!vars)
  BY <1>6 DEF ListenFails, DropAll
<1>7. ASSUME ReportFailedStart
      PROVE  [Contract!Next]_(Contract!vars)
  BY <1>7 DEF ReportFailedStart
<1>8. ASSUME Refuse
      PROVE  [Contract!Next]_(Contract!vars)
  BY <1>8 DEF Refuse
<1>9. ASSUME SetRunning
      PROVE  [Contract!Next]_(Contract!vars)
  BY <1>9 DEF SetRunning
<1>10. ASSUME Spawn
       PROVE  [Contract!Next]_(Contract!vars)
  <2>1. pc["start"] = "spawn" /\ pc'["start"] = "check" /\ pc'["stop"] = pc["stop"]
    BY <1>10 DEF Spawn
  <2>2. \A g \in Goroutines : pc[g] = "none" /\ pc'[g] # "write"
    BY <1>10 DEF Spawn
  <2>3. UNCHANGED <<status, listener, panicked>>
    BY <1>10 DEF Spawn
  <2>4. QED
    BY <2>1, <2>2, <2>3
<1>11. ASSUME CheckStarted, ~panicked
       PROVE  [Contract!Next]_(Contract!vars)
  <2>1. pc["start"] = "check" /\ pc'["start"] \in {"report", "undo"}
    BY <1>11 DEF CheckStarted
  <2>2. \A g \in Goroutines : pc'[g] = pc[g]
    BY <1>11 DEF CheckStarted
  <2>3. ~panicked' /\ UNCHANGED <<status, listener>> /\ pc'["stop"] = pc["stop"]
    BY <1>11 DEF CheckStarted, CloseDone
  <2>4. QED
    BY <1>11, <2>1, <2>2, <2>3
<1>12. ASSUME UndoRelease
       PROVE  [Contract!Next]_(Contract!vars)
  BY <1>12 DEF UndoRelease, DropAll
<1>13. ASSUME UndoListen
       PROVE  [Contract!Next]_(Contract!vars)
  BY <1>13 DEF UndoListen
<1>14. ASSUME ReportStart
       PROVE  [Contract!Next]_(Contract!vars)
  BY <1>14 DEF ReportStart
<1>15. ASSUME Report("start")
       PROVE  [Contract!Next]_(Contract!vars)
  BY <1>15 DEF Report, SetErrorStatus
<1>16. ASSUME StartWrites
       PROVE  [Contract!Next]_(Contract!vars)
  BY <1>16 DEF StartWrites
<1>17. ASSUME NEW g \in Monitors, MonitorQuits(g)
       PROVE  [Contract!Next]_(Contract!vars)
  BY <1>17 DEF MonitorQuits
<1>18. ASSUME NEW g \in Monitors, CheckNotRunning(g)
       PROVE  [Contract!Next]_(Contract!vars)
  BY <1>18 DEF CheckNotRunning, SetErrorStatus
<1>19. ASSUME NEW g \in Monitors, LlrCheck(g)
       PROVE  [Contract!Next]_(Contract!vars)
  BY <1>19 DEF LlrCheck, Take
<1>20. ASSUME NEW g \in Monitors, g = "health" /\ LlrNoConnection
       PROVE  [Contract!Next]_(Contract!vars)
  BY <1>20 DEF LlrNoConnection
<1>21. ASSUME NEW g \in Monitors, RemoteCheck(g)
       PROVE  [Contract!Next]_(Contract!vars)
  BY <1>21 DEF RemoteCheck
<1>22. ASSUME NEW g \in Monitors, LlrPasses(g)
       PROVE  [Contract!Next]_(Contract!vars)
  BY <1>22 DEF LlrPasses, Drop
<1>23. ASSUME NEW g \in Monitors, LlrFails(g)
       PROVE  [Contract!Next]_(Contract!vars)
  BY <1>23 DEF LlrFails, Drop, SetErrorStatus
<1>24. ASSUME NEW g \in Monitors, RemoteUse(g)
       PROVE  [Contract!Next]_(Contract!vars)
  BY <1>24 DEF RemoteUse
<1>25. ASSUME NEW g \in Monitors, RemoteNil(g)
       PROVE  [Contract!Next]_(Contract!vars)
  BY <1>25 DEF RemoteNil, Panic
<1>26. ASSUME NEW g \in Monitors, RemotePasses(g)
       PROVE  [Contract!Next]_(Contract!vars)
  BY <1>26 DEF RemotePasses
<1>27. ASSUME NEW g \in Monitors, RemoteFails(g)
       PROVE  [Contract!Next]_(Contract!vars)
  BY <1>27 DEF RemoteFails, SetErrorStatus
<1>28. ASSUME NEW g \in Monitors, Report(g)
       PROVE  [Contract!Next]_(Contract!vars)
  BY <1>28 DEF Report, SetErrorStatus
<1>29. ASSUME NEW g \in Monitors, MonitorCancels(g)
       PROVE  [Contract!Next]_(Contract!vars)
  BY <1>29 DEF MonitorCancels
<1>30. ASSUME AcceptStops
       PROVE  [Contract!Next]_(Contract!vars)
  BY <1>30 DEF AcceptStops
<1>31. ASSUME AcceptFails
       PROVE  [Contract!Next]_(Contract!vars)
  BY <1>31 DEF AcceptFails
<1>32. ASSUME AcceptVerdict
       PROVE  [Contract!Next]_(Contract!vars)
  BY <1>32 DEF AcceptVerdict
<1>33. ASSUME Report("accept")
       PROVE  [Contract!Next]_(Contract!vars)
  BY <1>33 DEF Report, SetErrorStatus
<1>34. ASSUME WritesAndEnds("accept")
       PROVE  [Contract!Next]_(Contract!vars)
  BY <1>34 DEF WritesAndEnds
<1>35. ASSUME NEW c \in Conns, AcceptConn(c)
       PROVE  [Contract!Next]_(Contract!vars)
  BY <1>35 DEF AcceptConn
<1>36. ASSUME NEW c \in Conns, PeerCloses(c)
       PROVE  [Contract!Next]_(Contract!vars)
  BY <1>36 DEF PeerCloses
<1>37. ASSUME NEW c \in Conns, AcquireForChannel(c)
       PROVE  [Contract!Next]_(Contract!vars)
  BY <1>37 DEF AcquireForChannel, Take
<1>38. ASSUME NEW c \in Conns, NoConnection(c)
       PROVE  [Contract!Next]_(Contract!vars)
  BY <1>38 DEF NoConnection
<1>39. ASSUME NEW c \in Conns, OpenChannel(c)
       PROVE  [Contract!Next]_(Contract!vars)
  BY <1>39 DEF OpenChannel
<1>40. ASSUME NEW c \in Conns, OpenChannelFails(c)
       PROVE  [Contract!Next]_(Contract!vars)
  BY <1>40 DEF OpenChannelFails, Drop
<1>41. ASSUME NEW c \in Conns, DialLocal(c)
       PROVE  [Contract!Next]_(Contract!vars)
  BY <1>41 DEF DialLocal
<1>42. ASSUME NEW c \in Conns, DialTarget(c)
       PROVE  [Contract!Next]_(Contract!vars)
  BY <1>42 DEF DialTarget, Panic
<1>43. ASSUME NEW c \in Conns, Register(c)
       PROVE  [Contract!Next]_(Contract!vars)
  BY <1>43 DEF Register, ConnMuFree
<1>44. ASSUME NEW c \in Conns, LeaveCopy(c)
       PROVE  [Contract!Next]_(Contract!vars)
  BY <1>44 DEF LeaveCopy, FindsOpen, FindsClosed
<1>45. ASSUME NEW c \in Conns, Unregister(c)
       PROVE  [Contract!Next]_(Contract!vars)
  BY <1>45 DEF Unregister, ConnMuFree
<1>46. ASSUME NEW c \in Conns, Report(c)
       PROVE  [Contract!Next]_(Contract!vars)
  BY <1>46 DEF Report, SetErrorStatus
<1>47. ASSUME NEW c \in Conns, WritesAndEnds(c)
       PROVE  [Contract!Next]_(Contract!vars)
  BY <1>47 DEF WritesAndEnds
<1>48. ASSUME NEW c \in Conns, CopierEnds(c)
       PROVE  [Contract!Next]_(Contract!vars)
  BY <1>48 DEF CopierEnds, FindsOpen, FindsClosed
<1>49. ASSUME NEW c \in Conns, NEW k \in Closers, ReleaseChannel(c, k)
       PROVE  [Contract!Next]_(Contract!vars)
  <2>1. CASE k = "handler"
    <3>1. pc' = [pc EXCEPT ![c] = "unregister"] /\ pc[c] = "leave"
      BY <1>49, <2>1 DEF ReleaseChannel, ChannelsCounted, ChannelUse
    <3>2. UNCHANGED <<shared, status>>
      BY <1>49 DEF ReleaseChannel
    <3>3. QED
      BY <3>1, <3>2
  <2>2. CASE k # "handler"
    BY <1>49, <2>2 DEF ReleaseChannel
  <2>3. QED
    BY <2>1, <2>2
<1>50. ASSUME CleanupBegins, ~panicked
       PROVE  [Contract!Next]_(Contract!vars)
  <2>1. pc["cleanup"] = "wait" /\ pc'["cleanup"] \in {"exit", "listener"}
    BY <1>50 DEF CleanupBegins
  <2>2. \A g \in (Goroutines \cup {"start", "stop"}) \ {"cleanup"} : pc'[g] = pc[g]
    BY <1>50 DEF CleanupBegins
  <2>3. ~panicked' /\ UNCHANGED <<status, listener>>
    BY <1>50 DEF CleanupBegins, CloseDone
  <2>4. QED
    BY <1>50, <2>1, <2>2, <2>3
<1>51. ASSUME CloseListener
       PROVE  [Contract!Next]_(Contract!vars)
  BY <1>51 DEF CloseListener
<1>52. ASSUME CloseConns
       PROVE  [Contract!Next]_(Contract!vars)
  BY <1>52, SMTT(30) DEF CloseConns, FindsClosed
<1>53. ASSUME ReleaseKept
       PROVE  [Contract!Next]_(Contract!vars)
  BY <1>53 DEF ReleaseKept, DropAll, ConnMuFree
<1>54. ASSUME StopWrapper
       PROVE  [Contract!Next]_(Contract!vars)
  BY <1>54 DEF StopWrapper
<1>55. ASSUME SetStopped
       PROVE  [Contract!Next]_(Contract!vars)
  BY <1>55 DEF SetStopped
<1>56. ASSUME StopReturns
       PROVE  [Contract!Next]_(Contract!vars)
  BY <1>56 DEF StopReturns
<1>57. ASSUME UNCHANGED vars
       PROVE  [Contract!Next]_(Contract!vars)
  BY <1>57 DEF vars
<1> HIDE DEF LifecycleIInv, At, Goto, Contract!vars, Contract!Next
<1>58. QED
  BY <1>1, <1>2, <1>3, <1>4, <1>5, <1>6, <1>7, <1>8, <1>9, <1>10, <1>11, <1>12,
     <1>13, <1>14, <1>15, <1>16, <1>17, <1>18, <1>19, <1>20, <1>21, <1>22,
     <1>23, <1>24, <1>25, <1>26, <1>27, <1>28, <1>29, <1>30, <1>31, <1>32,
     <1>33, <1>34, <1>35, <1>36, <1>37, <1>38, <1>39, <1>40, <1>41, <1>42,
     <1>43, <1>44, <1>45, <1>46, <1>47, <1>48, <1>49, <1>50, <1>51, <1>52,
     <1>53, <1>54, <1>55, <1>56, <1>57 DEF Next, Start, Check, Observe,
     AcceptEnds, Handle, Copier, Cleanup, Stop, Terminated, Closers

(* A forward is to the service what ForwardInstance says.                  *)
THEOREM ForwardImplementsInstance == Spec => ImplementsInstance
<1>1. LifecycleIInv /\ LifecycleIInv' /\ [Next]_vars => [Contract!Next]_(Contract!vars)
  BY RefStep
<1>2. QED
  BY RefInit, <1>1, LifecycleInvariant, PTL DEF Spec, ImplementsInstance, Contract!Spec
=============================================================================
