----------------------- MODULE ServiceTrackingProofs -----------------------
(***************************************************************************)
(* Theorems about the forward service, for any sets of forwards, of        *)
(* configurations and of instances.                                        *)
(***************************************************************************)
EXTENDS ServiceTracking, TLAPS

LEMMA InitService == TrackInit => ServiceIInv
BY ServiceSentinels DEF TrackInit, Init, EmptyMemory, ServiceIInv, TypeOK,
   Workers, LoopsOverRows, Present, WorkersInOrder, BootInOrder, Starting,
   SoleStarter, StoredNext, OwnInstances, ClosedInOrder, Held, Alive

(* Every step keeps the variables in their types: a forward is started     *)
(* from a row that was read, never from a missing one.                     *)
LEMMA TypeStep ==
    ASSUME TypeOK, LoopsOverRows, WorkersInOrder, Next
    PROVE  TypeOK'
<1> USE ServiceSentinels DEF TypeOK, Workers, LoopsOverRows, WorkersInOrder,
        Present, dbVars, syncVars, workVars, instVars
<1>1. ASSUME Crash
      PROVE  TypeOK'
  BY <1>1 DEF Crash, EmptyMemory
<1>2. ASSUME Boot
      PROVE  TypeOK'
  BY <1>2 DEF Boot, Present
<1>3. ASSUME NEW id \in Ids, BootStart(id)
      PROVE  TypeOK'
  BY <1>3 DEF BootStart, Assign
<1>4. ASSUME BootDone
      PROVE  TypeOK'
  BY <1>4 DEF BootDone, EmptyMemory
<1>5. ASSUME NEW id \in Ids, NEW c \in Configs, CreateForward(id, c)
      PROVE  TypeOK'
  BY <1>5 DEF CreateForward, Serving
<1>6. ASSUME NEW id \in Ids, DeleteForward(id)
      PROVE  TypeOK'
  BY <1>6 DEF DeleteForward, Serving
<1>7. ASSUME NEW w \in Workers, NEW i \in Instances, StartSucceeds(w, i)
      PROVE  TypeOK'
  BY <1>7 DEF StartSucceeds, Unused, Listening
<1>8. ASSUME NEW w \in Workers, StartFails(w)
      PROVE  TypeOK'
  BY <1>8 DEF StartFails, UpdateStatus
<1>9. ASSUME NEW w \in Workers, BuildFails(w)
      PROVE  TypeOK'
  BY <1>9 DEF BuildFails
<1>10. ASSUME NEW w \in Workers, Store(w)
      PROVE  TypeOK'
  BY <1>10 DEF Store
<1>11. ASSUME NEW w \in Workers, MarkRunning(w)
      PROVE  TypeOK'
  BY <1>11 DEF MarkRunning, UpdateStatus
<1>12. ASSUME NEW w \in Workers, ReportFailure(w)
      PROVE  TypeOK'
  BY <1>12 DEF ReportFailure, UpdateStatus
<1>13. ASSUME NEW w \in Workers, Finish(w)
      PROVE  TypeOK'
  BY <1>13 DEF Finish
<1>14. ASSUME SyncList
      PROVE  TypeOK'
  BY <1>14 DEF SyncList, Present
<1>15. ASSUME NEW id \in Ids, SyncLookup(id)
      PROVE  TypeOK'
  BY <1>15 DEF SyncLookup
<1>16. ASSUME SyncSkip
      PROVE  TypeOK'
  BY <1>16 DEF SyncSkip
<1>17. ASSUME SyncStart
      PROVE  TypeOK'
  BY <1>17 DEF SyncStart, Assign
<1>18. ASSUME SyncStop
      PROVE  TypeOK'
  BY <1>18 DEF SyncStop, EmptyMemory
<1>19. ASSUME SyncCollect
      PROVE  TypeOK'
  BY <1>19 DEF SyncCollect
<1>20. ASSUME NEW id \in Ids, SkipRebuild(id)
      PROVE  TypeOK'
  BY <1>20 DEF SkipRebuild
<1>21. ASSUME NEW id \in Ids, Rebuild(id)
      PROVE  TypeOK'
  BY <1>21 DEF Rebuild
<1>22. ASSUME Replace
      PROVE  TypeOK'
  BY <1>22 DEF Replace
<1>23. ASSUME SyncDone
      PROVE  TypeOK'
  BY <1>23 DEF SyncDone
<1>24. ASSUME NEW i \in Instances, InstanceFails(i)
      PROVE  TypeOK'
  BY <1>24 DEF InstanceFails
<1>25. ASSUME NEW i \in Instances, WriteError(i)
      PROVE  TypeOK'
  BY <1>25 DEF WriteError, UpdateStatus
<1>26. ASSUME NEW i \in Instances, ReleaseResources(i)
      PROVE  TypeOK'
  BY <1>26 DEF ReleaseResources
<1>27. ASSUME NEW i \in Instances, StopReturns(i)
      PROVE  TypeOK'
  BY <1>27 DEF StopReturns
<1>28. ASSUME NEW i \in Instances, GoroutinesEnd(i)
      PROVE  TypeOK'
  BY <1>28 DEF GoroutinesEnd
<1>29. QED
  <2>1. CASE BootStep
    BY <2>1, <1>2, <1>3, <1>4 DEF BootStep
  <2>2. CASE \E w \in Workers : StartForward(w)
    BY <2>2, <1>7, <1>8, <1>9, <1>10, <1>11, <1>12, <1>13 DEF StartForward
  <2>3. CASE SyncStep
    BY <2>3, <1>14, <1>15, <1>16, <1>17, <1>18, <1>19, <1>20, <1>21, <1>22,
       <1>23 DEF SyncStep
  <2>4. CASE \/ Crash
             \/ \E id \in Ids : DeleteForward(id)
                             \/ \E c \in Configs : CreateForward(id, c)
             \/ \E i \in Instances : \/ InstanceFails(i) \/ WriteError(i)
                                    \/ ReleaseResources(i) \/ GoroutinesEnd(i)
                                    \/ StopReturns(i)
    BY <2>4, <1>1, <1>5, <1>6, <1>24, <1>25, <1>26, <1>27, <1>28
  <2>5. QED
    BY <2>1, <2>2, <2>3, <2>4 DEF Next

(* The loops, and who works when.                                          *)
LEMMA OrderStep ==
    ASSUME TypeOK, LoopsOverRows, WorkersInOrder, BootInOrder, ClosedInOrder,
           Next
    PROVE  LoopsOverRows' /\ WorkersInOrder' /\ BootInOrder' /\ ClosedInOrder'
<1> USE ServiceSentinels DEF TypeOK, Workers, LoopsOverRows, WorkersInOrder,
        BootInOrder, ClosedInOrder, Alive, Starting, Present, dbVars, syncVars,
        workVars, instVars
<1>1. ASSUME Crash
      PROVE  LoopsOverRows' /\ WorkersInOrder' /\ BootInOrder' /\ ClosedInOrder'
  BY <1>1 DEF Crash, EmptyMemory
<1>2. ASSUME Boot
      PROVE  LoopsOverRows' /\ WorkersInOrder' /\ BootInOrder' /\ ClosedInOrder'
  BY <1>2 DEF Boot, Present
<1>3. ASSUME NEW id \in Ids, BootStart(id)
      PROVE  LoopsOverRows' /\ WorkersInOrder' /\ BootInOrder' /\ ClosedInOrder'
  BY <1>3 DEF BootStart, Assign
<1>4. ASSUME BootDone
      PROVE  LoopsOverRows' /\ WorkersInOrder' /\ BootInOrder' /\ ClosedInOrder'
  BY <1>4 DEF BootDone, EmptyMemory
<1>5. ASSUME NEW id \in Ids, NEW c \in Configs, CreateForward(id, c)
      PROVE  LoopsOverRows' /\ WorkersInOrder' /\ BootInOrder' /\ ClosedInOrder'
  BY <1>5 DEF CreateForward, Serving
<1>6. ASSUME NEW id \in Ids, DeleteForward(id)
      PROVE  LoopsOverRows' /\ WorkersInOrder' /\ BootInOrder' /\ ClosedInOrder'
  BY <1>6 DEF DeleteForward, Serving
<1>7. ASSUME NEW w \in Workers, NEW i \in Instances, StartSucceeds(w, i)
      PROVE  LoopsOverRows' /\ WorkersInOrder' /\ BootInOrder' /\ ClosedInOrder'
  BY <1>7 DEF StartSucceeds, Unused, Listening
<1>8. ASSUME NEW w \in Workers, StartFails(w)
      PROVE  LoopsOverRows' /\ WorkersInOrder' /\ BootInOrder' /\ ClosedInOrder'
  BY <1>8 DEF StartFails, UpdateStatus
<1>9. ASSUME NEW w \in Workers, BuildFails(w)
      PROVE  LoopsOverRows' /\ WorkersInOrder' /\ BootInOrder' /\ ClosedInOrder'
  BY <1>9 DEF BuildFails
<1>10. ASSUME NEW w \in Workers, Store(w)
      PROVE  LoopsOverRows' /\ WorkersInOrder' /\ BootInOrder' /\ ClosedInOrder'
  BY <1>10 DEF Store
<1>11. ASSUME NEW w \in Workers, MarkRunning(w)
      PROVE  LoopsOverRows' /\ WorkersInOrder' /\ BootInOrder' /\ ClosedInOrder'
  BY <1>11 DEF MarkRunning, UpdateStatus
<1>12. ASSUME NEW w \in Workers, ReportFailure(w)
      PROVE  LoopsOverRows' /\ WorkersInOrder' /\ BootInOrder' /\ ClosedInOrder'
  BY <1>12 DEF ReportFailure, UpdateStatus
<1>13. ASSUME NEW w \in Workers, Finish(w)
      PROVE  LoopsOverRows' /\ WorkersInOrder' /\ BootInOrder' /\ ClosedInOrder'
  BY <1>13 DEF Finish
<1>14. ASSUME SyncList
      PROVE  LoopsOverRows' /\ WorkersInOrder' /\ BootInOrder' /\ ClosedInOrder'
  BY <1>14 DEF SyncList, Present
<1>15. ASSUME NEW id \in Ids, SyncLookup(id)
      PROVE  LoopsOverRows' /\ WorkersInOrder' /\ BootInOrder' /\ ClosedInOrder'
  BY <1>15 DEF SyncLookup
<1>16. ASSUME SyncSkip
      PROVE  LoopsOverRows' /\ WorkersInOrder' /\ BootInOrder' /\ ClosedInOrder'
  BY <1>16 DEF SyncSkip
<1>17. ASSUME SyncStart
      PROVE  LoopsOverRows' /\ WorkersInOrder' /\ BootInOrder' /\ ClosedInOrder'
  BY <1>17 DEF SyncStart, Assign
<1>18. ASSUME SyncStop
      PROVE  LoopsOverRows' /\ WorkersInOrder' /\ BootInOrder' /\ ClosedInOrder'
  BY <1>18 DEF SyncStop, EmptyMemory
<1>19. ASSUME SyncCollect
      PROVE  LoopsOverRows' /\ WorkersInOrder' /\ BootInOrder' /\ ClosedInOrder'
  BY <1>19 DEF SyncCollect
<1>20. ASSUME NEW id \in Ids, SkipRebuild(id)
      PROVE  LoopsOverRows' /\ WorkersInOrder' /\ BootInOrder' /\ ClosedInOrder'
  BY <1>20 DEF SkipRebuild
<1>21. ASSUME NEW id \in Ids, Rebuild(id)
      PROVE  LoopsOverRows' /\ WorkersInOrder' /\ BootInOrder' /\ ClosedInOrder'
  BY <1>21 DEF Rebuild
<1>22. ASSUME Replace
      PROVE  LoopsOverRows' /\ WorkersInOrder' /\ BootInOrder' /\ ClosedInOrder'
  BY <1>22 DEF Replace
<1>23. ASSUME SyncDone
      PROVE  LoopsOverRows' /\ WorkersInOrder' /\ BootInOrder' /\ ClosedInOrder'
  BY <1>23 DEF SyncDone
<1>24. ASSUME NEW i \in Instances, InstanceFails(i)
      PROVE  LoopsOverRows' /\ WorkersInOrder' /\ BootInOrder' /\ ClosedInOrder'
  BY <1>24 DEF InstanceFails
<1>25. ASSUME NEW i \in Instances, WriteError(i)
      PROVE  LoopsOverRows' /\ WorkersInOrder' /\ BootInOrder' /\ ClosedInOrder'
  BY <1>25 DEF WriteError, UpdateStatus
<1>26. ASSUME NEW i \in Instances, ReleaseResources(i)
      PROVE  LoopsOverRows' /\ WorkersInOrder' /\ BootInOrder' /\ ClosedInOrder'
  BY <1>26 DEF ReleaseResources
<1>27. ASSUME NEW i \in Instances, StopReturns(i)
      PROVE  LoopsOverRows' /\ WorkersInOrder' /\ BootInOrder' /\ ClosedInOrder'
  BY <1>27 DEF StopReturns
<1>28. ASSUME NEW i \in Instances, GoroutinesEnd(i)
      PROVE  LoopsOverRows' /\ WorkersInOrder' /\ BootInOrder' /\ ClosedInOrder'
  BY <1>28 DEF GoroutinesEnd
<1>29. QED
  <2>1. CASE BootStep
    BY <2>1, <1>2, <1>3, <1>4 DEF BootStep
  <2>2. CASE \E w \in Workers : StartForward(w)
    BY <2>2, <1>7, <1>8, <1>9, <1>10, <1>11, <1>12, <1>13 DEF StartForward
  <2>3. CASE SyncStep
    BY <2>3, <1>14, <1>15, <1>16, <1>17, <1>18, <1>19, <1>20, <1>21, <1>22,
       <1>23 DEF SyncStep
  <2>4. CASE \/ Crash
             \/ \E id \in Ids : DeleteForward(id)
                             \/ \E c \in Configs : CreateForward(id, c)
             \/ \E i \in Instances : \/ InstanceFails(i) \/ WriteError(i)
                                    \/ ReleaseResources(i) \/ GoroutinesEnd(i)
                                    \/ StopReturns(i)
    BY <2>4, <1>1, <1>5, <1>6, <1>24, <1>25, <1>26, <1>27, <1>28
  <2>5. QED
    BY <2>1, <2>2, <2>3, <2>4 DEF Next

(* What raced records does not go away before the process does.            *)
LEMMA SoleStarterStep ==
    ASSUME ServiceIInv, TrackNext
    PROVE  SoleStarter'
<1> USE ServiceSentinels DEF ServiceIInv, TypeOK, Workers, LoopsOverRows,
        WorkersInOrder, BootInOrder, Starting, SoleStarter, StoredNext,
        OwnInstances, Held, Alive, Present, dbVars, syncVars, workVars, instVars
<1>n. Next
  BY DEF TrackNext
<1>r. phase' # "down" => raced \subseteq raced'
  BY DEF TrackNext, Down
<1>1. ASSUME Crash
      PROVE  SoleStarter'
  BY <1>1, <1>r DEF Crash, EmptyMemory
<1>2. ASSUME Boot
      PROVE  SoleStarter'
  BY <1>2, <1>r DEF Boot, Present
<1>3. ASSUME NEW id \in Ids, BootStart(id)
      PROVE  SoleStarter'
  BY <1>3, <1>r DEF BootStart, Assign
<1>4. ASSUME BootDone
      PROVE  SoleStarter'
  BY <1>4, <1>r DEF BootDone, EmptyMemory
<1>5. ASSUME NEW id \in Ids, NEW c \in Configs, CreateForward(id, c)
      PROVE  SoleStarter'
  BY <1>5, <1>r DEF CreateForward, Serving
<1>6. ASSUME NEW id \in Ids, DeleteForward(id)
      PROVE  SoleStarter'
  BY <1>6, <1>r DEF DeleteForward, Serving
<1>7. ASSUME NEW w \in Workers, NEW i \in Instances, StartSucceeds(w, i)
      PROVE  SoleStarter'
  BY <1>7, <1>r DEF StartSucceeds, Unused, Listening
<1>8. ASSUME NEW w \in Workers, StartFails(w)
      PROVE  SoleStarter'
  BY <1>8, <1>r DEF StartFails, UpdateStatus
<1>9. ASSUME NEW w \in Workers, BuildFails(w)
      PROVE  SoleStarter'
  BY <1>9, <1>r DEF BuildFails
<1>10. ASSUME NEW w \in Workers, Store(w)
      PROVE  SoleStarter'
  BY <1>10, <1>r DEF Store
<1>11. ASSUME NEW w \in Workers, MarkRunning(w)
      PROVE  SoleStarter'
  BY <1>11, <1>r DEF MarkRunning, UpdateStatus
<1>12. ASSUME NEW w \in Workers, ReportFailure(w)
      PROVE  SoleStarter'
  BY <1>12, <1>r DEF ReportFailure, UpdateStatus
<1>13. ASSUME NEW w \in Workers, Finish(w)
      PROVE  SoleStarter'
  BY <1>13, <1>r DEF Finish
<1>14. ASSUME SyncList
      PROVE  SoleStarter'
  BY <1>14, <1>r DEF SyncList, Present
<1>15. ASSUME NEW id \in Ids, SyncLookup(id)
      PROVE  SoleStarter'
  BY <1>15, <1>r DEF SyncLookup
<1>16. ASSUME SyncSkip
      PROVE  SoleStarter'
  BY <1>16, <1>r DEF SyncSkip
<1>17. ASSUME SyncStart
      PROVE  SoleStarter'
  BY <1>17, <1>r DEF SyncStart, Assign, TrackNext, Down
<1>18. ASSUME SyncStop
      PROVE  SoleStarter'
  BY <1>18, <1>r DEF SyncStop, EmptyMemory
<1>19. ASSUME SyncCollect
      PROVE  SoleStarter'
  BY <1>19, <1>r DEF SyncCollect
<1>20. ASSUME NEW id \in Ids, SkipRebuild(id)
      PROVE  SoleStarter'
  BY <1>20, <1>r DEF SkipRebuild
<1>21. ASSUME NEW id \in Ids, Rebuild(id)
      PROVE  SoleStarter'
  BY <1>21, <1>r DEF Rebuild
<1>22. ASSUME Replace
      PROVE  SoleStarter'
  BY <1>22, <1>r DEF Replace
<1>23. ASSUME SyncDone
      PROVE  SoleStarter'
  BY <1>23, <1>r DEF SyncDone
<1>24. ASSUME NEW i \in Instances, InstanceFails(i)
      PROVE  SoleStarter'
  BY <1>24, <1>r DEF InstanceFails
<1>25. ASSUME NEW i \in Instances, WriteError(i)
      PROVE  SoleStarter'
  BY <1>25, <1>r DEF WriteError, UpdateStatus
<1>26. ASSUME NEW i \in Instances, ReleaseResources(i)
      PROVE  SoleStarter'
  BY <1>26, <1>r DEF ReleaseResources
<1>27. ASSUME NEW i \in Instances, StopReturns(i)
      PROVE  SoleStarter'
  BY <1>27, <1>r DEF StopReturns
<1>28. ASSUME NEW i \in Instances, GoroutinesEnd(i)
      PROVE  SoleStarter'
  BY <1>28, <1>r DEF GoroutinesEnd
<1>29. QED
  <2>1. CASE BootStep
    BY <2>1, <1>2, <1>3, <1>4 DEF BootStep
  <2>2. CASE \E w \in Workers : StartForward(w)
    BY <2>2, <1>7, <1>8, <1>9, <1>10, <1>11, <1>12, <1>13 DEF StartForward
  <2>3. CASE SyncStep
    BY <2>3, <1>14, <1>15, <1>16, <1>17, <1>18, <1>19, <1>20, <1>21, <1>22,
       <1>23 DEF SyncStep
  <2>4. CASE \/ Crash
             \/ \E id \in Ids : DeleteForward(id)
                             \/ \E c \in Configs : CreateForward(id, c)
             \/ \E i \in Instances : \/ InstanceFails(i) \/ WriteError(i)
                                    \/ ReleaseResources(i) \/ GoroutinesEnd(i)
                                    \/ StopReturns(i)
    BY <2>4, <1>1, <1>5, <1>6, <1>24, <1>25, <1>26, <1>27, <1>28
  <2>5. QED
    BY <1>n, <2>1, <2>2, <2>3, <2>4 DEF Next

LEMMA StoredStep ==
    ASSUME ServiceIInv, TrackNext
    PROVE  StoredNext' /\ OwnInstances'
<1> USE ServiceSentinels DEF ServiceIInv, TypeOK, Workers, LoopsOverRows,
        WorkersInOrder, BootInOrder, Starting, SoleStarter, StoredNext,
        OwnInstances, Held, Alive, Present, dbVars, syncVars, workVars, instVars
<1>n. Next
  BY DEF TrackNext
<1>r. phase' # "down" => raced \subseteq raced'
  BY DEF TrackNext, Down
<1>1. ASSUME Crash
      PROVE  StoredNext' /\ OwnInstances'
  BY <1>1, <1>r DEF Crash, EmptyMemory
<1>2. ASSUME Boot
      PROVE  StoredNext' /\ OwnInstances'
  BY <1>2, <1>r DEF Boot, Present
<1>3. ASSUME NEW id \in Ids, BootStart(id)
      PROVE  StoredNext' /\ OwnInstances'
  BY <1>3, <1>r DEF BootStart, Assign
<1>4. ASSUME BootDone
      PROVE  StoredNext' /\ OwnInstances'
  BY <1>4, <1>r DEF BootDone, EmptyMemory
<1>5. ASSUME NEW id \in Ids, NEW c \in Configs, CreateForward(id, c)
      PROVE  StoredNext' /\ OwnInstances'
  BY <1>5, <1>r DEF CreateForward, Serving
<1>6. ASSUME NEW id \in Ids, DeleteForward(id)
      PROVE  StoredNext' /\ OwnInstances'
  BY <1>6, <1>r DEF DeleteForward, Serving
<1>7. ASSUME NEW w \in Workers, NEW i \in Instances, StartSucceeds(w, i)
      PROVE  StoredNext' /\ OwnInstances'
  BY <1>7, <1>r DEF StartSucceeds, Unused, Listening
<1>8. ASSUME NEW w \in Workers, StartFails(w)
      PROVE  StoredNext' /\ OwnInstances'
  BY <1>8, <1>r DEF StartFails, UpdateStatus
<1>9. ASSUME NEW w \in Workers, BuildFails(w)
      PROVE  StoredNext' /\ OwnInstances'
  BY <1>9, <1>r DEF BuildFails
<1>10. ASSUME NEW w \in Workers, Store(w)
      PROVE  StoredNext' /\ OwnInstances'
  BY <1>10, <1>r DEF Store
<1>11. ASSUME NEW w \in Workers, MarkRunning(w)
      PROVE  StoredNext' /\ OwnInstances'
  BY <1>11, <1>r DEF MarkRunning, UpdateStatus
<1>12. ASSUME NEW w \in Workers, ReportFailure(w)
      PROVE  StoredNext' /\ OwnInstances'
  BY <1>12, <1>r DEF ReportFailure, UpdateStatus
<1>13. ASSUME NEW w \in Workers, Finish(w)
      PROVE  StoredNext' /\ OwnInstances'
  BY <1>13, <1>r DEF Finish
<1>14. ASSUME SyncList
      PROVE  StoredNext' /\ OwnInstances'
  BY <1>14, <1>r DEF SyncList, Present
<1>15. ASSUME NEW id \in Ids, SyncLookup(id)
      PROVE  StoredNext' /\ OwnInstances'
  BY <1>15, <1>r DEF SyncLookup
<1>16. ASSUME SyncSkip
      PROVE  StoredNext' /\ OwnInstances'
  BY <1>16, <1>r DEF SyncSkip
<1>17. ASSUME SyncStart
      PROVE  StoredNext' /\ OwnInstances'
  BY <1>17, <1>r DEF SyncStart, Assign
<1>18. ASSUME SyncStop
      PROVE  StoredNext' /\ OwnInstances'
  BY <1>18, <1>r DEF SyncStop, EmptyMemory
<1>19. ASSUME SyncCollect
      PROVE  StoredNext' /\ OwnInstances'
  BY <1>19, <1>r DEF SyncCollect
<1>20. ASSUME NEW id \in Ids, SkipRebuild(id)
      PROVE  StoredNext' /\ OwnInstances'
  BY <1>20, <1>r DEF SkipRebuild
<1>21. ASSUME NEW id \in Ids, Rebuild(id)
      PROVE  StoredNext' /\ OwnInstances'
  BY <1>21, <1>r DEF Rebuild
<1>22. ASSUME Replace
      PROVE  StoredNext' /\ OwnInstances'
  BY <1>22, <1>r DEF Replace
<1>23. ASSUME SyncDone
      PROVE  StoredNext' /\ OwnInstances'
  BY <1>23, <1>r DEF SyncDone
<1>24. ASSUME NEW i \in Instances, InstanceFails(i)
      PROVE  StoredNext' /\ OwnInstances'
  BY <1>24, <1>r DEF InstanceFails
<1>25. ASSUME NEW i \in Instances, WriteError(i)
      PROVE  StoredNext' /\ OwnInstances'
  BY <1>25, <1>r DEF WriteError, UpdateStatus
<1>26. ASSUME NEW i \in Instances, ReleaseResources(i)
      PROVE  StoredNext' /\ OwnInstances'
  BY <1>26, <1>r DEF ReleaseResources
<1>27. ASSUME NEW i \in Instances, StopReturns(i)
      PROVE  StoredNext' /\ OwnInstances'
  BY <1>27, <1>r DEF StopReturns
<1>28. ASSUME NEW i \in Instances, GoroutinesEnd(i)
      PROVE  StoredNext' /\ OwnInstances'
  BY <1>28, <1>r DEF GoroutinesEnd
<1>29. QED
  <2>1. CASE BootStep
    BY <2>1, <1>2, <1>3, <1>4 DEF BootStep
  <2>2. CASE \E w \in Workers : StartForward(w)
    BY <2>2, <1>7, <1>8, <1>9, <1>10, <1>11, <1>12, <1>13 DEF StartForward
  <2>3. CASE SyncStep
    BY <2>3, <1>14, <1>15, <1>16, <1>17, <1>18, <1>19, <1>20, <1>21, <1>22,
       <1>23 DEF SyncStep
  <2>4. CASE \/ Crash
             \/ \E id \in Ids : DeleteForward(id)
                             \/ \E c \in Configs : CreateForward(id, c)
             \/ \E i \in Instances : \/ InstanceFails(i) \/ WriteError(i)
                                    \/ ReleaseResources(i) \/ GoroutinesEnd(i)
                                    \/ StopReturns(i)
    BY <2>4, <1>1, <1>5, <1>6, <1>24, <1>25, <1>26, <1>27, <1>28
  <2>5. QED
    BY <1>n, <2>1, <2>2, <2>3, <2>4 DEF Next

LEMMA HeldStep ==
    ASSUME ServiceIInv, TrackNext
    PROVE  Held'
<1> USE ServiceSentinels DEF ServiceIInv, TypeOK, Workers, LoopsOverRows,
        WorkersInOrder, BootInOrder, Starting, SoleStarter, StoredNext,
        OwnInstances, Held, Alive, Present, dbVars, syncVars, workVars, instVars
<1>n. Next
  BY DEF TrackNext
<1>r. phase' # "down" => raced \subseteq raced'
  BY DEF TrackNext, Down
<1>1. ASSUME Crash
      PROVE  Held'
  BY <1>1, <1>r DEF Crash, EmptyMemory
<1>2. ASSUME Boot
      PROVE  Held'
  BY <1>2, <1>r DEF Boot, Present
<1>3. ASSUME NEW id \in Ids, BootStart(id)
      PROVE  Held'
  BY <1>3, <1>r DEF BootStart, Assign
<1>4. ASSUME BootDone
      PROVE  Held'
  BY <1>4, <1>r DEF BootDone, EmptyMemory
<1>5. ASSUME NEW id \in Ids, NEW c \in Configs, CreateForward(id, c)
      PROVE  Held'
  BY <1>5, <1>r DEF CreateForward, Serving
<1>6. ASSUME NEW id \in Ids, DeleteForward(id)
      PROVE  Held'
  BY <1>6, <1>r DEF DeleteForward, Serving
<1>7. ASSUME NEW w \in Workers, NEW i \in Instances, StartSucceeds(w, i)
      PROVE  Held'
  BY <1>7, <1>r DEF StartSucceeds, Unused, Listening
<1>8. ASSUME NEW w \in Workers, StartFails(w)
      PROVE  Held'
  BY <1>8, <1>r DEF StartFails, UpdateStatus
<1>9. ASSUME NEW w \in Workers, BuildFails(w)
      PROVE  Held'
  BY <1>9, <1>r DEF BuildFails
<1>10. ASSUME NEW w \in Workers, Store(w)
      PROVE  Held'
  BY <1>10, <1>r DEF Store
<1>11. ASSUME NEW w \in Workers, MarkRunning(w)
      PROVE  Held'
  BY <1>11, <1>r DEF MarkRunning, UpdateStatus
<1>12. ASSUME NEW w \in Workers, ReportFailure(w)
      PROVE  Held'
  BY <1>12, <1>r DEF ReportFailure, UpdateStatus
<1>13. ASSUME NEW w \in Workers, Finish(w)
      PROVE  Held'
  BY <1>13, <1>r DEF Finish
<1>14. ASSUME SyncList
      PROVE  Held'
  BY <1>14, <1>r DEF SyncList, Present
<1>15. ASSUME NEW id \in Ids, SyncLookup(id)
      PROVE  Held'
  BY <1>15, <1>r DEF SyncLookup
<1>16. ASSUME SyncSkip
      PROVE  Held'
  BY <1>16, <1>r DEF SyncSkip
<1>17. ASSUME SyncStart
      PROVE  Held'
  BY <1>17, <1>r DEF SyncStart, Assign
<1>18. ASSUME SyncStop
      PROVE  Held'
  BY <1>18, <1>r DEF SyncStop, EmptyMemory
<1>19. ASSUME SyncCollect
      PROVE  Held'
  BY <1>19, <1>r DEF SyncCollect
<1>20. ASSUME NEW id \in Ids, SkipRebuild(id)
      PROVE  Held'
  BY <1>20, <1>r DEF SkipRebuild
<1>21. ASSUME NEW id \in Ids, Rebuild(id)
      PROVE  Held'
  BY <1>21, <1>r DEF Rebuild
<1>22. ASSUME Replace
      PROVE  Held'
  BY <1>22, <1>r DEF Replace
<1>23. ASSUME SyncDone
      PROVE  Held'
  BY <1>23, <1>r DEF SyncDone
<1>24. ASSUME NEW i \in Instances, InstanceFails(i)
      PROVE  Held'
  BY <1>24, <1>r DEF InstanceFails
<1>25. ASSUME NEW i \in Instances, WriteError(i)
      PROVE  Held'
  BY <1>25, <1>r DEF WriteError, UpdateStatus
<1>26. ASSUME NEW i \in Instances, ReleaseResources(i)
      PROVE  Held'
  BY <1>26, <1>r DEF ReleaseResources
<1>27. ASSUME NEW i \in Instances, StopReturns(i)
      PROVE  Held'
  BY <1>27, <1>r DEF StopReturns
<1>28. ASSUME NEW i \in Instances, GoroutinesEnd(i)
      PROVE  Held'
  BY <1>28, <1>r DEF GoroutinesEnd
<1>29. QED
  <2>1. CASE BootStep
    BY <2>1, <1>2, <1>3, <1>4 DEF BootStep
  <2>2. CASE \E w \in Workers : StartForward(w)
    BY <2>2, <1>7, <1>8, <1>9, <1>10, <1>11, <1>12, <1>13 DEF StartForward
  <2>3. CASE SyncStep
    BY <2>3, <1>14, <1>15, <1>16, <1>17, <1>18, <1>19, <1>20, <1>21, <1>22,
       <1>23 DEF SyncStep
  <2>4. CASE \/ Crash
             \/ \E id \in Ids : DeleteForward(id)
                             \/ \E c \in Configs : CreateForward(id, c)
             \/ \E i \in Instances : \/ InstanceFails(i) \/ WriteError(i)
                                    \/ ReleaseResources(i) \/ GoroutinesEnd(i)
                                    \/ StopReturns(i)
    BY <2>4, <1>1, <1>5, <1>6, <1>24, <1>25, <1>26, <1>27, <1>28
  <2>5. QED
    BY <1>n, <2>1, <2>2, <2>3, <2>4 DEF Next

LEMMA ServiceStutter ==
    ASSUME ServiceIInv, UNCHANGED trackVars
    PROVE  ServiceIInv'
BY DEF trackVars, vars, dbVars, syncVars, workVars, instVars, ServiceIInv,
   TypeOK, LoopsOverRows, Present, WorkersInOrder, BootInOrder, Starting,
   SoleStarter, StoredNext, OwnInstances, ClosedInOrder, Held, Alive

(* What a step does to one instance is a step of its contract, or nothing. *)
LEMMA ContractStep ==
    ASSUME TypeOK, ClosedInOrder, Next, NEW j \in Instances
    PROVE  [Contract(j)!Next]_(Contract(j)!vars)
<1> USE DEF TypeOK, ClosedInOrder, dbVars, syncVars, workVars, instVars,
        Contract!Next,
        Contract!vars, Contract!Starts, Contract!Fails, Contract!Releases,
        Contract!Release, Contract!WriteError, Contract!StopCalled,
        Contract!SetStopped, Contract!StopReturns, Contract!ProcessEnds
<1>1. ASSUME Crash
      PROVE  [Contract(j)!Next]_(Contract(j)!vars)
  BY <1>1 DEF Crash, EmptyMemory
<1>2. ASSUME Boot
      PROVE  [Contract(j)!Next]_(Contract(j)!vars)
  BY <1>2 DEF Boot, Present
<1>3. ASSUME NEW id \in Ids, BootStart(id)
      PROVE  [Contract(j)!Next]_(Contract(j)!vars)
  BY <1>3 DEF BootStart, Assign
<1>4. ASSUME BootDone
      PROVE  [Contract(j)!Next]_(Contract(j)!vars)
  BY <1>4 DEF BootDone, EmptyMemory
<1>5. ASSUME NEW id \in Ids, NEW c \in Configs, CreateForward(id, c)
      PROVE  [Contract(j)!Next]_(Contract(j)!vars)
  BY <1>5 DEF CreateForward, Serving
<1>6. ASSUME NEW id \in Ids, DeleteForward(id)
      PROVE  [Contract(j)!Next]_(Contract(j)!vars)
  BY <1>6 DEF DeleteForward, Serving
<1>7. ASSUME NEW w \in Workers, NEW i \in Instances, StartSucceeds(w, i)
      PROVE  [Contract(j)!Next]_(Contract(j)!vars)
  BY <1>7 DEF StartSucceeds, Unused, Listening
<1>8. ASSUME NEW w \in Workers, StartFails(w)
      PROVE  [Contract(j)!Next]_(Contract(j)!vars)
  BY <1>8 DEF StartFails, UpdateStatus
<1>9. ASSUME NEW w \in Workers, BuildFails(w)
      PROVE  [Contract(j)!Next]_(Contract(j)!vars)
  BY <1>9 DEF BuildFails
<1>10. ASSUME NEW w \in Workers, Store(w)
      PROVE  [Contract(j)!Next]_(Contract(j)!vars)
  BY <1>10 DEF Store
<1>11. ASSUME NEW w \in Workers, MarkRunning(w)
      PROVE  [Contract(j)!Next]_(Contract(j)!vars)
  BY <1>11 DEF MarkRunning, UpdateStatus
<1>12. ASSUME NEW w \in Workers, ReportFailure(w)
      PROVE  [Contract(j)!Next]_(Contract(j)!vars)
  BY <1>12 DEF ReportFailure, UpdateStatus
<1>13. ASSUME NEW w \in Workers, Finish(w)
      PROVE  [Contract(j)!Next]_(Contract(j)!vars)
  BY <1>13 DEF Finish
<1>14. ASSUME SyncList
      PROVE  [Contract(j)!Next]_(Contract(j)!vars)
  BY <1>14 DEF SyncList, Present
<1>15. ASSUME NEW id \in Ids, SyncLookup(id)
      PROVE  [Contract(j)!Next]_(Contract(j)!vars)
  BY <1>15 DEF SyncLookup
<1>16. ASSUME SyncSkip
      PROVE  [Contract(j)!Next]_(Contract(j)!vars)
  BY <1>16 DEF SyncSkip
<1>17. ASSUME SyncStart
      PROVE  [Contract(j)!Next]_(Contract(j)!vars)
  BY <1>17 DEF SyncStart, Assign
<1>18. ASSUME SyncStop
      PROVE  [Contract(j)!Next]_(Contract(j)!vars)
  BY <1>18 DEF SyncStop, EmptyMemory
<1>19. ASSUME SyncCollect
      PROVE  [Contract(j)!Next]_(Contract(j)!vars)
  BY <1>19 DEF SyncCollect
<1>20. ASSUME NEW id \in Ids, SkipRebuild(id)
      PROVE  [Contract(j)!Next]_(Contract(j)!vars)
  BY <1>20 DEF SkipRebuild
<1>21. ASSUME NEW id \in Ids, Rebuild(id)
      PROVE  [Contract(j)!Next]_(Contract(j)!vars)
  BY <1>21 DEF Rebuild
<1>22. ASSUME Replace
      PROVE  [Contract(j)!Next]_(Contract(j)!vars)
  BY <1>22 DEF Replace
<1>23. ASSUME SyncDone
      PROVE  [Contract(j)!Next]_(Contract(j)!vars)
  BY <1>23 DEF SyncDone
<1>24. ASSUME NEW i \in Instances, InstanceFails(i)
      PROVE  [Contract(j)!Next]_(Contract(j)!vars)
  BY <1>24 DEF InstanceFails
<1>25. ASSUME NEW i \in Instances, WriteError(i)
      PROVE  [Contract(j)!Next]_(Contract(j)!vars)
  BY <1>25 DEF WriteError, UpdateStatus
<1>26. ASSUME NEW i \in Instances, ReleaseResources(i)
      PROVE  [Contract(j)!Next]_(Contract(j)!vars)
  BY <1>26 DEF ReleaseResources
<1>27. ASSUME NEW i \in Instances, StopReturns(i)
      PROVE  [Contract(j)!Next]_(Contract(j)!vars)
  BY <1>27 DEF StopReturns
<1>28. ASSUME NEW i \in Instances, GoroutinesEnd(i)
      PROVE  [Contract(j)!Next]_(Contract(j)!vars)
  BY <1>28 DEF GoroutinesEnd
<1>29. QED
  <2>1. CASE BootStep
    BY <2>1, <1>2, <1>3, <1>4 DEF BootStep
  <2>2. CASE \E w \in Workers : StartForward(w)
    BY <2>2, <1>7, <1>8, <1>9, <1>10, <1>11, <1>12, <1>13 DEF StartForward
  <2>3. CASE SyncStep
    BY <2>3, <1>14, <1>15, <1>16, <1>17, <1>18, <1>19, <1>20, <1>21, <1>22,
       <1>23 DEF SyncStep
  <2>4. CASE \/ Crash
             \/ \E id \in Ids : DeleteForward(id)
                             \/ \E c \in Configs : CreateForward(id, c)
             \/ \E i \in Instances : \/ InstanceFails(i) \/ WriteError(i)
                                    \/ ReleaseResources(i) \/ GoroutinesEnd(i)
                                    \/ StopReturns(i)
    BY <2>4, <1>1, <1>5, <1>6, <1>24, <1>25, <1>26, <1>27, <1>28
  <2>5. QED
    BY <2>1, <2>2, <2>3, <2>4 DEF Next

-----------------------------------------------------------------------------
(* The inductive invariant of the service, types included.                 *)
THEOREM ServiceInvariant == TrackSpec => []ServiceIInv
<1>1. ServiceIInv /\ TrackNext => ServiceIInv'
  <2> SUFFICES ASSUME ServiceIInv, TrackNext PROVE ServiceIInv'
    OBVIOUS
  <2>1. Next
    BY DEF TrackNext
  <2>2. TypeOK'
    BY <2>1, TypeStep DEF ServiceIInv
  <2>3. LoopsOverRows' /\ WorkersInOrder' /\ BootInOrder' /\ ClosedInOrder'
    BY <2>1, OrderStep DEF ServiceIInv
  <2>4. SoleStarter' /\ StoredNext' /\ OwnInstances' /\ Held'
    BY SoleStarterStep, StoredStep, HeldStep
  <2>5. QED
    BY <2>2, <2>3, <2>4 DEF ServiceIInv
<1>2. ServiceIInv /\ [TrackNext]_trackVars => ServiceIInv'
  BY <1>1, ServiceStutter
<1>3. QED
  BY InitService, <1>2, PTL DEF TrackSpec

(* An instance that listens, or has an error to write, is in s.forwards, in*)
(* the hands of a goroutine or being stopped: no interleaving of syncs,    *)
(* starts, rebuilds, deletions and failures loses one, unless its forward  *)
(* was started while it was in memory.                                     *)
THEOREM InstancesTracked == TrackSpec => []TrackedUnlessRaced
<1>1. ServiceIInv => TrackedUnlessRaced
  BY DEF ServiceIInv, Held, TrackedUnlessRaced, Tracked
<1>2. QED
  BY ServiceInvariant, <1>1, PTL

(* The service asks of its instances only what one object of package       *)
(* forwarding offers: each step starts, fails, stops or lets go an instance*)
(* as ForwardInstance allows, so that the guarantees of ForwardLifecycle   *)
(* apply to every one of them.                                             *)
THEOREM ContractKept == TrackSpec => InstancesKeepContract
<1>1. ServiceIInv /\ [TrackNext]_trackVars
        => [\A i \in Instances : [Contract(i)!Next]_(Contract(i)!vars)]_vars
  BY ContractStep DEF ServiceIInv, TrackNext, trackVars
<1>2. QED
  BY ServiceInvariant, <1>1, PTL DEF TrackSpec, InstancesKeepContract
=============================================================================
