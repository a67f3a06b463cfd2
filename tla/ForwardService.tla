--------------------------- MODULE ForwardService ---------------------------
(***************************************************************************)
(* The forward service of src/internal/service/forward_service.go: the     *)
(* loop that reconciles the forwards stored in the database with the ones  *)
(* running in memory, the goroutines that start and stop them, the API     *)
(* calls that create and delete them, and the loss of the process.         *)
(*                                                                         *)
(* A forward is identified by what it connects (db.generateForwardID), so  *)
(* a deleted forward can be created again under the same ID.  An instance  *)
(* is one object of package forwarding; here it only starts, fails and     *)
(* stops, and two instances of one forward cannot listen at a time.        *)
(*                                                                         *)
(* Granularity.  A database statement or transaction, a critical section   *)
(* of s.mu or of s.pendingMu is a step.  Time is abstracted: shouldRebuild *)
(* may answer either way for a forward that has failed before.             *)
(***************************************************************************)
EXTENDS FiniteSets

CONSTANTS
    Ids,        \* forward IDs
    Configs,    \* what a row may say besides its ID (max_conns, description)
    Instances,  \* objects of package forwarding alive at the same time
    Syncer,     \* the goroutine of Start and of syncLoop
    NoRow, NoInstance, NoId

ASSUME ServiceSentinels ==
    /\ Syncer \notin Ids /\ NoId \notin Ids \cup {Syncer}
    /\ NoRow \notin Configs
    /\ NoInstance \notin Instances

(* The goroutine that sync starts for a forward is named by the forward:   *)
(* pendingStarts allows one at a time.                                     *)
Workers == Ids \cup {Syncer}

VARIABLES
    \* the database, which outlives the process
    row,            \* table forwards: configuration, or NoRow
    statusRow,      \* table forward_status: "none" if there is no row
    \* ForwardService
    forwards,       \* s.forwards
    pendingStarts,  \* s.pendingStarts
    \* Start and sync, locals included
    phase,          \* "down", "boot", "idle", "scan", "collect", "rebuild"
    listed,         \* rows read from the database
    listedError,    \* the ones whose status was "error"
    todo,           \* rows still to look at
    missing,        \* forward found absent from s.forwards, not yet started
    failed,         \* errorForwards: instance to rebuild, by forward
    \* startForward and rebuildErrorForward, by the goroutine executing them
    step, job, config, current,
    \* instances
    owner,          \* forwardID
    settings,       \* the configuration the instance was built from
    health,         \* Status(): "stopped", "error", "running"
    bound,          \* its listener is open
    draining,       \* the listener is closed, not all goroutines have ended
    reporting,      \* between setStatus and the database write in setErrorStatus
    stopping        \* Stop has been called and has not returned

dbVars     == <<row, statusRow>>
syncVars   == <<phase, listed, listedError, todo, missing, failed>>
workVars   == <<step, job, config, current>>
instVars   == <<owner, settings, health, bound, draining, reporting, stopping>>
vars == <<dbVars, forwards, pendingStarts, syncVars, workVars, instVars>>

TypeOK ==
    /\ row \in [Ids -> Configs \cup {NoRow}]
    /\ statusRow \in [Ids -> {"none", "pending", "running", "error"}]
    /\ forwards \in [Ids -> Instances \cup {NoInstance}]
    /\ pendingStarts \in SUBSET Ids
    /\ phase \in {"down", "boot", "idle", "scan", "collect", "rebuild"}
    /\ listed \in [Ids -> Configs \cup {NoRow}]
    /\ listedError \in SUBSET Ids
    /\ todo \in SUBSET Ids
    /\ missing \in Ids \cup {NoId}
    /\ failed \in [Ids -> Instances \cup {NoInstance}]
    /\ step \in [Workers -> {"idle", "replace", "start", "store", "mark",
                             "report", "finish"}]
    /\ job \in [Workers -> Ids \cup {NoId}]
    /\ config \in [Workers -> Configs \cup {NoRow}]
    /\ \A w \in Workers : step[w] \in {"start", "store"} => config[w] \in Configs
    /\ current \in [Workers -> Instances \cup {NoInstance}]
    /\ owner \in [Instances -> Ids \cup {NoId}]
    /\ settings \in [Instances -> Configs \cup {NoRow}]
    /\ health \in [Instances -> {"stopped", "error", "running"}]
    /\ bound \in SUBSET Instances
    /\ draining \in SUBSET Instances
    /\ reporting \in SUBSET Instances
    /\ stopping \in SUBSET Instances

(* The memory of a process that has not been started.                      *)
EmptyMemory ==
    [forwards |-> [id \in Ids |-> NoInstance],
     listed   |-> [id \in Ids |-> NoRow],
     idle     |-> [w \in Workers |-> "idle"],
     noJob    |-> [w \in Workers |-> NoId],
     noConfig |-> [w \in Workers |-> NoRow],
     noWork   |-> [w \in Workers |-> NoInstance],
     noOwner  |-> [i \in Instances |-> NoId],
     unset    |-> [i \in Instances |-> NoRow],
     stopped  |-> [i \in Instances |-> "stopped"]]

Init ==
    /\ row = [id \in Ids |-> NoRow]
    /\ statusRow = [id \in Ids |-> "none"]
    /\ phase = "down"
    /\ forwards = EmptyMemory.forwards /\ failed = EmptyMemory.forwards
    /\ pendingStarts = {} /\ listedError = {} /\ todo = {} /\ missing = NoId
    /\ listed = EmptyMemory.listed
    /\ step = EmptyMemory.idle /\ job = EmptyMemory.noJob
    /\ config = EmptyMemory.noConfig /\ current = EmptyMemory.noWork
    /\ owner = EmptyMemory.noOwner /\ settings = EmptyMemory.unset
    /\ health = EmptyMemory.stopped
    /\ bound = {} /\ draining = {} /\ reporting = {} /\ stopping = {}

-----------------------------------------------------------------------------
(* The process.                                                            *)

(* The daemon is killed: memory and listeners go, the database stays.      *)
Crash ==
    /\ phase # "down"
    /\ phase' = "down"
    /\ forwards' = EmptyMemory.forwards /\ failed' = EmptyMemory.forwards
    /\ pendingStarts' = {} /\ listedError' = {} /\ todo' = {} /\ missing' = NoId
    /\ listed' = EmptyMemory.listed
    /\ step' = EmptyMemory.idle /\ job' = EmptyMemory.noJob
    /\ config' = EmptyMemory.noConfig /\ current' = EmptyMemory.noWork
    /\ owner' = EmptyMemory.noOwner /\ settings' = EmptyMemory.unset
    /\ health' = EmptyMemory.stopped
    /\ bound' = {} /\ draining' = {} /\ reporting' = {} /\ stopping' = {}
    /\ UNCHANGED dbVars

Present(rows) == {id \in Ids : rows[id] # NoRow}

(* Start: list the forwards, then delete every status row.                 *)
Boot ==
    /\ phase = "down"
    /\ phase' = "boot"
    /\ listed' = row
    /\ todo' = Present(row)
    /\ statusRow' = [id \in Ids |-> "none"]
    /\ UNCHANGED <<row, forwards, pendingStarts, listedError, missing, failed,
                   workVars, instVars>>

Assign(w, id, c) ==
    /\ step' = [step EXCEPT ![w] = "start"]
    /\ job' = [job EXCEPT ![w] = id]
    /\ config' = [config EXCEPT ![w] = c]

(* Start starts the forwards one after the other.                          *)
BootStart(id) ==
    /\ phase = "boot"
    /\ step[Syncer] = "idle"
    /\ id \in todo
    /\ todo' = todo \ {id}
    /\ Assign(Syncer, id, listed[id])
    /\ UNCHANGED <<dbVars, forwards, pendingStarts, phase, listed, listedError,
                   missing, failed, current, instVars>>

BootDone ==
    /\ phase = "boot"
    /\ step[Syncer] = "idle"
    /\ todo = {}
    /\ phase' = "idle"
    /\ listed' = EmptyMemory.listed
    /\ UNCHANGED <<dbVars, forwards, pendingStarts, listedError, todo, missing,
                   failed, workVars, instVars>>

-----------------------------------------------------------------------------
(* The API: database only, the sync loop does the rest.                    *)

Serving == phase \notin {"down", "boot"}

(* One transaction inserts both rows; either key may be taken already.     *)
CreateForward(id, c) ==
    /\ Serving
    /\ row[id] = NoRow
    /\ statusRow[id] = "none"
    /\ row' = [row EXCEPT ![id] = c]
    /\ statusRow' = [statusRow EXCEPT ![id] = "pending"]
    /\ UNCHANGED <<forwards, pendingStarts, syncVars, workVars, instVars>>

DeleteForward(id) ==
    /\ Serving
    /\ row[id] # NoRow \/ statusRow[id] # "none"
    /\ row' = [row EXCEPT ![id] = NoRow]
    /\ statusRow' = [statusRow EXCEPT ![id] = "none"]
    /\ UNCHANGED <<forwards, pendingStarts, syncVars, workVars, instVars>>

-----------------------------------------------------------------------------
(* startForward, executed by goroutine w for forward job[w].               *)

(* Nobody refers to the instance and it has released what it held.         *)
Unused(i) ==
    /\ i \notin bound \cup draining \cup reporting \cup stopping
    /\ \A id \in Ids : forwards[id] # i /\ failed[id] # i
    /\ \A w \in Workers : current[w] # i

Listening(id) == {i \in bound : owner[i] = id}

(* updateStatus: an upsert, whether or not the forward still exists.       *)
UpdateStatus(id, s) == statusRow' = [statusRow EXCEPT ![id] = s]

(* Forward.Start succeeds: the listen address was free.                    *)
StartSucceeds(w, i) ==
    /\ step[w] = "start"
    /\ Listening(job[w]) = {}
    /\ Unused(i)
    /\ owner' = [owner EXCEPT ![i] = job[w]]
    /\ settings' = [settings EXCEPT ![i] = config[w]]
    /\ health' = [health EXCEPT ![i] = "running"]
    /\ bound' = bound \cup {i}
    /\ current' = [current EXCEPT ![w] = i]
    /\ step' = [step EXCEPT ![w] = "store"]
    /\ UNCHANGED <<dbVars, forwards, pendingStarts, syncVars, job, config,
                   draining, reporting, stopping>>

(* Forward.Start fails, sets the status to error, and is stopped.          *)
StartFails(w) ==
    /\ step[w] = "start"
    /\ UpdateStatus(job[w], "error")
    /\ step' = [step EXCEPT ![w] = "report"]
    /\ UNCHANGED <<row, forwards, pendingStarts, syncVars, job, config, current,
                   instVars>>

(* buildForward fails: an address or a host does not resolve.              *)
BuildFails(w) ==
    /\ step[w] = "start"
    /\ step' = [step EXCEPT ![w] = "report"]
    /\ UNCHANGED <<dbVars, forwards, pendingStarts, syncVars, job, config,
                   current, instVars>>

Store(w) ==
    /\ step[w] = "store"
    /\ forwards' = [forwards EXCEPT ![job[w]] = current[w]]
    /\ current' = [current EXCEPT ![w] = NoInstance]
    /\ step' = [step EXCEPT ![w] = "mark"]
    /\ UNCHANGED <<dbVars, pendingStarts, syncVars, job, config, instVars>>

MarkRunning(w) ==
    /\ step[w] = "mark"
    /\ UpdateStatus(job[w], "running")
    /\ step' = [step EXCEPT ![w] = "finish"]
    /\ UNCHANGED <<row, forwards, pendingStarts, syncVars, job, config, current,
                   instVars>>

(* The caller of startForward writes the error and counts the failure.     *)
ReportFailure(w) ==
    /\ step[w] = "report"
    /\ UpdateStatus(job[w], "error")
    /\ step' = [step EXCEPT ![w] = "finish"]
    /\ UNCHANGED <<row, forwards, pendingStarts, syncVars, job, config, current,
                   instVars>>

(* Mutant: the deferred function is forgotten.                             *)
FinishKeepsMark(w) ==
    /\ step[w] = "finish"
    /\ step' = [step EXCEPT ![w] = "idle"]
    /\ job' = [job EXCEPT ![w] = NoId]
    /\ config' = [config EXCEPT ![w] = NoRow]
    /\ UNCHANGED <<dbVars, forwards, pendingStarts, syncVars, current, instVars>>

(* The deferred function of the goroutine releases the pending mark.       *)
Finish(w) ==
    /\ step[w] = "finish"
    /\ step' = [step EXCEPT ![w] = "idle"]
    /\ job' = [job EXCEPT ![w] = NoId]
    /\ config' = [config EXCEPT ![w] = NoRow]
    /\ pendingStarts' = pendingStarts \ {w}
    /\ UNCHANGED <<dbVars, forwards, syncVars, current, instVars>>

-----------------------------------------------------------------------------
(* sync.                                                                   *)

SyncList ==
    /\ phase = "idle"
    /\ phase' = "scan"
    /\ listed' = row
    /\ listedError' = {id \in Present(row) : statusRow[id] = "error"}
    /\ todo' = Present(row)
    /\ UNCHANGED <<dbVars, forwards, pendingStarts, missing, failed, workVars,
                   instVars>>

(* Is the forward in memory?  Answered under s.mu, used after its release. *)
SyncLookup(id) ==
    /\ phase = "scan"
    /\ missing = NoId
    /\ id \in todo
    /\ todo' = todo \ {id}
    /\ missing' = IF forwards[id] = NoInstance THEN id ELSE NoId
    /\ UNCHANGED <<dbVars, forwards, pendingStarts, phase, listed, listedError,
                   failed, workVars, instVars>>

(* It is being started already, or it failed and its backoff is not over.  *)
SyncSkip ==
    /\ missing # NoId
    /\ missing \in pendingStarts \cup listedError
    /\ missing' = NoId
    /\ UNCHANGED <<dbVars, forwards, pendingStarts, phase, listed, listedError,
                   todo, failed, workVars, instVars>>

SyncStart ==
    /\ missing # NoId
    /\ missing \notin pendingStarts
    /\ pendingStarts' = pendingStarts \cup {missing}
    /\ Assign(missing, missing, listed[missing])
    /\ missing' = NoId
    /\ UNCHANGED <<dbVars, forwards, phase, listed, listedError, todo, failed,
                   current, instVars>>

(* Mutant: nothing to do when the database is empty.                       *)
SyncStopUnlessEmpty ==
    LET gone == {id \in Ids : forwards[id] # NoInstance /\ listed[id] = NoRow
                              /\ Present(listed) # {}}
        halted == {forwards[id] : id \in gone}
    IN
    /\ phase = "scan"
    /\ todo = {} /\ missing = NoId
    /\ phase' = "collect"
    /\ forwards' = [id \in Ids |->
          IF id \in gone THEN NoInstance ELSE forwards[id]]
    /\ stopping' = stopping \cup halted
    /\ health' = [i \in Instances |->
          IF i \in halted THEN "stopped" ELSE health[i]]
    /\ listed' = EmptyMemory.listed /\ listedError' = {}
    /\ UNCHANGED <<dbVars, pendingStarts, todo, missing, failed, workVars, owner,
                   settings, bound, draining, reporting>>

(* Under s.mu: take out every forward that was not listed, and stop it.    *)
(* The rows are not looked at again.                                       *)
SyncStop ==
    LET gone == {id \in Ids : forwards[id] # NoInstance /\ listed[id] = NoRow}
        halted == {forwards[id] : id \in gone}
    IN
    /\ phase = "scan"
    /\ todo = {} /\ missing = NoId
    /\ phase' = "collect"
    /\ forwards' = [id \in Ids |->
          IF id \in gone THEN NoInstance ELSE forwards[id]]
    /\ stopping' = stopping \cup halted
    /\ health' = [i \in Instances |->
          IF i \in halted THEN "stopped" ELSE health[i]]
    /\ listed' = EmptyMemory.listed /\ listedError' = {}
    /\ UNCHANGED <<dbVars, pendingStarts, todo, missing, failed, workVars, owner,
                   settings, bound, draining, reporting>>

(* Mutant: the database is asked which forwards have failed.               *)
SyncCollectByRow ==
    /\ phase = "collect"
    /\ phase' = "rebuild"
    /\ failed' = [id \in Ids |->
          IF statusRow[id] = "error" THEN forwards[id] ELSE NoInstance]
    /\ UNCHANGED <<dbVars, forwards, pendingStarts, listed, listedError, todo,
                   missing, workVars, instVars>>

SyncCollect ==
    /\ phase = "collect"
    /\ phase' = "rebuild"
    /\ failed' = [id \in Ids |->
          IF forwards[id] # NoInstance /\ health[forwards[id]] = "error"
          THEN forwards[id] ELSE NoInstance]
    /\ UNCHANGED <<dbVars, forwards, pendingStarts, listed, listedError, todo,
                   missing, workVars, instVars>>

(* The backoff of a failed forward is not over.                            *)
SkipRebuild(id) ==
    /\ phase = "rebuild"
    /\ step[Syncer] = "idle"
    /\ failed[id] # NoInstance
    /\ failed' = [failed EXCEPT ![id] = NoInstance]
    /\ UNCHANGED <<dbVars, forwards, pendingStarts, phase, listed, listedError,
                   todo, missing, workVars, instVars>>

(* rebuildErrorForward: delete(s.forwards, forwardID), whichever instance  *)
(* is there by now, and call Stop on the one collected.                    *)
Rebuild(id) ==
    /\ phase = "rebuild"
    /\ step[Syncer] = "idle"
    /\ failed[id] # NoInstance
    /\ forwards' = [forwards EXCEPT ![id] = NoInstance]
    /\ stopping' = stopping \cup {failed[id]}
    /\ health' = [health EXCEPT ![failed[id]] = "stopped"]
    /\ step' = [step EXCEPT ![Syncer] = "replace"]
    /\ job' = [job EXCEPT ![Syncer] = id]
    /\ current' = [current EXCEPT ![Syncer] = failed[id]]
    /\ failed' = [failed EXCEPT ![id] = NoInstance]
    /\ UNCHANGED <<dbVars, pendingStarts, phase, listed, listedError, todo,
                   missing, config, owner, settings, bound, draining,
                   reporting>>

(* Mutant: the result of GetForward is used unchecked.                     *)
ReplaceUnchecked ==
    LET id == job[Syncer] IN
    /\ step[Syncer] = "replace"
    /\ current[Syncer] \notin stopping
    /\ current' = [current EXCEPT ![Syncer] = NoInstance]
    /\ config' = [config EXCEPT ![Syncer] = row[id]]
    /\ step' = [step EXCEPT ![Syncer] = "start"]
    /\ UNCHANGED <<dbVars, forwards, pendingStarts, syncVars, job, instVars>>

(* Stop has returned: read the row again, and start it if it is still there*)
Replace ==
    LET id == job[Syncer] IN
    /\ step[Syncer] = "replace"
    /\ current[Syncer] \notin stopping
    /\ current' = [current EXCEPT ![Syncer] = NoInstance]
    /\ config' = [config EXCEPT ![Syncer] = row[id]]
    /\ step' = [step EXCEPT ![Syncer] =
          IF row[id] = NoRow THEN "finish" ELSE "start"]
    /\ UNCHANGED <<dbVars, forwards, pendingStarts, syncVars, job, instVars>>

SyncDone ==
    /\ phase = "rebuild"
    /\ step[Syncer] = "idle"
    /\ \A id \in Ids : failed[id] = NoInstance
    /\ phase' = "idle"
    /\ UNCHANGED <<dbVars, forwards, pendingStarts, listed, listedError, todo,
                   missing, failed, workVars, instVars>>

-----------------------------------------------------------------------------
(* An instance of package forwarding.                                      *)

(* It meets an error and sets its status, before writing it to the         *)
(* database; also while it is stopped, which closes its listener under it, *)
(* and again by another of its goroutines.                                 *)
InstanceFails(i) ==
    /\ i \in bound \cup draining
    /\ health' = [health EXCEPT ![i] = "error"]
    /\ reporting' = reporting \cup {i}
    /\ UNCHANGED <<dbVars, forwards, pendingStarts, syncVars, workVars, owner,
                   settings, bound, draining, stopping>>

WriteError(i) ==
    /\ i \in reporting
    /\ UpdateStatus(owner[i], "error")
    /\ reporting' = reporting \ {i}
    /\ UNCHANGED <<row, forwards, pendingStarts, syncVars, workVars, owner,
                   settings, health, bound, draining, stopping>>

(* cleanupMonitor: after Stop, or when a failure cancels its own context.  *)
(* It closes the listener and the connections registered by then.          *)
ReleaseResources(i) ==
    /\ i \in bound
    /\ i \in stopping \/ health[i] = "error"
    /\ bound' = bound \ {i}
    /\ draining' = draining \cup {i}
    /\ UNCHANGED <<dbVars, forwards, pendingStarts, syncVars, workVars, owner,
                   settings, health, reporting, stopping>>

(* The last goroutine ends.  Nothing obliges it to: a connection that is   *)
(* registered after the clean-up lasts as long as its peers keep it.       *)
GoroutinesEnd(i) ==
    /\ i \in draining
    /\ draining' = draining \ {i}
    /\ UNCHANGED <<dbVars, forwards, pendingStarts, syncVars, workVars, owner,
                   settings, health, bound, reporting, stopping>>

(* Mutant: Stop waits for the listener only.                               *)
StopReturnsEarly(i) ==
    /\ i \in stopping
    /\ i \notin bound
    /\ stopping' = stopping \ {i}
    /\ UNCHANGED <<dbVars, forwards, pendingStarts, syncVars, workVars, owner,
                   settings, health, bound, draining, reporting>>

(* Stop waits for the instance's goroutines; the object is then garbage.   *)
StopReturns(i) ==
    /\ i \in stopping
    /\ i \notin bound \cup draining \cup reporting
    /\ stopping' = stopping \ {i}
    /\ owner' = [owner EXCEPT ![i] = NoId]
    /\ settings' = [settings EXCEPT ![i] = NoRow]
    /\ health' = [health EXCEPT ![i] = "stopped"]
    /\ UNCHANGED <<dbVars, forwards, pendingStarts, syncVars, workVars, bound,
                   draining, reporting>>

-----------------------------------------------------------------------------
StartForward(w) ==
    \/ \E i \in Instances : StartSucceeds(w, i)
    \/ StartFails(w) \/ BuildFails(w)
    \/ Store(w) \/ MarkRunning(w) \/ ReportFailure(w) \/ Finish(w)

SyncStep ==
    \/ SyncList \/ SyncSkip \/ SyncStart \/ SyncStop \/ SyncCollect
    \/ \E id \in Ids : SyncLookup(id) \/ SkipRebuild(id) \/ Rebuild(id)
    \/ Replace \/ SyncDone

BootStep == Boot \/ BootDone \/ \E id \in Ids : BootStart(id)

Next ==
    \/ Crash \/ BootStep
    \/ \E id \in Ids : DeleteForward(id) \/ \E c \in Configs : CreateForward(id, c)
    \/ \E w \in Workers : StartForward(w)
    \/ SyncStep
    \/ \E i \in Instances :
          \/ InstanceFails(i) \/ WriteError(i)
          \/ ReleaseResources(i) \/ GoroutinesEnd(i) \/ StopReturns(i)

Spec == Init /\ [][Next]_vars

(***************************************************************************)
(* Fairness: the goroutines run and the ticker ticks; a failed instance    *)
(* reports, and one told to stop closes its listener.  A forward is not    *)
(* held back for ever: its backoff is bounded and counted from its last    *)
(* attempt, which is the strong fairness of SyncStart and Rebuild.  Nothing*)
(* obliges the users, an instance to fail or its goroutines to end, and so *)
(* Stop to return, or a killed daemon to be started.                       *)
(***************************************************************************)
Fairness ==
    /\ WF_vars(BootDone \/ \E id \in Ids : BootStart(id))
    /\ WF_vars(SyncStep)
    /\ \A id \in Ids :
          SF_vars(missing = id /\ SyncStart) /\ SF_vars(Rebuild(id))
    /\ \A w \in Workers : WF_vars(StartForward(w))
    /\ \A i \in Instances :
          /\ WF_vars(i \in stopping /\ ReleaseResources(i))
          /\ WF_vars(WriteError(i) \/ StopReturns(i))

FairSpec == Spec /\ Fairness

-----------------------------------------------------------------------------
(* The instances.                                                          *)

Contract(i) == INSTANCE ForwardInstance WITH
    health    <- health[i],
    bound     <- i \in bound \cup draining,
    reporting <- i \in reporting,
    stopping  <- i \in stopping

(* What is said of the service rests on instances that do only what        *)
(* ForwardInstance allows, and so on what ForwardLifecycle guarantees: no  *)
(* object is started that still holds something, none loses its listener   *)
(* before it fails or is stopped, none writes after its Stop has returned. *)
InstancesKeepContract ==
    [][\A i \in Instances : [Contract(i)!Next]_(Contract(i)!vars)]_vars

-----------------------------------------------------------------------------
(* What the service does.                                                  *)

Down == phase = "down"

(* rebuildErrorForward waits in the loop of sync for a Stop that itself    *)
(* waits for goroutines of the instance.  While it does, nothing at all is *)
(* reconciled.                                                             *)
SyncWaits == step[Syncer] = "replace" /\ current[Syncer] \in draining

(* None of these waits is for ever.  The code does not guarantee it (see   *)
(* GoroutinesEnd), and without it none of what follows holds; the Stops    *)
(* that sync does not wait for may hang.                                   *)
SyncGoesOn == []<>~SyncWaits

(* A stored forward is not for ever out of memory and not reported as      *)
(* failed: no interleaving of syncs, starts and deletions leaves it        *)
(* forgotten, with its mark in pendingStarts for instance, as long as sync *)
(* goes on.                                                                *)
Served(id) == forwards[id] # NoInstance \/ statusRow[id] = "error"

RowIsServed ==
    SyncGoesOn =>
        \A id \in Ids : []<>(Down \/ row[id] = NoRow \/ Served(id))

(* A deleted forward leaves s.forwards, also when the start of it that was *)
(* under way at its deletion completes later, as long as sync goes on.     *)
DeletedLeavesMap ==
    SyncGoesOn =>
        \A id \in Ids : []<>(row[id] # NoRow \/ forwards[id] = NoInstance)

Failed(id) == forwards[id] # NoInstance /\ health[forwards[id]] = "error"

(* An instance in memory that has failed is taken out of s.forwards, as    *)
(* long as sync goes on, even when the database says it is running (the    *)
(* start marks the forward running after it is stored, and may overwrite   *)
(* the error).                                                             *)
FailedIsReplaced == SyncGoesOn => \A id \in Ids : []<>~Failed(id)

-----------------------------------------------------------------------------
(* What comments of the code say, and the code does not do.                *)

(* "Sync loop will detect and start within 5 seconds": a created forward   *)
(* is pending until it is started.  One that is deleted and created again  *)
(* between two syncs is still in memory, and stays pending.                *)
PendingSettles ==
    \A id \in Ids :
        statusRow[id] = "pending" ~> Down \/ statusRow[id] # "pending"

(* "Sync loop will detect and stop": nothing goes on listening for a       *)
(* forward that was deleted.  A rebuild takes out of s.forwards whatever   *)
(* is there under the ID, and an instance stored meanwhile is lost.        *)
DeletedStopsListening ==
    \A id \in Ids : row[id] = NoRow ~> row[id] # NoRow \/ Listening(id) = {}
=============================================================================
