-------------------------- MODULE ServiceTracking --------------------------
(***************************************************************************)
(* The forward service with a history variable that tells the forwards for *)
(* which sync has started an instance while one was in memory.  Apart from *)
(* those, no instance is ever lost.                                        *)
(***************************************************************************)
EXTENDS ForwardService

VARIABLE raced    \* forwards started while in memory, in this process

trackVars == <<vars, raced>>

TrackInit == Init /\ raced = {}

TrackNext ==
    /\ Next
    /\ raced' =
          IF Down' THEN {}
          ELSE IF SyncStart /\ forwards[missing] # NoInstance
               THEN raced \cup {missing} ELSE raced

TrackSpec == TrackInit /\ [][TrackNext]_trackVars /\ Fairness

Alive == bound \cup draining \cup reporting

(* Somebody will stop it: it is in s.forwards, or a goroutine that is      *)
(* starting or replacing it holds it, or its Stop is under way.            *)
Tracked(i) ==
    \/ forwards[owner[i]] = i
    \/ \E w \in Workers : job[w] = owner[i] /\ current[w] = i
    \/ i \in stopping

(* An instance that listens, has goroutines left or an error still to      *)
(* write into the status of its forward, is one that somebody will stop,   *)
(* whatever syncs, rebuilds, deletions and failures are under way; unless  *)
(* the forward has been started twice, which sync does not quite exclude.  *)
TrackedUnlessRaced ==
    \A i \in Alive : owner[i] \in raced \/ Tracked(i)

-----------------------------------------------------------------------------
(* Why: the inductive invariant.                                           *)

(* The loops of Start and of sync go through rows they have read.          *)
LoopsOverRows ==
    /\ todo \subseteq Present(listed)
    /\ missing # NoId => phase = "scan" /\ listed[missing] # NoRow
    /\ phase \notin {"boot", "scan"} => todo = {}

(* Who works, and when: the goroutine of Start and of the loop while it    *)
(* boots or rebuilds, the others once marked in pendingStarts.             *)
WorkersInOrder ==
    /\ \A w \in Workers : step[w] # "idle" => job[w] \in Ids
    /\ step[Syncer] # "idle" => phase \in {"boot", "rebuild"}
    /\ \A id \in Ids : step[id] # "idle" =>
          /\ job[id] = id /\ step[id] # "replace"
          /\ id \in pendingStarts
          /\ phase \notin {"down", "boot"}

Starting(w) == step[w] \in {"replace", "start", "store"}

(* Nothing runs before Start, which meets each forward once.               *)
BootInOrder ==
    /\ phase = "down" =>
          /\ Alive = {}
          /\ \A id \in Ids : forwards[id] = NoInstance
    /\ phase = "boot" => \A id \in todo :
          forwards[id] = NoInstance /\ ~(Starting(Syncer) /\ job[Syncer] = id)

(* One goroutine at a time is about to store an instance of a forward, and *)
(* it finds nothing there; unless the forward was started twice.           *)
SoleStarter ==
    \A w \in Workers : Starting(w) =>
        \/ job[w] \in raced
        \/ /\ forwards[job[w]] = NoInstance /\ failed[job[w]] = NoInstance
           /\ \A v \in Workers : Starting(v) /\ job[v] = job[w] => v = w

(* An instance that has been started and not stored belongs to its starter.*)
StoredNext ==
    \A w \in Workers : step[w] = "store" =>
        /\ current[w] \in Instances
        /\ owner[current[w]] = job[w] /\ current[w] \notin stopping
        /\ \A id \in Ids :
              forwards[id] # current[w] /\ failed[id] # current[w]
        /\ \A v \in Workers :
              step[v] = "store" /\ current[v] = current[w] => v = w

(* What s.forwards and errorForwards say of a forward is an instance of it *)
(* that nobody has stopped; and they agree, unless it was started twice.   *)
OwnInstances ==
    \A id \in Ids :
        /\ forwards[id] # NoInstance =>
              owner[forwards[id]] = id /\ forwards[id] \notin stopping
        /\ failed[id] # NoInstance =>
              /\ owner[failed[id]] = id /\ failed[id] \notin stopping
              /\ phase = "rebuild"
              /\ forwards[id] = failed[id] \/ id \in raced

(* A listener is closed once, by an instance that has failed or is stopped.*)
ClosedInOrder ==
    \A i \in draining : i \notin bound /\ (i \in stopping \/ health[i] = "error")

(* TrackedUnlessRaced, without those who have only still to let it go.     *)
Held ==
    \A i \in Alive :
        /\ owner[i] \in Ids
        /\ \/ owner[i] \in raced
           \/ forwards[owner[i]] = i
           \/ i \in stopping
           \/ \E w \in Workers :
                 step[w] = "store" /\ job[w] = owner[i] /\ current[w] = i

ServiceIInv ==
    /\ TypeOK
    /\ LoopsOverRows /\ WorkersInOrder /\ BootInOrder
    /\ SoleStarter /\ StoredNext /\ OwnInstances /\ ClosedInOrder /\ Held
=============================================================================
