---------------------------- MODULE LeakRecovery ----------------------------
(***************************************************************************)
(* Remote forwards on one bind address of one host: the denied listen and  *)
(* its recovery (listen_denied.go and Start of RemoteListenToLocal and     *)
(* RemoteListenToRemote in src/internal/forwarding), behind the sibling    *)
(* guard of the service (leakRecoveryAllowed in service/forward_service.go)*)
(*                                                                         *)
(* The forwards share the pooled connection to the host, hence one SSH     *)
(* session.  The server knows only whether the session holds the address;  *)
(* the client (golang.org/x/crypto/ssh, external) keeps a list of its      *)
(* listeners, gives a connection to the first one with the address, and    *)
(* takes the first one off when any of them is closed.                     *)
(*                                                                         *)
(* Granularity.  A request to the server, the probe, and the evaluation of *)
(* the guard are steps; the guard is evaluated when a forward is built and *)
(* used when its listen has been denied.                                   *)
(***************************************************************************)
EXTENDS Integers, SequencesExt

CONSTANTS
    Records,    \* stored forwards, all remote and on the same bind
    Instances,  \* objects of package forwarding
    MaxCalls,   \* bound: API calls
    MaxFaults,  \* bound: what goes wrong by itself
    NoRecord, NoInstance

ASSUME LeakAssumption ==
    /\ NoRecord \notin Records /\ NoInstance \notin Instances
    /\ MaxCalls \in Nat /\ MaxFaults \in Nat

VARIABLES
    row,        \* table forwards
    forwards,   \* s.forwards
    rebuilt,    \* the record that sync is rebuilding
    awaited,    \* the instance whose Stop sync waits for
    owner,      \* forwardID
    allowed,    \* AllowLeakRecovery
    pc,         \* Start, then the life of an instance
    lost,       \* instances whose session is gone
    remote,     \* "free", "held" by the session, "foreign": by another one
    entries,    \* listeners of the client, oldest first
    calls, faults,
    seen,       \* history: the records the guard of an instance has seen
    raced       \* history: a recovery has met a forward its guard could not see

srvVars  == <<row, forwards, rebuilt, awaited>>
instVars == <<owner, allowed, pc, lost, seen>>
bindVars == <<remote, entries, raced>>
vars == <<srvVars, instVars, bindVars, calls, faults>>

Starts == {"listen", "denied", "cancel", "relisten"}

TypeOK ==
    /\ row \in SUBSET Records
    /\ forwards \in [Records -> Instances \cup {NoInstance}]
    /\ rebuilt \in Records \cup {NoRecord}
    /\ awaited \in Instances \cup {NoInstance}
    /\ owner \in [Instances -> Records \cup {NoRecord}]
    /\ allowed \in [Instances -> BOOLEAN]
    /\ pc \in [Instances -> Starts \cup
                  {"none", "running", "failing", "stopping", "closed"}]
    /\ lost \in SUBSET Instances
    /\ remote \in {"free", "held", "foreign"}
    /\ entries \in Seq(Instances) /\ IsInjective(entries)
    /\ calls \in 0..MaxCalls /\ faults \in 0..MaxFaults
    /\ seen \in [Instances -> SUBSET Records]
    /\ raced \in BOOLEAN

(* The daemon starts while the sshd may hold the address for an old one.   *)
Init ==
    /\ row \in SUBSET Records
    /\ forwards = [r \in Records |-> NoInstance]
    /\ rebuilt = NoRecord /\ awaited = NoInstance
    /\ owner = [i \in Instances |-> NoRecord]
    /\ allowed = [i \in Instances |-> FALSE]
    /\ pc = [i \in Instances |-> "none"]
    /\ lost = {}
    /\ remote \in {"free", "foreign"}
    /\ entries = <<>>
    /\ calls = 0 /\ faults = 0
    /\ seen = [i \in Instances |-> {}]
    /\ raced = FALSE

-----------------------------------------------------------------------------
Fault == faults < MaxFaults /\ faults' = faults + 1

Goto(i, step) == pc' = [pc EXCEPT ![i] = step]

Starting(r) == \E i \in Instances : owner[i] = r /\ pc[i] \in Starts

(* The API.                                                                *)
CreateForward(r) ==
    /\ calls < MaxCalls /\ calls' = calls + 1
    /\ r \notin row
    /\ row' = row \cup {r}
    /\ UNCHANGED <<forwards, rebuilt, awaited, instVars, bindVars, faults>>

DeleteForward(r) ==
    /\ calls < MaxCalls /\ calls' = calls + 1
    /\ r \in row
    /\ row' = row \ {r}
    /\ UNCHANGED <<forwards, rebuilt, awaited, instVars, bindVars, faults>>

-----------------------------------------------------------------------------
(* Mutant: a sibling that is not running is no obstacle.                   *)
LeakRecoveryAllowedUnlessRunning(r) ==
    \A s \in row \ {r} :
        forwards[s] = NoInstance \/ pc[forwards[s]] # "running"

(* A stored sibling is an obstacle unless its status is "stopped", which   *)
(* nothing writes to the database; pendingStarts is not looked at before.  *)
LeakRecoveryAllowed(r) == row \subseteq {r}

Build(i, r) ==
    /\ pc[i] = "none"
    /\ owner' = [owner EXCEPT ![i] = r]
    /\ allowed' = [allowed EXCEPT ![i] = LeakRecoveryAllowed(r)]
    /\ seen' = [seen EXCEPT ![i] = row]
    /\ Goto(i, "listen")
    /\ UNCHANGED lost

(* sync starts a stored forward that is not in memory, in a goroutine.     *)
SyncStart(i, r) ==
    /\ rebuilt = NoRecord
    /\ r \in row /\ forwards[r] = NoInstance /\ ~Starting(r)
    /\ Build(i, r)
    /\ UNCHANGED <<srvVars, bindVars, calls, faults>>

(* A deleted one is stopped in a goroutine that sync does not wait for.    *)
SyncStop(r) ==
    LET i == forwards[r] IN
    /\ rebuilt = NoRecord
    /\ r \notin row /\ i # NoInstance
    /\ forwards' = [forwards EXCEPT ![r] = NoInstance]
    /\ Goto(i, IF pc[i] = "closed" THEN "closed" ELSE "stopping")
    /\ UNCHANGED <<row, rebuilt, awaited, owner, allowed, lost, seen, bindVars,
                   calls, faults>>

(* A failed one is stopped and started again by sync itself.               *)
Rebuild(r) ==
    LET i == forwards[r] IN
    /\ rebuilt = NoRecord
    /\ i # NoInstance /\ pc[i] \in {"failing", "closed"}
    /\ forwards' = [forwards EXCEPT ![r] = NoInstance]
    /\ rebuilt' = r /\ awaited' = i
    /\ Goto(i, IF pc[i] = "closed" THEN "closed" ELSE "stopping")
    /\ UNCHANGED <<row, owner, allowed, lost, seen, bindVars, calls, faults>>

RebuildStart(i) ==
    /\ rebuilt \in row /\ awaited = NoInstance /\ ~Starting(rebuilt)
    /\ Build(i, rebuilt)
    /\ UNCHANGED <<srvVars, bindVars, calls, faults>>

RebuildGone ==
    /\ rebuilt \in Records \ row /\ awaited = NoInstance /\ ~Starting(rebuilt)
    /\ rebuilt' = NoRecord
    /\ UNCHANGED <<row, forwards, awaited, instVars, bindVars, calls, faults>>

-----------------------------------------------------------------------------
(* Start: the listen, and what follows when it is denied.                  *)

StartOver(i) == rebuilt' = IF rebuilt = owner[i] THEN NoRecord ELSE rebuilt

Discard(i) ==
    /\ Goto(i, "none")
    /\ owner' = [owner EXCEPT ![i] = NoRecord]
    /\ allowed' = [allowed EXCEPT ![i] = FALSE]
    /\ seen' = [seen EXCEPT ![i] = {}]
    /\ lost' = lost \ {i}

(* Start returns an error; no goroutine was started.                       *)
Fails(i) ==
    /\ Discard(i)
    /\ StartOver(i)
    /\ UNCHANGED <<row, forwards, awaited, bindVars, calls>>

(* The listen succeeds, and startForward stores the forward.               *)
Succeeds(i) ==
    /\ remote = "free"
    /\ remote' = "held"
    /\ entries' = Append(entries, i)
    /\ forwards' = [forwards EXCEPT ![owner[i]] = i]
    /\ Goto(i, "running")
    /\ StartOver(i)
    /\ UNCHANGED <<row, awaited, owner, allowed, lost, seen, raced, calls, faults>>

Listen(i) ==
    /\ pc[i] = "listen" /\ i \notin lost
    /\ \/ Succeeds(i)
       \/ /\ remote # "free"
          /\ Goto(i, "denied")
          /\ UNCHANGED <<srvVars, owner, allowed, lost, seen, bindVars, calls,
                         faults>>

(* Mutant: no recovery.                                                    *)
ProbeGivesUp(i) ==
    /\ pc[i] = "denied" /\ i \notin lost
    /\ Fails(i) /\ UNCHANGED faults

(* probeDeniedPort: "occupied", or "free": the listen is not tried again.  *)
Probe(i) ==
    /\ pc[i] = "denied" /\ i \notin lost
    /\ IF remote # "free" /\ allowed[i]
       THEN /\ Goto(i, "cancel")
            /\ UNCHANGED <<srvVars, owner, allowed, lost, seen, bindVars, calls,
                           faults>>
       ELSE Fails(i) /\ UNCHANGED faults

(* The guard of i cannot have seen the owner of a listener: it is the same *)
(* record, or was not stored then.                                         *)
Unseen(i, j) == owner[j] = owner[i] \/ owner[j] \notin seen[i]

(* cancelRemoteListener: the sshd retracts what the session holds, whoever *)
(* listens there; released is false if it holds nothing.                   *)
Cancel(i) ==
    /\ pc[i] = "cancel" /\ i \notin lost
    /\ IF remote = "held"
       THEN /\ remote' = "free"
            /\ raced' = (raced \/ \E j \in ToSet(entries) : Unseen(i, j))
            /\ Goto(i, "relisten")
            /\ UNCHANGED <<srvVars, owner, allowed, lost, seen, entries, calls,
                           faults>>
       ELSE Fails(i) /\ UNCHANGED faults

Relisten(i) ==
    /\ pc[i] = "relisten" /\ i \notin lost
    /\ \/ Succeeds(i)
       \/ remote # "free" /\ Fails(i) /\ UNCHANGED faults

(* The connection cannot be acquired, the probe has no result.             *)
StartFails(i) ==
    /\ pc[i] \in Starts
    /\ Fails(i)
    /\ IF i \in lost THEN UNCHANGED faults ELSE Fault

-----------------------------------------------------------------------------
(* A forward that runs.                                                    *)

(* Accept returns an error, or the end-to-end probe finds that nobody      *)
(* listens on the port: another listener's answer is as good as its own.   *)
NoticesEnd(i) ==
    /\ pc[i] = "running"
    /\ i \notin ToSet(entries) \/ remote = "free"
    /\ Goto(i, "failing")
    /\ UNCHANGED <<srvVars, owner, allowed, lost, seen, bindVars, calls, faults>>

InstanceFails(i) ==
    /\ pc[i] = "running"
    /\ Fault
    /\ Goto(i, "failing")
    /\ UNCHANGED <<srvVars, owner, allowed, lost, seen, bindVars, calls>>

(* listener.Close: the client removes the first listener of the address,   *)
(* and the sshd is asked to retract it, which may not be delivered.        *)
CloseListener(i) ==
    IF i \in lost
    THEN UNCHANGED <<bindVars, faults>>
    ELSE /\ entries' = IF entries = <<>> THEN <<>> ELSE Tail(entries)
         /\ raced' = (raced /\ entries' # <<>>)
         /\ \/ remote' = (IF remote = "held" THEN "free" ELSE remote)
               /\ UNCHANGED faults
            \/ Fault /\ UNCHANGED remote

(* Mutant: a failure does not cancel the context of the forward.           *)
CloseWhenStopped(i) ==
    /\ pc[i] = "stopping"
    /\ CloseListener(i)
    /\ Goto(i, "closed")
    /\ UNCHANGED <<srvVars, owner, allowed, lost, seen, calls>>

(* cleanupMonitor: after Stop, or once a monitor has seen the failure.     *)
Close(i) ==
    /\ pc[i] \in {"failing", "stopping"}
    /\ CloseListener(i)
    /\ Goto(i, "closed")
    /\ UNCHANGED <<srvVars, owner, allowed, lost, seen, calls>>

(* Mutant: Stop does not wait for the accept loop.                         *)
StopReturnsEarly(i) ==
    /\ pc[i] = "closed"
    /\ forwards[owner[i]] # i
    /\ Discard(i)
    /\ awaited' = IF awaited = i THEN NoInstance ELSE awaited
    /\ UNCHANGED <<row, forwards, rebuilt, bindVars, calls, faults>>

(* Stop waits for the accept loop, which waits as long as its listener is  *)
(* in the client's list.                                                   *)
StopReturns(i) ==
    /\ pc[i] = "closed" /\ i \notin ToSet(entries)
    /\ forwards[owner[i]] # i
    /\ Discard(i)
    /\ awaited' = IF awaited = i THEN NoInstance ELSE awaited
    /\ UNCHANGED <<row, forwards, rebuilt, bindVars, calls, faults>>

-----------------------------------------------------------------------------
(* The network: the session is lost, and the sshd finds out later.  Who    *)
(* has not listened acquires the next session.                             *)
SessionLost ==
    /\ Fault
    /\ entries' = <<>> /\ raced' = FALSE
    /\ lost' = {i \in Instances : pc[i] \notin {"none", "listen"}}
    /\ remote' = IF remote = "held" THEN "foreign" ELSE remote
    /\ UNCHANGED <<srvVars, owner, allowed, pc, seen, calls>>

SshdReclaims ==
    /\ remote = "foreign"
    /\ remote' = "free"
    /\ UNCHANGED <<srvVars, instVars, entries, raced, calls, faults>>

-----------------------------------------------------------------------------
Start(i) ==
    \/ Listen(i) \/ Probe(i) \/ Cancel(i) \/ Relisten(i)
    \/ i \in lost /\ StartFails(i)

Next ==
    \/ \E r \in Records :
          \/ CreateForward(r) \/ DeleteForward(r)
          \/ SyncStop(r) \/ Rebuild(r)
          \/ \E i \in Instances : SyncStart(i, r)
    \/ \E i \in Instances :
          \/ RebuildStart(i) \/ Start(i) \/ StartFails(i)
          \/ NoticesEnd(i) \/ InstanceFails(i) \/ Close(i) \/ StopReturns(i)
    \/ RebuildGone
    \/ SessionLost \/ SshdReclaims

Spec == Init /\ [][Next]_vars

(***************************************************************************)
(* Fairness: requests are answered or fail with their session, the         *)
(* monitors of a forward probe and clean up, the sshd reclaims what a dead *)
(* session held, and sync comes to every record, whose backoff is bounded  *)
(* (strong fairness, since it may be busy with another).  Nothing obliges  *)
(* a fault to happen.                                                      *)
(***************************************************************************)
Fairness ==
    /\ \A r \in Records :
          /\ SF_vars(\E i \in Instances : SyncStart(i, r))
          /\ SF_vars(SyncStop(r)) /\ SF_vars(Rebuild(r))
    /\ WF_vars(RebuildGone \/ \E i \in Instances : RebuildStart(i))
    /\ \A i \in Instances :
          WF_vars(Start(i) \/ NoticesEnd(i) \/ Close(i) \/ StopReturns(i))
    /\ WF_vars(SshdReclaims)

FairSpec == Spec /\ Fairness

-----------------------------------------------------------------------------
(* Properties.                                                             *)

(* A forward that waits for connections is alone to do so on its bind, and *)
(* the sshd listens for it: neither the recovery of a start nor the close  *)
(* of another forward takes its listener away; unless a recovery has met a *)
(* forward that was not there when its guard looked, or of the same record.*)
OneHearerUnlessRaced ==
    ~raced => Len(entries) <= 1 /\ (entries # <<>> => remote = "held")

(* Even then, the Stop that sync waits for returns, although the accept    *)
(* loop ends only when its own listener is taken off the list: a forward   *)
(* whose listener was removed for another's closes, too, and frees it.     *)
SyncNotBlocked == \A i \in Instances : awaited = i ~> awaited # i

Serves(r) ==
    LET i == forwards[r] IN
    /\ i # NoInstance
    /\ pc[i] = "running"
    /\ remote = "held" /\ entries # <<>> /\ entries[1] = i

(* The only stored forward of a bind comes to serve it for good once the   *)
(* network is well: whatever the forwards of the bind did to each other    *)
(* and whichever listener was leaked, its own recovery puts it right.  Two *)
(* stored ones have no such promise: each keeps the other from retracting  *)
(* a leaked listener, and after a race they may go on to retract each      *)
(* other's, each listening while the other has yet to close.               *)
LoneForwardServes ==
    \A r \in Records : <>[](row = {r}) => <>[]Serves(r)

-----------------------------------------------------------------------------
(* Why OneHearerUnlessRaced: the inductive invariant.                      *)

(* Who is allowed to recover has seen no record but its own.               *)
GuardSeen ==
    \A i \in Instances :
        /\ pc[i] \in {"cancel", "relisten"} => allowed[i]
        /\ allowed[i] => seen[i] \subseteq {owner[i]}

(* The listeners of the client are those of forwards that have started.    *)
ListenersStarted ==
    \A i \in ToSet(entries) :
        pc[i] \in {"running", "failing", "stopping", "closed"}

LeakIInv == TypeOK /\ GuardSeen /\ ListenersStarted /\ OneHearerUnlessRaced
=============================================================================
