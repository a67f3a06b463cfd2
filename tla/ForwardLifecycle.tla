-------------------------- MODULE ForwardLifecycle --------------------------
(***************************************************************************)
(* The life of one forward of src/internal/forwarding: LocalListenToRemote *)
(* (llr), RemoteListenToLocal (rll) or RemoteListenToRemote (rlr), with    *)
(* the connections it accepts and the channels of connection/              *)
(* multiplexed_forward.go they use.                                        *)
(*                                                                         *)
(* pc[g] is where goroutine g is: Start and Stop, which the service calls; *)
(* the health monitor, the end-to-end monitor, the accept loop and         *)
(* cleanupMonitor; and handleConnection, one for each connection.          *)
(*                                                                         *)
(* Granularity.  A critical section (statusMu, connMu), a call of the pool *)
(* or of the network, and every access to a variable shared without a lock *)
(* (the kept connections, the closed flag of a channel) is a step.  A nil  *)
(* dereference or a second close of a channel ends the process (panicked). *)
(***************************************************************************)
EXTENDS Integers

CONSTANTS
    Conns,      \* connections accepted in the life of a forward
    Monitors    \* the ones that check anything before the forward ends

Kept == {"source", "target"}    \* connections a forward keeps
Goroutines == Monitors \cup {"accept", "cleanup"} \cup Conns   \* of wg
Closers == {"copier", "handler", "cleanup"}

ASSUME NamesAssumption ==
    /\ Monitors \subseteq {"health", "e2e"}
    /\ Conns \cap ({"start", "stop", "accept", "cleanup", "health", "e2e"}
                    \cup Kept) = {}

VARIABLES
    kind,       \* "llr", "rll" or "rlr"
    status,
    pc,
    cancelled,  \* the context of the forward is done
    once,       \* cleanupOnce: "unused", "busy", "used"
    done,       \* healthCheckDone is closed
    listener,   \* "none", "open", "closed"
    pooled,     \* the fields for kept connections that are not nil
    registered, \* activeConns, connMap
    severed,    \* connections closed at either end
    channel,    \* SSHChannelConn: "none", "open", "closed"
    closing,    \* <<c, k>>: k found the channel of c open and will close it
    copying,    \* connections whose bidirectionalCopy has a goroutine left
    refs,       \* references to pooled connections: acquired minus released
    panicked

vars == <<kind, status, pc, cancelled, once, done, listener, pooled,
          registered, severed, channel, closing, copying, refs, panicked>>

shared == <<kind, cancelled, once, done, listener, pooled, panicked>>
connVars == <<registered, severed, channel, closing, copying>>

PCs == {"none", "exit", "set", "write",
        "source", "target", "listen", "run", "spawn", "check", "undo",
        "close", "report", "returned", "failing", "failed", "refused",
        "loop", "observe", "probe",
        "listener", "conns", "release", "status", "wait",
        "accepted", "dial", "register", "copy", "leave", "unregister"}

TypeOK ==
    /\ kind \in {"llr", "rll", "rlr"}
    /\ status \in {"stopped", "error", "running"}
    /\ pc \in [Goroutines \cup {"start", "stop"} -> PCs]
    /\ cancelled \in BOOLEAN
    /\ once \in {"unused", "busy", "used"}
    /\ done \in BOOLEAN
    /\ listener \in {"none", "open", "closed"}
    /\ pooled \in SUBSET Kept
    /\ registered \in SUBSET Conns
    /\ severed \in SUBSET Conns
    /\ channel \in [Conns -> {"none", "open", "closed"}]
    /\ closing \in SUBSET (Conns \X Closers)
    /\ copying \in SUBSET Conns
    /\ refs \in [Kept \cup Monitors \cup Conns -> -2 .. 1]
    /\ panicked \in BOOLEAN

(* The connections a forward of this kind keeps while it runs.             *)
Keeps == CASE kind = "llr" -> {}
           [] kind = "rll" -> {"source"}
           [] kind = "rlr" -> Kept

Init ==
    /\ kind \in {"llr", "rll", "rlr"}
    /\ status = "stopped"
    /\ pc = [g \in Goroutines \cup {"start", "stop"} |-> "none"]
    /\ cancelled = FALSE /\ once = "unused" /\ done = FALSE
    /\ listener = "none"
    /\ pooled = {} /\ registered = {} /\ severed = {}
    /\ channel = [c \in Conns |-> "none"]
    /\ closing = {} /\ copying = {}
    /\ refs = [h \in Kept \cup Monitors \cup Conns |-> 0]
    /\ panicked = FALSE

-----------------------------------------------------------------------------
At(g, l) == pc[g] = l

Goto(g, l) == pc' = [pc EXCEPT ![g] = l]

Take(h) == refs' = [refs EXCEPT ![h] = @ + 1]
Drop(h) == refs' = [refs EXCEPT ![h] = @ - 1]
DropAll(H) == refs' = [h \in DOMAIN refs |-> IF h \in H THEN refs[h] - 1 ELSE refs[h]]

(* setErrorStatus: the status here, the write to the database in the next  *)
(* step of the goroutine.                                                  *)
SetErrorStatus(g) == status' = "error" /\ Goto(g, "write")

Panic ==
    /\ panicked' = TRUE
    /\ UNCHANGED <<kind, status, pc, cancelled, once, done, listener, pooled,
                   connVars, refs>>

(* A goroutine that found something wrong before, and is to report it now. *)
Report(g) ==
    /\ At(g, "set")
    /\ SetErrorStatus(g)
    /\ UNCHANGED <<shared, connVars, refs>>

CloseDone == done' = TRUE /\ panicked' = done

-----------------------------------------------------------------------------
(* Start.                                                                  *)

Begin ==
    /\ At("start", "none")
    /\ status' = "stopped"
    /\ Goto("start", IF kind = "llr" THEN "listen" ELSE "source")
    /\ UNCHANGED <<shared, connVars, refs>>

AcquireSource ==
    /\ At("start", "source")
    /\ Take("source")
    /\ Goto("start", IF kind = "rlr" THEN "target" ELSE "listen")
    /\ UNCHANGED <<shared, connVars, status>>

AcquireTarget ==
    /\ At("start", "target")
    /\ Take("target")
    /\ Goto("start", "listen")
    /\ UNCHANGED <<shared, connVars, status>>

(* Mutant: the connection to the source is forgotten.                      *)
AcquireFailsKeeping ==
    /\ At("start", "source") \/ At("start", "target")
    /\ Goto("start", "failing")
    /\ UNCHANGED <<shared, connVars, status, refs>>

(* Releases what was acquired before; "failed to start" is reported.       *)
AcquireFails ==
    /\ At("start", "source") \/ At("start", "target")
    /\ DropAll(IF At("start", "target") THEN {"source"} ELSE {})
    /\ Goto("start", "failing")
    /\ UNCHANGED <<shared, connVars, status>>

(* Also after a denied listen was recovered.                               *)
ListenSucceeds ==
    /\ At("start", "listen")
    /\ listener' = "open"
    /\ pooled' = Keeps
    /\ Goto("start", "run")
    /\ UNCHANGED <<kind, cancelled, once, done, panicked, connVars, status, refs>>

ListenFails ==
    /\ At("start", "listen")
    /\ DropAll(Keeps)
    /\ Goto("start", "failing")
    /\ UNCHANGED <<shared, connVars, status>>

ReportFailedStart ==
    /\ At("start", "failing")
    /\ status' = "error"
    /\ Goto("start", "failed")
    /\ UNCHANGED <<shared, connVars, refs>>

(* The error is written, Start returns it, and the service calls Stop.     *)
Refuse ==
    /\ At("start", "failed")
    /\ pc' = [pc EXCEPT !["start"] = "refused", !["stop"] = "status"]
    /\ UNCHANGED <<shared, connVars, status, refs>>

SetRunning ==
    /\ At("start", "run")
    /\ status' = "running"
    /\ Goto("start", "spawn")
    /\ UNCHANGED <<shared, connVars, refs>>

(* None of them is waited for before Start returns, so that the order of   *)
(* the four go statements does not matter.                                 *)
Spawn ==
    /\ At("start", "spawn")
    /\ pc' = [g \in DOMAIN pc |->
          CASE g = "start" -> "check"
            [] g \in Monitors \cup {"accept"} -> "loop"
            [] g = "cleanup" -> "wait"
            [] OTHER -> pc[g]]
    /\ UNCHANGED <<shared, connVars, status, refs>>

(* The deferred functions: undo what was done if the forward is not running*)
(* by now, and report it.                                                  *)
CheckStarted ==
    /\ At("start", "check")
    /\ IF status = "running"
       THEN Goto("start", "report") /\ UNCHANGED <<once, done, panicked>>
       ELSE /\ once # "busy"
            /\ IF once = "used"
               THEN Goto("start", "report") /\ UNCHANGED <<once, done, panicked>>
               ELSE /\ once' = "busy" /\ CloseDone
                    /\ Goto("start", "undo")
    /\ UNCHANGED <<kind, cancelled, listener, pooled, connVars, status, refs>>

(* Mutant: the partial cleanup of llr, which keeps no connection, copied.  *)
UndoKeeps ==
    /\ At("start", "undo")
    /\ Goto("start", "close")
    /\ UNCHANGED <<shared, connVars, status, refs>>

UndoRelease ==
    /\ At("start", "undo")
    /\ DropAll(pooled) /\ pooled' = {}
    /\ Goto("start", "close")
    /\ UNCHANGED <<kind, cancelled, once, done, listener, panicked, connVars,
                   status>>

UndoListen ==
    /\ At("start", "close")
    /\ listener' = "closed"
    /\ once' = "used"
    /\ Goto("start", "report")
    /\ UNCHANGED <<kind, cancelled, done, pooled, panicked, connVars, status,
                   refs>>

(* The first of the deferred functions runs last and asks again.           *)
ReportStart ==
    /\ At("start", "report")
    /\ Goto("start", IF status = "running" THEN "returned" ELSE "set")
    /\ UNCHANGED <<shared, connVars, status, refs>>

StartWrites ==
    /\ At("start", "write")
    /\ Goto("start", "returned")
    /\ UNCHANGED <<shared, connVars, status, refs>>

-----------------------------------------------------------------------------
(* The health monitor and the end-to-end monitor.                          *)

(* select: the context, healthCheckDone or the ticker.                     *)
MonitorQuits(g) ==
    /\ At(g, "loop")
    /\ cancelled \/ done
    /\ Goto(g, "exit")
    /\ UNCHANGED <<shared, connVars, status, refs>>

(* A check that begins when the forward is not running fails, also because *)
(* it was stopped.                                                         *)
CheckNotRunning(g) ==
    /\ At(g, "loop")
    /\ status # "running"
    /\ SetErrorStatus(g)
    /\ UNCHANGED <<shared, connVars, refs>>

(* llr takes a connection from the pool for the time of the check.  When   *)
(* it gets none, the health check fails; the probe is inconclusive.        *)
LlrCheck(g) ==
    /\ kind = "llr" /\ status = "running"
    /\ At(g, "loop")
    /\ Take(g)
    /\ Goto(g, "observe")
    /\ UNCHANGED <<shared, connVars, status>>

LlrNoConnection ==
    /\ kind = "llr" /\ status = "running"
    /\ At("health", "loop")
    /\ Goto("health", "set")
    /\ UNCHANGED <<shared, connVars, status, refs>>

(* Mutant: the deferred release is missing.                                *)
LlrPassesKeeping(g) ==
    /\ kind = "llr" /\ At(g, "observe")
    /\ Goto(g, "loop")
    /\ UNCHANGED <<shared, connVars, status, refs>>

LlrPasses(g) ==
    /\ kind = "llr" /\ At(g, "observe")
    /\ Drop(g)
    /\ Goto(g, "loop")
    /\ UNCHANGED <<shared, connVars, status>>

LlrFails(g) ==
    /\ kind = "llr" /\ At(g, "observe")
    /\ Drop(g)
    /\ SetErrorStatus(g)
    /\ UNCHANGED <<shared, connVars>>

(* rll and rlr observe the connections they keep, when they are not nil    *)
(* (the end-to-end probe: the source).                                     *)
RemoteCheck(g) ==
    /\ kind # "llr" /\ status = "running"
    /\ At(g, "loop")
    /\ "source" \in pooled
    /\ Goto(g, "source")
    /\ UNCHANGED <<shared, connVars, status, refs>>

(* The field was tested, and is read again for its use (unless the compiler*)
(* has kept the value, as it may).                                         *)
RemoteUse(g) ==
    /\ \/ At(g, "source") /\ Goto(g, "observe")
       \/ At(g, "target") /\ Goto(g, "probe")
    /\ UNCHANGED <<shared, connVars, status, refs>>

RemoteNil(g) ==
    /\ pc[g] \in Kept \ pooled
    /\ Panic

RemotePasses(g) ==
    /\ kind # "llr"
    /\ \/ /\ At(g, "observe")
          /\ Goto(g, IF g = "health" /\ "target" \in pooled
                     THEN "target" ELSE "loop")
       \/ At(g, "probe") /\ Goto(g, "loop")
    /\ UNCHANGED <<shared, connVars, status, refs>>

RemoteFails(g) ==
    /\ kind # "llr"
    /\ At(g, "observe") \/ At(g, "probe")
    /\ SetErrorStatus(g)
    /\ UNCHANGED <<shared, connVars, refs>>

MonitorCancels(g) ==
    /\ At(g, "write")
    /\ cancelled' = TRUE
    /\ Goto(g, "exit")
    /\ UNCHANGED <<kind, once, done, listener, pooled, panicked, connVars,
                   status, refs>>

-----------------------------------------------------------------------------
(* The accept loop.                                                        *)

AcceptStops ==
    /\ At("accept", "loop")
    /\ cancelled
    /\ Goto("accept", "exit")
    /\ UNCHANGED <<shared, connVars, status, refs>>

AcceptConn(c) ==
    /\ At("accept", "loop")
    /\ listener = "open"
    /\ At(c, "none")
    /\ Goto(c, "accepted")
    /\ UNCHANGED <<shared, connVars, status, refs>>

(* The listener was closed, or failed.  The text "use of closed network    *)
(* connection" is compared with a longer one, and never found.             *)
AcceptFails ==
    /\ At("accept", "loop")
    /\ kind # "llr" => ~cancelled
    /\ Goto("accept", "failing")
    /\ UNCHANGED <<shared, connVars, status, refs>>

(* Mutant: exitedWithError is not set.                                     *)
AcceptQuits ==
    /\ At("accept", "failing")
    /\ Goto("accept", "exit")
    /\ UNCHANGED <<shared, connVars, status, refs>>

(* The deferred function: the status is tested, then set.                  *)
AcceptVerdict ==
    /\ At("accept", "failing")
    /\ Goto("accept", IF status = "running" THEN "set" ELSE "exit")
    /\ UNCHANGED <<shared, connVars, status, refs>>

(* The accept loop does not cancel anything: the service has to stop it.   *)
WritesAndEnds(g) ==
    /\ At(g, "write")
    /\ Goto(g, "exit")
    /\ UNCHANGED <<shared, connVars, status, refs>>

-----------------------------------------------------------------------------
(* handleConnection.                                                       *)

Closing(c) == \E k \in Closers : <<c, k>> \in closing

(* cleanupMonitor closes the registered connections with connMu held.      *)
ConnMuFree == \A c \in Conns : <<c, "cleanup">> \notin closing

AcquireForChannel(c) ==
    /\ kind = "llr" /\ At(c, "accepted")
    /\ Take(c)
    /\ Goto(c, "dial")
    /\ UNCHANGED <<shared, connVars, status>>

NoConnection(c) ==
    /\ kind = "llr" /\ At(c, "accepted")
    /\ Goto(c, "set")
    /\ UNCHANGED <<shared, connVars, status, refs>>

OpenChannel(c) ==
    /\ At(c, "dial")
    /\ channel' = [channel EXCEPT ![c] = "open"]
    /\ Goto(c, "register")
    /\ UNCHANGED <<shared, registered, severed, closing, copying, status, refs>>

(* Mutant: the connection acquired for the channel is kept.                *)
OpenChannelFailsKeeping(c) ==
    /\ At(c, "dial")
    /\ Goto(c, "set")
    /\ UNCHANGED <<shared, connVars, status, refs>>

OpenChannelFails(c) ==
    /\ At(c, "dial")
    /\ Drop(c)
    /\ Goto(c, "set")
    /\ UNCHANGED <<shared, connVars, status>>

DialLocal(c) ==
    /\ kind = "rll" /\ At(c, "accepted")
    /\ Goto(c, "register") \/ Goto(c, "exit")
    /\ UNCHANGED <<shared, connVars, status, refs>>

(* targetPooledConn is read without a lock; cleanupMonitor sets it to nil. *)
DialTarget(c) ==
    /\ kind = "rlr" /\ At(c, "accepted")
    /\ IF "target" \in pooled
       THEN /\ Goto(c, "register") \/ Goto(c, "exit")
            /\ UNCHANGED <<shared, connVars, status, refs>>
       ELSE Panic

Register(c) ==
    /\ At(c, "register")
    /\ ConnMuFree
    /\ registered' = registered \cup {c}
    /\ copying' = copying \cup {c}
    /\ Goto(c, "copy")
    /\ UNCHANGED <<shared, severed, channel, closing, status, refs>>

(* One of the two ends is closed by its peer, or lost.                     *)
PeerCloses(c) ==
    /\ At(c, "copy")
    /\ c \notin severed
    /\ severed' = severed \cup {c}
    /\ UNCHANGED <<shared, registered, channel, closing, copying, pc, status,
                   refs>>

(* SSHChannelConn.Close by k, first half: the closed flag is tested and    *)
(* set, without synchronisation.                                           *)
FindsOpen(c, k) ==
    /\ channel[c] = "open"
    /\ closing' = closing \cup {<<c, k>>}

FindsClosed(c) == channel[c] # "open" \/ Closing(c)

(* bidirectionalCopy returns when the first of its two copiers does, and   *)
(* closes both ends; for rll and rlr these are no channels of the pool.    *)
LeaveCopy(c) ==
    /\ At(c, "copy")
    /\ c \in severed
    /\ \/ FindsOpen(c, "handler") /\ Goto(c, "leave")
       \/ FindsClosed(c) /\ Goto(c, "unregister") /\ UNCHANGED closing
    /\ UNCHANGED <<shared, registered, severed, channel, copying, status, refs>>

(* The copier to the channel closes it, too; no WaitGroup waits for it.    *)
CopierEnds(c) ==
    /\ c \in copying
    /\ c \in severed
    /\ copying' = copying \ {c}
    /\ FindsOpen(c, "copier") \/ (FindsClosed(c) /\ UNCHANGED closing)
    /\ UNCHANGED <<shared, registered, severed, channel, pc, status, refs>>

(* SSHChannelConn.Close, second half: close, and release to the pool.      *)
ReleaseChannel(c, k) ==
    /\ <<c, k>> \in closing
    /\ closing' = closing \ {<<c, k>>}
    /\ channel' = [channel EXCEPT ![c] = "closed"]
    /\ Drop(c)
    /\ IF k = "handler" THEN Goto(c, "unregister") ELSE UNCHANGED pc
    /\ UNCHANGED <<shared, registered, severed, copying, status>>

Unregister(c) ==
    /\ At(c, "unregister")
    /\ ConnMuFree
    /\ registered' = registered \ {c}
    /\ Goto(c, "exit")
    /\ UNCHANGED <<shared, severed, channel, closing, copying, status, refs>>

-----------------------------------------------------------------------------
(* cleanupMonitor.                                                         *)

(* Mutant: no cleanupOnce.                                                 *)
CleanupAgain ==
    /\ At("cleanup", "wait")
    /\ cancelled
    /\ once # "busy"
    /\ once' = "busy" /\ CloseDone
    /\ Goto("cleanup", "listener")
    /\ UNCHANGED <<kind, cancelled, listener, pooled, connVars, status, refs>>

CleanupBegins ==
    /\ At("cleanup", "wait")
    /\ cancelled
    /\ once # "busy"
    /\ IF once = "used"
       THEN Goto("cleanup", "exit") /\ UNCHANGED <<once, done, panicked>>
       ELSE /\ once' = "busy" /\ CloseDone
            /\ Goto("cleanup", "listener")
    /\ UNCHANGED <<kind, cancelled, listener, pooled, connVars, status, refs>>

CloseListener ==
    /\ At("cleanup", "listener")
    /\ listener' = "closed"
    /\ Goto("cleanup", "conns")
    /\ UNCHANGED <<kind, cancelled, once, done, pooled, panicked, connVars,
                   status, refs>>

(* Mutant: activeConns is emptied, and nothing closed.                     *)
ForgetConns ==
    /\ At("cleanup", "conns")
    /\ registered' = {}
    /\ Goto("cleanup", "release")
    /\ UNCHANGED <<shared, severed, channel, closing, copying, status, refs>>

(* A channel that somebody else is closing may be found open or closed.    *)
CloseConns ==
    /\ At("cleanup", "conns")
    /\ severed' = severed \cup registered
    /\ \E open \in SUBSET {c \in registered : channel[c] = "open"} :
          /\ \A c \in registered \ open : FindsClosed(c)
          /\ closing' = closing \cup (open \X {"cleanup"})
    /\ registered' = {}
    /\ Goto("cleanup", "release")
    /\ UNCHANGED <<shared, channel, copying, status, refs>>

ReleaseKept ==
    /\ At("cleanup", "release")
    /\ ConnMuFree
    /\ DropAll(pooled) /\ pooled' = {}
    /\ once' = "used"
    /\ Goto("cleanup", "exit")
    /\ UNCHANGED <<kind, cancelled, done, listener, panicked, connVars, status>>

-----------------------------------------------------------------------------
(* Stop; for a forward in s.forwards, the service cancels its context first*)

StopWrapper ==
    /\ At("start", "returned")
    /\ At("stop", "none")
    /\ cancelled' = TRUE
    /\ Goto("stop", "status")
    /\ UNCHANGED <<kind, once, done, listener, pooled, panicked, connVars,
                   status, refs>>

SetStopped ==
    /\ At("stop", "status")
    /\ status' = "stopped"
    /\ cancelled' = TRUE
    /\ Goto("stop", "wait")
    /\ UNCHANGED <<kind, once, done, listener, pooled, panicked, connVars, refs>>

(* Mutant: handleConnection is not counted in the WaitGroup.               *)
StopWaitsForFour ==
    /\ At("stop", "wait")
    /\ \A g \in Goroutines \ Conns : pc[g] \in {"none", "exit"}
    /\ Goto("stop", "returned")
    /\ UNCHANGED <<shared, connVars, status, refs>>

StopReturns ==
    /\ At("stop", "wait")
    /\ \A g \in Goroutines : pc[g] \in {"none", "exit"}
    /\ Goto("stop", "returned")
    /\ UNCHANGED <<shared, connVars, status, refs>>

-----------------------------------------------------------------------------
Start ==
    \/ Begin \/ AcquireSource \/ AcquireTarget \/ AcquireFails
    \/ ListenSucceeds \/ ListenFails \/ ReportFailedStart \/ Refuse
    \/ SetRunning \/ Spawn \/ CheckStarted \/ UndoRelease \/ UndoListen
    \/ ReportStart \/ Report("start") \/ StartWrites

Check(g) ==
    \/ CheckNotRunning(g) \/ LlrCheck(g) \/ RemoteCheck(g)
    \/ g = "health" /\ LlrNoConnection

Observe(g) ==
    \/ LlrPasses(g) \/ LlrFails(g)
    \/ RemoteUse(g) \/ RemoteNil(g) \/ RemotePasses(g) \/ RemoteFails(g)
    \/ Report(g) \/ MonitorCancels(g)

AcceptEnds == AcceptVerdict \/ Report("accept") \/ WritesAndEnds("accept")

Handle(c) ==
    \/ AcquireForChannel(c) \/ NoConnection(c) \/ OpenChannel(c)
    \/ OpenChannelFails(c) \/ DialLocal(c) \/ DialTarget(c) \/ Register(c)
    \/ LeaveCopy(c) \/ ReleaseChannel(c, "handler") \/ Unregister(c)
    \/ Report(c) \/ WritesAndEnds(c)

Copier(c) == CopierEnds(c) \/ ReleaseChannel(c, "copier")

Cleanup ==
    \/ CleanupBegins \/ CloseListener \/ CloseConns \/ ReleaseKept
    \/ \E c \in Conns : ReleaseChannel(c, "cleanup")

Stop == SetStopped \/ StopReturns

Over == At("stop", "returned") /\ copying = {} /\ closing = {}

(* Nothing is left to do, or the process is gone.                          *)
Terminated == (panicked \/ Over) /\ UNCHANGED vars

Next ==
    \/ /\ ~panicked
       /\ \/ Start
          \/ \E g \in Monitors : MonitorQuits(g) \/ Check(g) \/ Observe(g)
          \/ AcceptStops \/ AcceptFails \/ AcceptEnds
          \/ \E c \in Conns :
                \/ AcceptConn(c) \/ PeerCloses(c)
                \/ Handle(c) \/ Copier(c)
          \/ Cleanup
          \/ StopWrapper \/ Stop
    \/ Terminated

Spec == Init /\ [][Next]_vars

(***************************************************************************)
(* Fairness: every goroutine runs on, once it can; calls of the pool and   *)
(* of the network return (the pool's keepalives end the ones of a dead     *)
(* connection).  A monitor selects at random among the channels that are   *)
(* ready, so that it cannot overlook the end for ever.  Accept has a       *)
(* deadline for llr only.  Nobody is obliged to connect, to close a        *)
(* connection, or to stop the forward.                                     *)
(***************************************************************************)
Fairness ==
    /\ WF_vars(~panicked /\ Start)
    /\ \A g \in Monitors :
          /\ SF_vars(~panicked /\ MonitorQuits(g))
          /\ WF_vars(~panicked /\ Observe(g))
    /\ WF_vars(~panicked /\ \/ AcceptEnds
                            \/ (kind = "llr" \/ listener = "closed") /\ AcceptStops)
    /\ \A c \in Conns :
          /\ WF_vars(~panicked /\ Handle(c))
          /\ WF_vars(~panicked /\ Copier(c))
    /\ WF_vars(~panicked /\ Cleanup)
    /\ WF_vars(~panicked /\ Stop)

FairSpec == Spec /\ Fairness

-----------------------------------------------------------------------------
(* The abstract specification, and how it is implemented.                  *)

Ran ==
    /\ pc["start"] \in {"spawn", "check", "undo", "close", "report", "set",
                        "write", "returned"}
    /\ ~panicked

Alive(g) == pc[g] \notin {"none", "exit", "returned"}

Health == IF Ran THEN status ELSE "stopped"

Bound ==
    /\ Ran
    /\ listener = "open" \/ \E g \in Goroutines \cup {"start"} : Alive(g)

Reporting == Ran /\ \E g \in Goroutines \cup {"start"} : At(g, "write")

Stopping == Ran /\ pc["stop"] \in {"status", "wait"}

Contract == INSTANCE ForwardInstance WITH
    health <- Health, bound <- Bound, reporting <- Reporting,
    stopping <- Stopping

(* A forward, whichever of its goroutines fail and in whatever order they  *)
(* stop, is to the service what ForwardInstance says: it holds on to its   *)
(* listener until it fails or is stopped, and no error is written once     *)
(* Stop has returned.                                                      *)
ImplementsInstance == Contract!Spec

-----------------------------------------------------------------------------
(* Safety.                                                                 *)

(* A forward that says it is running, and was not told to end, accepts     *)
(* connections: no failure of a monitor or of the accept loop, during the  *)
(* start or later, leaves it deaf with the service believing it healthy.   *)
RunningAccepts ==
    status = "running" /\ At("start", "returned") /\ ~cancelled
        => listener = "open" /\ ~At("accept", "exit")

(* The pooled connections a forward keeps are released exactly when it     *)
(* gives up the fields: by Start when it fails, by its deferred function   *)
(* or by cleanupMonitor, never by two of them.                             *)
KeptReleasedOnce ==
    \A h \in Kept :
        /\ refs[h] \in {0, 1}
        /\ h \in pooled => refs[h] = 1
        /\ refs[h] = 1 => h \in pooled \/ pc["start"] \in {"source", "target", "listen"}

(* The process is ended by the use of a kept connection that a cleanup has *)
(* set to nil, and by nothing else: the two users of cleanupOnce never     *)
(* close healthCheckDone twice, and a forward that keeps none is safe.     *)
PanicsOnNilOnly == panicked => once # "unused" /\ pooled # Keeps

(* When Stop returns the forward listens no more, has no connection open   *)
(* and has given back everything to the pool, except for a channel that    *)
(* a copier is closing.                                                    *)
StoppedHoldsNothing ==
    At("stop", "returned") =>
        /\ listener # "open" /\ registered = {}
        /\ \A h \in Kept \cup Monitors : refs[h] = 0
        /\ \A c \in Conns : refs[c] > 0 => <<c, "copier">> \in closing

(* Every channel is given back once its connection is over, although       *)
(* handler, copier and cleanupMonitor may each leave it to another.        *)
ChannelReleased ==
    \A c \in Conns : At(c, "exit") ~> refs[c] <= 0 \/ panicked

-----------------------------------------------------------------------------
(* Liveness.                                                               *)

(* Once its context is done, whoever cancelled it, a forward closes its    *)
(* listener and gives back the connections it keeps.                       *)
CancelledIsCleaned ==
    cancelled /\ Ran ~> panicked \/ (listener = "closed" /\ pooled = {})

(* Connections that cleanupMonitor did not find, and their peers use.      *)
Late == {c \in registered : c \notin severed /\ once = "used"}

(* Stop returns, unless a connection that was being set up when            *)
(* cleanupMonitor closed the others goes on for as long as its peers like. *)
StopReturnsUnlessLate ==
    At("stop", "wait") ~> At("stop", "returned") \/ panicked \/ Late # {}
=============================================================================
