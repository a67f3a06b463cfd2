--------------------------- MODULE ConnectionPool ---------------------------
(***************************************************************************)
(* The SSH connection pool of src/internal/connection: ConnectionManager   *)
(* (pool.go), PooledConnection (connection.go) and HealthChecker           *)
(* (health_checker.go), driven by the forwards that acquire and release    *)
(* connections.                                                            *)
(*                                                                         *)
(* A connection here is a direct one: AllClients holds one SSH client.     *)
(* Chains of hops, which share clients, are a module of their own.         *)
(*                                                                         *)
(* Granularity.  A critical section of cm.mu, of pc.mu, of hc.mu or of the *)
(* singleflight group is one step; so is a probe.  closeConnection is two  *)
(* steps because it reads RefCount and closes under cm.mu but under two    *)
(* separate critical sections of pc.mu.  Time is abstracted: a timer that  *)
(* is set may expire at any moment, a probe of a healthy peer may time out.*)
(***************************************************************************)
EXTENDS Integers, FiniteSets

CONSTANTS
    Forwards,    \* the goroutines that call Acquire and Release
    Signatures,  \* connection signatures, the keys of the pool
    Conns,       \* PooledConnection objects that may ever be dialled
    Timers,      \* goroutines available to lingerAndClose
    NoConn,      \* nil, or "absent from the map"
    NoForward,   \* no singleflight call in progress
    NoSignature, \* signature of a connection not dialled, of an idle forward
    Events       \* what may happen around the pool, a subset of AllEvents

(* "peer": a remote host goes away; "slow": a probe of a healthy peer does *)
(* not return in time; "tick": the ticker of the health checker fires;     *)
(* "close": the pool is shut down.                                         *)
AllEvents == {"peer", "slow", "tick", "close"}

ASSUME PoolSentinels ==
    /\ NoConn \notin Conns
    /\ NoForward \notin Forwards
    /\ NoSignature \notin Signatures
    /\ Events \subseteq AllEvents

VARIABLES
    \* ConnectionManager
    pools,       \* cm.pools: signature -> pooled connection
    flight,      \* cm.dialGroup: signature -> forward executing the call
    shutdown,    \* cm.Close: "open", "locked" (inside Close), "closed"
    \* PooledConnection
    signature,   \* conn.Signature
    status,      \* conn.Status, "none" before the connection is dialled
    refCount,    \* conn.RefCount
    ctxDone,     \* conn.Context has been cancelled
    client,      \* conn.Client: "none", "up", "dead" (peer gone), "closed"
    keepalive,   \* the goroutine of startKeepalive
    \* HealthChecker
    monitored,   \* hc.monitoredConnections: signature -> connection
    snapshot,    \* connections left in the round of checkAllConnections
    suspect,     \* connection whose check failed, about to be handled
    \* forwards: program counter and locals of Acquire and Release
    pc, sig, conn,
    leader,      \* the forward whose singleflight call this one joined
    shared,      \* the third result of dialGroup.Do
    dialed,      \* this forward made its connection (RefCount: 1 is its own)
    \* lingerAndClose
    timer,       \* state of each lingering goroutine
    timerConn    \* its argument

poolVars    == <<pools, flight, shutdown>>
connVars    == <<signature, status, refCount, ctxDone, client>>
healthVars  == <<monitored, snapshot, suspect>>
callVars    == <<sig, conn, leader, shared, dialed>>
timerVars   == <<timer, timerConn>>
vars == <<poolVars, connVars, keepalive, healthVars, pc, callVars, timerVars>>

AcquireSteps == {"check", "drop", "close", "status",
                 "cancel", "renew", "acquire", "join", "wait", "double",
                 "dial", "insert", "watch", "finish", "result"}
LeaderSteps  == {"double", "dial", "insert", "watch", "finish"}
PCs == AcquireSteps \cup {"out", "using", "released"}

TypeOK ==
    /\ pools \in [Signatures -> Conns \cup {NoConn}]
    /\ flight \in [Signatures -> Forwards \cup {NoForward}]
    /\ shutdown \in {"open", "locked", "closed"}
    /\ signature \in [Conns -> Signatures \cup {NoSignature}]
    /\ status \in [Conns -> {"none", "active", "idle", "closed"}]
    /\ refCount \in [Conns -> Nat]
    /\ ctxDone \in [Conns -> BOOLEAN]
    /\ client \in [Conns -> {"none", "up", "dead", "closed"}]
    /\ keepalive \in [Conns -> {"none", "running", "evict", "close",
                                "stopped"}]
    /\ monitored \in [Signatures -> Conns \cup {NoConn}]
    /\ snapshot \in SUBSET Conns
    /\ suspect \in Conns \cup {NoConn}
    /\ pc \in [Forwards -> PCs]
    /\ sig \in [Forwards -> Signatures \cup {NoSignature}]
    /\ conn \in [Forwards -> Conns \cup {NoConn}]
    /\ leader \in [Forwards -> Forwards \cup {NoForward}]
    /\ shared \in [Forwards -> BOOLEAN]
    /\ dialed \in [Forwards -> BOOLEAN]
    /\ timer \in [Timers -> {"free", "started", "armed", "cancelled",
                             "detached", "closing"}]
    /\ timerConn \in [Timers -> Conns \cup {NoConn}]

Init ==
    /\ pools = [k \in Signatures |-> NoConn]
    /\ flight = [k \in Signatures |-> NoForward]
    /\ shutdown = "open"
    /\ signature = [c \in Conns |-> NoSignature]
    /\ status = [c \in Conns |-> "none"]
    /\ refCount = [c \in Conns |-> 0]
    /\ ctxDone = [c \in Conns |-> FALSE]
    /\ client = [c \in Conns |-> "none"]
    /\ keepalive = [c \in Conns |-> "none"]
    /\ monitored = [k \in Signatures |-> NoConn]
    /\ snapshot = {}
    /\ suspect = NoConn
    /\ pc = [f \in Forwards |-> "out"]
    /\ sig = [f \in Forwards |-> NoSignature]
    /\ conn = [f \in Forwards |-> NoConn]
    /\ leader = [f \in Forwards |-> NoForward]
    /\ shared = [f \in Forwards |-> FALSE]
    /\ dialed = [f \in Forwards |-> FALSE]
    /\ timer = [t \in Timers |-> "free"]
    /\ timerConn = [t \in Timers |-> NoConn]

-----------------------------------------------------------------------------
(* cm.mu is held across steps only by closeConnection and by Close.        *)
MuFree ==
    /\ shutdown # "locked"
    /\ \A t \in Timers : timer[t] # "closing"

(* The keepalive request returns an error or is not answered in time.      *)
ProbeMayFail(c) == client[c] # "up" \/ "slow" \in Events

Goto(f, step) == pc' = [pc EXCEPT ![f] = step]

(* Acquire or Release has returned and the forward keeps no connection.    *)
Leave(f) ==
    /\ Goto(f, "out")
    /\ sig' = [sig EXCEPT ![f] = NoSignature]
    /\ conn' = [conn EXCEPT ![f] = NoConn]
    /\ leader' = [leader EXCEPT ![f] = NoForward]
    /\ shared' = [shared EXCEPT ![f] = FALSE]
    /\ dialed' = [dialed EXCEPT ![f] = FALSE]

(* pc.Close: a connection already closed is left alone.                    *)
MarkClosed(C) ==
    /\ status' = [c \in Conns |-> IF c \in C THEN "closed" ELSE status[c]]
    /\ ctxDone' = [c \in Conns |->
          ctxDone[c] \/ (c \in C /\ status[c] # "closed")]

(* pc.Close followed by the loop that closes every SSH client.             *)
CloseConns(C) ==
    /\ MarkClosed(C)
    /\ client' = [c \in Conns |-> IF c \in C THEN "closed" ELSE client[c]]
    /\ UNCHANGED <<signature, refCount>>

(* hc.Unregister deletes by signature, whichever connection is there.      *)
Unregister(c) == monitored' = [monitored EXCEPT ![signature[c]] = NoConn]

(* pc.Acquire on a connection that is not closed.                          *)
TakeRef(c) ==
    /\ status[c] # "closed"
    /\ refCount' = [refCount EXCEPT ![c] = @ + 1]
    /\ status' = [status EXCEPT ![c] = "active"]
    /\ UNCHANGED <<signature, ctxDone, client>>

-----------------------------------------------------------------------------
(* Acquire: fast path.                                                     *)

Lookup(f, k) ==
    /\ pc[f] = "out"
    /\ MuFree
    /\ sig' = [sig EXCEPT ![f] = k]
    /\ conn' = [conn EXCEPT ![f] = pools[k]]
    /\ Goto(f, IF pools[k] = NoConn THEN "join" ELSE "check")
    /\ UNCHANGED <<poolVars, connVars, keepalive, healthVars, leader, shared,
                   dialed, timerVars>>

(* isConnectionAlive returns true: the peer answered the keepalive.        *)
FoundAlive(f) ==
    /\ pc[f] = "check"
    /\ status[conn[f]] # "closed"
    /\ client[conn[f]] = "up"
    /\ Goto(f, "status")
    /\ UNCHANGED <<poolVars, connVars, keepalive, healthVars, callVars,
                   timerVars>>

(* isConnectionAlive returns false: closed, an error, or two seconds passed.*)
FoundDead(f) ==
    /\ pc[f] = "check"
    /\ status[conn[f]] = "closed" \/ ProbeMayFail(conn[f])
    /\ Goto(f, "drop")
    /\ UNCHANGED <<poolVars, connVars, keepalive, healthVars, callVars,
                   timerVars>>

(* delete(cm.pools, hash): whatever connection is there by now.            *)
DropDead(f) ==
    /\ pc[f] = "drop"
    /\ MuFree
    /\ pools' = [pools EXCEPT ![sig[f]] = NoConn]
    /\ Goto(f, "close")
    /\ UNCHANGED <<flight, shutdown, connVars, keepalive, healthVars, callVars,
                   timerVars>>

(* healthChecker.Unregister, conn.Close and the loop over AllClients: the  *)
(* step others can tell apart from the deletion is the Unregister.         *)
CloseDead(f) ==
    /\ pc[f] = "close"
    /\ Unregister(conn[f])
    /\ CloseConns({conn[f]})
    /\ Goto(f, "join")
    /\ conn' = [conn EXCEPT ![f] = NoConn]
    /\ UNCHANGED <<poolVars, keepalive, snapshot, suspect, sig, leader, shared,
                   dialed, timerVars>>

ReadStatus(f) ==
    /\ pc[f] = "status"
    /\ Goto(f, IF status[conn[f]] = "idle" THEN "cancel" ELSE "acquire")
    /\ UNCHANGED <<poolVars, connVars, keepalive, healthVars, callVars,
                   timerVars>>

(* conn.CancelFunc(): stop the goroutine lingering on this connection.     *)
CancelLinger(f) ==
    /\ pc[f] = "cancel"
    /\ ctxDone' = [ctxDone EXCEPT ![conn[f]] = TRUE]
    /\ Goto(f, "renew")
    /\ UNCHANGED <<poolVars, signature, status, refCount, client, keepalive,
                   healthVars, callVars, timerVars>>

(* A new Context.  A timer armed on the old one keeps selecting on it.     *)
RenewContext(f) ==
    /\ pc[f] = "renew"
    /\ MuFree
    /\ ctxDone' = [ctxDone EXCEPT ![conn[f]] = FALSE]
    /\ timer' = [t \in Timers |->
          IF timer[t] = "armed" /\ timerConn[t] = conn[f]
          THEN IF ctxDone[conn[f]] THEN "cancelled" ELSE "detached"
          ELSE timer[t]]
    /\ Goto(f, "acquire")
    /\ UNCHANGED <<poolVars, signature, status, refCount, client, keepalive,
                   healthVars, callVars, timerConn>>

AcquireExisting(f) ==
    /\ pc[f] = "acquire"
    /\ TakeRef(conn[f])
    /\ Goto(f, "using")
    /\ UNCHANGED <<poolVars, keepalive, healthVars, callVars, timerVars>>

(* pc.Acquire fails: Acquire returns an error, it does not dial.           *)
AcquireExistingFails(f) ==
    /\ pc[f] = "acquire"
    /\ status[conn[f]] = "closed"
    /\ Leave(f)
    /\ UNCHANGED <<poolVars, connVars, keepalive, healthVars, timerVars>>

-----------------------------------------------------------------------------
(* Acquire: slow path, dialGroup.Do(hash, ...).                            *)

Lead(f) ==
    /\ pc[f] = "join"
    /\ flight[sig[f]] = NoForward
    /\ flight' = [flight EXCEPT ![sig[f]] = f]
    /\ Goto(f, "double")
    /\ UNCHANGED <<pools, shutdown, connVars, keepalive, healthVars, callVars,
                   timerVars>>

Join(f) ==
    /\ pc[f] = "join"
    /\ flight[sig[f]] # NoForward
    /\ leader' = [leader EXCEPT ![f] = flight[sig[f]]]
    /\ Goto(f, "wait")
    /\ UNCHANGED <<poolVars, connVars, keepalive, healthVars, sig, conn, shared,
                   dialed, timerVars>>

(* The double-check returns a pooled connection without pc.Acquire.        *)
DoubleCheck(f) ==
    /\ pc[f] = "double"
    /\ MuFree
    /\ conn' = [conn EXCEPT ![f] = pools[sig[f]]]
    /\ Goto(f, IF pools[sig[f]] = NoConn THEN "dial" ELSE "finish")
    /\ UNCHANGED <<poolVars, connVars, keepalive, healthVars, sig, leader,
                   shared, dialed, timerVars>>

(* dialSSH succeeds; the literal that builds pooledConn has RefCount: 1.   *)
Dial(f, c) ==
    /\ pc[f] = "dial"
    /\ status[c] = "none"
    /\ status' = [status EXCEPT ![c] = "active"]
    /\ signature' = [signature EXCEPT ![c] = sig[f]]
    /\ refCount' = [refCount EXCEPT ![c] = 1]
    /\ client' = [client EXCEPT ![c] = "up"]
    /\ conn' = [conn EXCEPT ![f] = c]
    /\ dialed' = [dialed EXCEPT ![f] = TRUE]
    /\ Goto(f, "insert")
    /\ UNCHANGED <<poolVars, ctxDone, keepalive, healthVars, sig, leader,
                   shared, timerVars>>

DialFails(f) ==
    /\ pc[f] = "dial"
    /\ Goto(f, "finish")
    /\ UNCHANGED <<poolVars, connVars, keepalive, healthVars, callVars,
                   timerVars>>

Insert(f) ==
    /\ pc[f] = "insert"
    /\ MuFree
    /\ pools' = [pools EXCEPT ![sig[f]] = conn[f]]
    /\ Goto(f, "watch")
    /\ UNCHANGED <<flight, shutdown, connVars, keepalive, healthVars, callVars,
                   timerVars>>

(* healthChecker.Monitor and startKeepalive.                               *)
Watch(f) ==
    /\ pc[f] = "watch"
    /\ monitored' = [monitored EXCEPT ![sig[f]] = conn[f]]
    /\ keepalive' = [keepalive EXCEPT ![conn[f]] = "running"]
    /\ Goto(f, "finish")
    /\ UNCHANGED <<poolVars, connVars, snapshot, suspect, callVars, timerVars>>

Waiters(f) == {g \in Forwards : pc[g] = "wait" /\ leader[g] = f}

(* Mutant: the ended call stays in the group. *)
FinishKeepsFlight(f) ==
    LET callers == Waiters(f) \cup {f} IN
    /\ pc[f] = "finish"
    /\ pc' = [g \in Forwards |-> IF g \in callers THEN "result" ELSE pc[g]]
    /\ conn' = [g \in Forwards |-> IF g \in callers THEN conn[f] ELSE conn[g]]
    /\ shared' = [g \in Forwards |->
          IF g \in callers THEN Waiters(f) # {} ELSE shared[g]]
    /\ leader' = [g \in Forwards |->
          IF g \in callers THEN NoForward ELSE leader[g]]
    /\ UNCHANGED <<poolVars, connVars, keepalive, healthVars, sig,
                   dialed, timerVars>>

(* Mutant: those who joined are not told. *)
FinishWakesNobody(f) ==
    LET callers == {f} IN
    /\ pc[f] = "finish"
    /\ flight' = [flight EXCEPT ![sig[f]] = IF @ = f THEN NoForward ELSE @]
    /\ pc' = [g \in Forwards |-> IF g \in callers THEN "result" ELSE pc[g]]
    /\ conn' = [g \in Forwards |-> IF g \in callers THEN conn[f] ELSE conn[g]]
    /\ shared' = [g \in Forwards |->
          IF g \in callers THEN Waiters(f) # {} ELSE shared[g]]
    /\ leader' = [g \in Forwards |->
          IF g \in callers THEN NoForward ELSE leader[g]]
    /\ UNCHANGED <<pools, shutdown, connVars, keepalive, healthVars, sig,
                   dialed, timerVars>>

(* The call ends: every caller gets its result, and Do reports it shared   *)
(* to all of them, the one that executed it included, if anyone joined.    *)
Finish(f) ==
    LET callers == Waiters(f) \cup {f} IN
    /\ pc[f] = "finish"
    /\ flight' = [flight EXCEPT ![sig[f]] = IF @ = f THEN NoForward ELSE @]
    /\ pc' = [g \in Forwards |-> IF g \in callers THEN "result" ELSE pc[g]]
    /\ conn' = [g \in Forwards |-> IF g \in callers THEN conn[f] ELSE conn[g]]
    /\ shared' = [g \in Forwards |->
          IF g \in callers THEN Waiters(f) # {} ELSE shared[g]]
    /\ leader' = [g \in Forwards |->
          IF g \in callers THEN NoForward ELSE leader[g]]
    /\ UNCHANGED <<pools, shutdown, connVars, keepalive, healthVars, sig,
                   dialed, timerVars>>

(* The call failed: dialGroup.Forget(hash), whichever call is there by now.*)
Forget(f) ==
    /\ pc[f] = "result"
    /\ conn[f] = NoConn
    /\ flight' = [flight EXCEPT ![sig[f]] = NoForward]
    /\ Leave(f)
    /\ UNCHANGED <<pools, shutdown, connVars, keepalive, healthVars, timerVars>>

ReturnUnshared(f) ==
    /\ pc[f] = "result"
    /\ conn[f] # NoConn
    /\ ~shared[f]
    /\ Goto(f, "using")
    /\ UNCHANGED <<poolVars, connVars, keepalive, healthVars, callVars,
                   timerVars>>

(* Mutant: a shared result is returned without its reference. *)
AcquireSharedSkips(f) ==
    /\ pc[f] = "result"
    /\ conn[f] # NoConn
    /\ shared[f]
    /\ Goto(f, "using")
    /\ UNCHANGED <<poolVars, connVars, keepalive, healthVars, callVars, timerVars>>

AcquireShared(f) ==
    /\ pc[f] = "result"
    /\ conn[f] # NoConn
    /\ shared[f]
    /\ TakeRef(conn[f])
    /\ Goto(f, "using")
    /\ UNCHANGED <<poolVars, keepalive, healthVars, callVars, timerVars>>

AcquireSharedFails(f) ==
    /\ pc[f] = "result"
    /\ conn[f] # NoConn
    /\ shared[f]
    /\ status[conn[f]] = "closed"
    /\ Leave(f)
    /\ UNCHANGED <<poolVars, connVars, keepalive, healthVars, timerVars>>

-----------------------------------------------------------------------------
(* Release and lingering.                                                  *)

(* Mutant: pc.Release does not look at RefCount first. *)
ReleaseRefUnchecked(f) ==
    /\ pc[f] = "using"
    /\ refCount' = [refCount EXCEPT ![conn[f]] = @ - 1]
    /\ status' = [status EXCEPT ![conn[f]] =
          IF refCount[conn[f]] = 1 THEN "idle" ELSE @]
    /\ Goto(f, "released")
    /\ UNCHANGED <<poolVars, signature, ctxDone, client, keepalive, healthVars,
                   callVars, timerVars>>

(* pc.Release: Idle at zero, even for a connection closed meanwhile.       *)
ReleaseRef(f) ==
    /\ pc[f] = "using"
    /\ refCount[conn[f]] > 0
    /\ refCount' = [refCount EXCEPT ![conn[f]] = @ - 1]
    /\ status' = [status EXCEPT ![conn[f]] =
          IF refCount[conn[f]] = 1 THEN "idle" ELSE @]
    /\ Goto(f, "released")
    /\ UNCHANGED <<poolVars, signature, ctxDone, client, keepalive, healthVars,
                   callVars, timerVars>>

ReleaseFails(f) ==
    /\ pc[f] = "using"
    /\ refCount[conn[f]] = 0
    /\ Leave(f)
    /\ UNCHANGED <<poolVars, connVars, keepalive, healthVars, timerVars>>

(* GetRefCount() == 0: go cm.lingerAndClose(conn).                         *)
Linger(f, t) ==
    /\ pc[f] = "released"
    /\ refCount[conn[f]] = 0
    /\ timer[t] = "free"
    /\ timer' = [timer EXCEPT ![t] = "started"]
    /\ timerConn' = [timerConn EXCEPT ![t] = conn[f]]
    /\ Leave(f)
    /\ UNCHANGED <<poolVars, connVars, keepalive, healthVars>>

StillReferenced(f) ==
    /\ pc[f] = "released"
    /\ refCount[conn[f]] > 0
    /\ Leave(f)
    /\ UNCHANGED <<poolVars, connVars, keepalive, healthVars, timerVars>>

EndTimer(t) ==
    /\ timer' = [timer EXCEPT ![t] = "free"]
    /\ timerConn' = [timerConn EXCEPT ![t] = NoConn]

(* The select reads conn.Context, the one in place when it starts.         *)
ArmTimer(t) ==
    /\ timer[t] = "started"
    /\ timer' = [timer EXCEPT ![t] = "armed"]
    /\ UNCHANGED <<poolVars, connVars, keepalive, healthVars, pc, callVars,
                   timerConn>>

Expires(t) == timer[t] \in {"armed", "cancelled", "detached"} /\ MuFree

(* Mutant: RefCount compared with >= instead of >. *)
TimerGivesUpEarly(t) ==
    LET c == timerConn[t] IN
    /\ Expires(t)
    /\ pools[signature[c]] # c \/ refCount[c] >= 0
    /\ EndTimer(t)
    /\ UNCHANGED <<poolVars, connVars, keepalive, healthVars, pc, callVars>>

(* closeConnection up to its second check: the connection is not the one   *)
(* in the pool, or it was re-acquired.                                     *)
TimerGivesUp(t) ==
    LET c == timerConn[t] IN
    /\ Expires(t)
    /\ pools[signature[c]] # c \/ refCount[c] > 0
    /\ EndTimer(t)
    /\ UNCHANGED <<poolVars, connVars, keepalive, healthVars, pc, callVars>>

(* Both checks passed: closeConnection goes on, still holding cm.mu.       *)
TimerChecked(t) ==
    LET c == timerConn[t] IN
    /\ Expires(t)
    /\ pools[signature[c]] = c
    /\ refCount[c] = 0
    /\ timer' = [timer EXCEPT ![t] = "closing"]
    /\ UNCHANGED <<poolVars, connVars, keepalive, healthVars, pc, callVars,
                   timerConn>>

(* Mutant: closed, but left in the pool. *)
CloseIdleKeepsEntry(t) ==
    LET c == timerConn[t] IN
    /\ timer[t] = "closing"
    /\ Unregister(c)
    /\ CloseConns({c})
    /\ EndTimer(t)
    /\ UNCHANGED <<poolVars, keepalive, snapshot, suspect, pc, callVars>>

CloseIdle(t) ==
    LET c == timerConn[t] IN
    /\ timer[t] = "closing"
    /\ pools' = [pools EXCEPT ![signature[c]] = NoConn]
    /\ Unregister(c)
    /\ CloseConns({c})
    /\ EndTimer(t)
    /\ UNCHANGED <<flight, shutdown, keepalive, snapshot, suspect, pc, callVars>>

(* <-conn.Context.Done()                                                   *)
TimerCancelled(t) ==
    /\ \/ timer[t] = "cancelled"
       \/ timer[t] = "armed" /\ ctxDone[timerConn[t]]
    /\ EndTimer(t)
    /\ UNCHANGED <<poolVars, connVars, keepalive, healthVars, pc, callVars>>

-----------------------------------------------------------------------------
(* startKeepalive: the goroutine of connection c.  A tick whose probe is   *)
(* answered changes nothing.                                               *)

(* Mutant: an idle connection is not probed any more. *)
KeepaliveStopsIdle(c) ==
    /\ keepalive[c] = "running"
    /\ status[c] # "active"
    /\ keepalive' = [keepalive EXCEPT ![c] = "stopped"]
    /\ UNCHANGED <<poolVars, connVars, healthVars, pc, callVars, timerVars>>

KeepaliveStops(c) ==
    /\ keepalive[c] = "running"
    /\ status[c] = "closed"
    /\ keepalive' = [keepalive EXCEPT ![c] = "stopped"]
    /\ UNCHANGED <<poolVars, connVars, healthVars, pc, callVars, timerVars>>

(* Mutant: a connection in use is not evicted. *)
KeepaliveSparesUsed(c) ==
    /\ keepalive[c] = "running"
    /\ status[c] # "closed"
    /\ ProbeMayFail(c) /\ refCount[c] = 0
    /\ keepalive' = [keepalive EXCEPT ![c] = "evict"]
    /\ UNCHANGED <<poolVars, connVars, healthVars, pc, callVars, timerVars>>

(* The probe fails, or times out although the peer is there.               *)
KeepaliveFails(c) ==
    /\ keepalive[c] = "running"
    /\ status[c] # "closed"
    /\ ProbeMayFail(c)
    /\ keepalive' = [keepalive EXCEPT ![c] = "evict"]
    /\ UNCHANGED <<poolVars, connVars, healthVars, pc, callVars, timerVars>>

(* evictConnection, guarded against a newer connection in its place.       *)
Evict(c) ==
    /\ keepalive[c] = "evict"
    /\ MuFree
    /\ pools' = [k \in Signatures |->
          IF k = signature[c] /\ pools[k] = c THEN NoConn ELSE pools[k]]
    /\ keepalive' = [keepalive EXCEPT ![c] = "close"]
    /\ UNCHANGED <<flight, shutdown, connVars, healthVars, pc, callVars,
                   timerVars>>

EvictClose(c) ==
    /\ keepalive[c] = "close"
    /\ Unregister(c)
    /\ CloseConns({c})
    /\ keepalive' = [keepalive EXCEPT ![c] = "stopped"]
    /\ UNCHANGED <<poolVars, snapshot, suspect, pc, callVars, timerVars>>

-----------------------------------------------------------------------------
(* HealthChecker.checkLoop.                                                *)

Monitored == {monitored[k] : k \in Signatures} \ {NoConn}

CheckerIdle == snapshot = {} /\ suspect = NoConn

(* checkAllConnections copies the map, then checks without the lock.       *)
CheckerTick ==
    /\ "tick" \in Events
    /\ CheckerIdle
    /\ shutdown # "closed"
    /\ snapshot' = Monitored
    /\ UNCHANGED <<poolVars, connVars, keepalive, monitored, suspect, pc,
                   callVars, timerVars>>

(* checkConnection skips a closed or unreferenced connection, or succeeds. *)
CheckerPasses(c) ==
    /\ c \in snapshot
    /\ suspect = NoConn
    /\ status[c] = "closed" \/ refCount[c] = 0 \/ client[c] = "up"
    /\ snapshot' = snapshot \ {c}
    /\ UNCHANGED <<poolVars, connVars, keepalive, monitored, suspect, pc,
                   callVars, timerVars>>

CheckerFails(c) ==
    /\ c \in snapshot
    /\ suspect = NoConn
    /\ status[c] # "closed" /\ refCount[c] > 0 /\ ProbeMayFail(c)
    /\ snapshot' = snapshot \ {c}
    /\ suspect' = c
    /\ UNCHANGED <<poolVars, connVars, keepalive, monitored, pc, callVars,
                   timerVars>>

(* handleFailure cancels the context and leaves the pool alone.            *)
HandleFailure ==
    /\ suspect # NoConn
    /\ ctxDone' = [ctxDone EXCEPT ![suspect] = TRUE]
    /\ suspect' = NoConn
    /\ UNCHANGED <<poolVars, signature, status, refCount, client, keepalive,
                   monitored, snapshot, pc, callVars, timerVars>>

-----------------------------------------------------------------------------
(* Mutant: closed connections stay in the pool. *)
ClosePoolKeepsEntries ==
    LET pooled == {pools[k] : k \in Signatures} \ {NoConn} IN
    /\ "close" \in Events
    /\ shutdown = "open"
    /\ MuFree
    /\ shutdown' = "locked"
    /\ monitored' = [k \in Signatures |->
          IF pools[k] # NoConn THEN NoConn ELSE monitored[k]]
    /\ pools' = pools
    /\ CloseConns(pooled)
    /\ UNCHANGED <<flight, keepalive, snapshot, suspect, pc, callVars, timerVars>>

(* cm.Close holds cm.mu until the health checker's loop has returned.      *)
ClosePool ==
    LET pooled == {pools[k] : k \in Signatures} \ {NoConn} IN
    /\ "close" \in Events
    /\ shutdown = "open"
    /\ MuFree
    /\ shutdown' = "locked"
    /\ monitored' = [k \in Signatures |->
          IF pools[k] # NoConn THEN NoConn ELSE monitored[k]]
    /\ pools' = [k \in Signatures |-> NoConn]
    /\ CloseConns(pooled)
    /\ UNCHANGED <<flight, keepalive, snapshot, suspect, pc, callVars, timerVars>>

(* Mutant: Close also waits for the keepalive goroutines. *)
CloseReturnsAfterKeepalives ==
    /\ shutdown = "locked"
    /\ CheckerIdle
    /\ \A c \in Conns : keepalive[c] \in {"none", "stopped"}
    /\ shutdown' = "closed"
    /\ UNCHANGED <<pools, flight, connVars, keepalive, healthVars, pc, callVars,
                   timerVars>>

CloseReturns ==
    /\ shutdown = "locked"
    /\ CheckerIdle
    /\ shutdown' = "closed"
    /\ UNCHANGED <<pools, flight, connVars, keepalive, healthVars, pc, callVars,
                   timerVars>>

(* The remote host reboots, the network drops the session.                 *)
PeerFails(c) ==
    /\ "peer" \in Events
    /\ client[c] = "up"
    /\ client' = [client EXCEPT ![c] = "dead"]
    /\ UNCHANGED <<poolVars, signature, status, refCount, ctxDone, keepalive,
                   healthVars, pc, callVars, timerVars>>

-----------------------------------------------------------------------------
FastPath(f) ==
    \/ FoundAlive(f) \/ FoundDead(f)
    \/ DropDead(f) \/ CloseDead(f)
    \/ ReadStatus(f) \/ CancelLinger(f) \/ RenewContext(f)
    \/ AcquireExisting(f) \/ AcquireExistingFails(f)

SlowPath(f) ==
    \/ Lead(f) \/ Join(f) \/ DoubleCheck(f)
    \/ \E c \in Conns : Dial(f, c)
    \/ DialFails(f) \/ Insert(f) \/ Watch(f) \/ Finish(f)
    \/ Forget(f) \/ ReturnUnshared(f)
    \/ AcquireShared(f) \/ AcquireSharedFails(f)

EndRelease(f) == StillReferenced(f) \/ \E t \in Timers : Linger(f, t)

TimerEnds(t) ==
    TimerGivesUp(t) \/ TimerChecked(t) \/ CloseIdle(t) \/ TimerCancelled(t)

ForwardStep(f) ==
    \/ \E k \in Signatures : Lookup(f, k)
    \/ FastPath(f) \/ SlowPath(f)
    \/ ReleaseRef(f) \/ ReleaseFails(f) \/ EndRelease(f)

KeepaliveStep(c) ==
    \/ KeepaliveStops(c) \/ KeepaliveFails(c)
    \/ Evict(c) \/ EvictClose(c)

CheckerStep ==
    \/ CheckerTick
    \/ \E c \in Conns : CheckerPasses(c) \/ CheckerFails(c)
    \/ HandleFailure

Next ==
    \/ \E f \in Forwards : ForwardStep(f)
    \/ \E t \in Timers : ArmTimer(t) \/ TimerEnds(t)
    \/ \E c \in Conns : KeepaliveStep(c) \/ PeerFails(c)
    \/ CheckerStep
    \/ ClosePool \/ CloseReturns

Spec == Init /\ [][Next]_vars

(* Goroutines are scheduled, timers expire, and every probe and dial ends  *)
(* (each has a deadline); when the peer is gone, the probe fails.  Nothing *)
(* makes a forward acquire, release, or a healthy probe time out.  The     *)
(* loop of the checker selects at random between its ticker and done, so   *)
(* it sees done after finitely many rounds.                                *)
Fairness ==
    /\ \A f \in Forwards :
          WF_vars(FastPath(f) \/ SlowPath(f) \/ EndRelease(f))
    /\ \A t \in Timers : WF_vars(ArmTimer(t)) /\ WF_vars(TimerEnds(t))
    /\ \A c \in Conns :
          /\ WF_vars(client[c] # "up" /\ KeepaliveFails(c))
          /\ WF_vars(KeepaliveStops(c) \/ Evict(c) \/ EvictClose(c))
    /\ WF_vars(CheckerStep)
    /\ SF_vars(CloseReturns)

FairSpec == Spec /\ Fairness

-----------------------------------------------------------------------------
(* Properties that hold.                                                   *)

(* A connection marked closed is in no map entry: whoever closes one has   *)
(* taken it out first, and nothing puts it back (pool.go 145-165, 386-429, *)
(* 519-540).  Acquire would otherwise fail on it until the next eviction.  *)
ClosedNotPooled ==
    \A k \in Signatures : pools[k] # NoConn => status[pools[k]] # "closed"

(* Every pooled connection is probed by its own keepalive goroutine, or    *)
(* its creator is about to start one: the health checker never evicts, so  *)
(* a half-dead connection without that goroutine would stay for good.      *)
KeepaliveCovers ==
    \A k \in Signatures : pools[k] # NoConn =>
        \/ keepalive[pools[k]] \in {"running", "evict"}
        \/ \E f \in Forwards : pc[f] = "watch" /\ conn[f] = pools[k]

(* Whoever joined a call waits for a forward that is executing that call,  *)
(* for the same signature, whatever Forget did to the group in between.    *)
WaitersServed ==
    \A f \in Forwards : pc[f] = "wait" =>
        /\ leader[f] \in Forwards
        /\ pc[leader[f]] \in LeaderSteps
        /\ sig[leader[f]] = sig[f]

(* A pooled connection without references is on somebody's hands: a timer  *)
(* that will look at it, a forward that has just released it or is about   *)
(* to take it; unless its context was cancelled.  Otherwise it would hold  *)
(* its SSH session until the peer goes away (pool.go 169-193, 354-390).    *)
IdleLookedAfter ==
    \A k \in Signatures :
        LET c == pools[k] IN
        c # NoConn /\ refCount[c] = 0 =>
            \/ ctxDone[c]
            \/ \E t \in Timers : timerConn[t] = c /\ timer[t] # "cancelled"
            \/ \E f \in Forwards :
                   conn[f] = c /\ pc[f] \in {"released", "renew", "acquire"}

(* Acquire returns to its caller, with a connection or an error.           *)
AcquireReturns ==
    \A f \in Forwards :
        pc[f] \in AcquireSteps ~> pc[f] \in {"out", "using"}

(* A connection whose peer is gone does not stay in the pool, whether or   *)
(* not forwards still hold it (startKeepalive, evictConnection).           *)
DeadLeavesPool ==
    \A k \in Signatures, c \in Conns :
        pools[k] = c /\ client[c] = "dead" ~> pools[k] # c

Idle(c) == refCount[c] = 0 /\ \E k \in Signatures : pools[k] = c

(* An idle pooled connection is closed or used again, unless its context   *)
(* was cancelled: every release to zero leaves a goroutine that will look. *)
IdleReclaimedUnlessCancelled ==
    \A c \in Conns : Idle(c) ~> ~Idle(c) \/ ctxDone[c]

(* Close returns: the checker's loop ends without needing cm.mu.           *)
ShutdownReturns == shutdown = "locked" ~> shutdown = "closed"

-----------------------------------------------------------------------------
(* A statement of the source that the code does not keep.                  *)

(* What f will release: it has been given c, or is about to be.            *)
Holds(f, c) ==
    /\ conn[f] = c
    /\ \/ pc[f] = "using"
       \/ dialed[f] /\ pc[f] \in {"insert", "watch", "finish", "result"}

Holders(c) == {f \in Forwards : Holds(f, c)}

(* connection.go:78: RefCount is the number of active references.  The     *)
(* forward that dialled counts twice when its dial was shared (pool.go:248)*)
(* and a connection found by the double-check counts nobody.               *)
RefCountIsHolders == \A c \in Conns : refCount[c] = Cardinality(Holders(c))
=============================================================================
