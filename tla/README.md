# Verification of ssh-multihop

TLA+ models of the ssh-multihop daemon, the TLC configurations that check them
on small instances, and theorems about them that TLAPS proves. Paths are those
of the repository (`src/`).

The daemon keeps port forwards alive over chains of SSH hops. Its rules are
stored in a database; a service reconciles them with the forwards running in
memory; the forwards share SSH connections through a pool. Nearly everything
that can go wrong is an interleaving: forwards, timers, probes, the sync loop
and API calls act on the same maps from different goroutines.

## 1. Inventory

| Component | State | Operations | Talks to |
|---|---|---|---|
| Connection pool (`internal/connection/pool.go`) | `pools` by signature, singleflight group, shutdown | `Acquire`, `Release`, lingering, `closeConnection`, keepalive and eviction, `Close`, reuse of hops | forwards call it; it calls the establisher and the health checker |
| Pooled connection (`connection.go`) | `Status`, `RefCount`, `Context`/`CancelFunc`, SSH clients | `Acquire`, `Release`, `Close` | shared by the pool, timers, keepalive, health checker, forwards |
| Health checker (`health_checker.go`) | monitored connections by signature | `Monitor`, `Unregister`, loop, `Close` | cancels the context of connections that fail |
| Establisher (`establisher.go`), signature (`signature.go`), client builder (`builder.go`) | none of their own | dial a chain hop by hop, reusing pooled hops; hash a chain; build options | called by the pool |
| Multiplexed forward (`multiplexed_forward.go`) | one channel, `closed` flag | open a channel, close and release | forwards |
| Forward service (`internal/service/forward_service.go`) | `forwards`, `pendingStarts`, backoff counters, config cache | `Start`, `sync`, start and rebuild of forwards, create, delete, `Stop` | database, forwards, pool |
| Forwards (`internal/forwarding/*.go`): llr, rll, rlr | status, listener, active connections, wait group | `Start`, accept loop, connections, probes, `Stop`, clean-up | pool, database (their status) |
| Denied-listen recovery (`listen_denied.go`, guard in the service) | `AllowLeakRecovery`; the listeners of the session | cancel a stale remote listen and retry | sibling forwards through the database |
| Database (`internal/db`) | tables `forwards`, `forward_status` | statements and transactions | service, forwards, API |
| API (`internal/api`), daemon (`cmd/ssh-multihop`) | process | handlers; start, graceful shutdown | service |
| SSH config, ProxyJump resolution, daemon configuration, agent, utilities | read once | parsing, key loading | service, builder |

What makes each one correct, and hard:

* **Pool.** Whoever holds a connection keeps it alive; a connection closed is
  not handed out; a dead one is replaced; an idle one is eventually closed;
  callers that join a dial get a result. `Acquire` checks, waits and deletes
  under several short critical sections, seven kinds of goroutine act on one
  connection, and the singleflight group can be told to forget a call that is
  running.
* **Service.** Memory follows the database; a forward that fails comes back; a
  deleted one stops; no instance is lost; a restart loses nothing. The sync
  loop reads the map, the pending marks and the database one after the other,
  while starts complete in their own goroutines and the API changes the rows.
* **Backoff.** Attempts are spaced as documented, and never cease.
* **Forwards.** A forward that says it runs accepts connections; whichever of
  its goroutines fails, what it holds is given back once; when `Stop` returns
  nothing of it is left. `Start`, its deferred functions, two monitors, the
  accept loop, `cleanupMonitor`, a goroutine or three per connection and `Stop`
  share fields that are mostly read without a lock.
* **Denied listens.** A listener leaked on the remote side is retracted, one
  that serves a sibling is not, and no `Stop` waits for a listener that another
  forward has taken off the client's list.
* **Hop reuse.** No client of a chain is left open with nobody to close it, and
  a chain runs over the machines it names, whatever hops fail, are evicted or
  are pooled twice meanwhile. The code keeps the first of these except when a
  caller of a chain takes the connection of another caller out of the pool.

`PROJECT.json` lists every component with its status, and every hazard with the
line where it bites and the properties that watch it.

## 2. Modules

| Module | Content |
|---|---|
| `ConnectionPool` | the pool, its connections, timers, keepalive goroutines and the health checker; its properties |
| `ConnectionPoolInv` | the inductive invariant `PoolIInv`, in named parts |
| `ConnectionPoolProofs` | the theorems about the pool |
| `PoolReferences` | the pool with a history of how `RefCount` departs from its holders; the inductive invariant `RefIInv` |
| `PoolReferencesProofs` | the theorems about that account |
| `MCConnectionPool` | symmetry for the runs of the pool |
| `ForwardService` | the database, the sync loop, starting goroutines, rebuilds, API calls, crash and restart; its properties |
| `ServiceTracking` | the service with a history of the forwards that were started twice; the inductive invariant `ServiceIInv` |
| `ServiceTrackingProofs` | the theorems about the service, the contract of its instances among them |
| `LeakRecovery` | remote forwards on one bind: denied listens, their recovery, the sibling guard; the inductive invariant `LeakIInv` |
| `LeakRecoveryProofs` | the theorems about the recovery |
| `RebuildBackoff` | the exponential backoff, with the width of `time.Duration` |
| `RebuildBackoffProofs` | the theorems about the backoff |
| `ForwardInstance` | abstract: what the service may expect of one forward |
| `ForwardLifecycle` | one forward of any of the three kinds, its goroutines, connections and channels; its properties, and the mapping to `ForwardInstance` |
| `ForwardLifecycleInv` | the inductive invariant `LifecycleIInv`, in named parts |
| `ForwardLifecycleProofs` | the theorems about a forward, the refinement among them |
| `HopReuse` | chains of hops that share SSH clients: the establisher and the pool; the inductive invariant `HopIInv` |
| `HopReuseProofs` | the theorems about chains and their clients |
| `MCHopReuse` | the chains of the runs of `HopReuse` |

Mutants (definitions commented `Mutant:`) are plausible bugs of the definition
that follows them. Nothing uses them but the check that a property can fail.

### ConnectionPool

One step is one critical section (of `cm.mu`, `pc.mu`, `hc.mu` or of the
singleflight group) or one probe. `pc[f]` says where forward `f` is in `Acquire`
or `Release`:

| Code | Actions |
|---|---|
| `Acquire`, fast path (131-194) | `Lookup`, `FoundAlive`, `FoundDead`, `DropDead`, `CloseDead`, `ReadStatus`, `CancelLinger`, `RenewContext`, `AcquireExisting`, `AcquireExistingFails` |
| `Acquire`, slow path (196-255) | `Lead`, `Join`, `DoubleCheck`, `Dial`, `DialFails`, `Insert`, `Watch`, `Finish`, `Forget`, `ReturnUnshared`, `AcquireShared`, `AcquireSharedFails` |
| `Release` (350-366) | `ReleaseRef`, `ReleaseFails`, `Linger`, `StillReferenced` |
| `lingerAndClose`, `closeConnection` (368-429) | `ArmTimer`, `TimerGivesUp`, `TimerChecked`, `CloseIdle`, `TimerCancelled` |
| `startKeepalive`, `evictConnection` (471-540) | `KeepaliveStops`, `KeepaliveFails`, `Evict`, `EvictClose` |
| health checker | `CheckerTick`, `CheckerPasses`, `CheckerFails`, `HandleFailure` |
| `Close` (542-577) | `ClosePool`, `CloseReturns` |
| the network | `PeerFails` |

Decisions worth knowing:

* `closeConnection` holds `cm.mu` from its checks to the close, but reads
  `RefCount` and marks the connection closed in two critical sections of
  `pc.mu`; a forward past its lookup can acquire in between. Hence the two
  steps `TimerChecked` and `CloseIdle`, and `MuFree` in every action that needs
  `cm.mu`.
* A lingering goroutine selects on the context it finds when it starts. When
  `Acquire` replaces the context, the goroutine is `cancelled` if the old one
  was done by then, and `detached` (still waiting for its timer) if not.
* `Do` reports `shared` to every caller, the one that ran the function
  included; `Forget` deletes the entry whichever call is there. `Lead`, `Join`
  and `Finish` model the external library from these facts.
* The probe of a healthy peer may time out (`"slow"` in `Events`); the others
  in `Events` are the loss of a peer, the tick of the health checker and the
  shutdown of the pool. A run names the ones it explores.
* A connection holds one client. Chains, whose intermediate hops are pooled
  connections too, are the subject of `HopReuse`.

### ForwardService

A database statement or transaction and a critical section of `s.mu` or
`s.pendingMu` are one step. `step[w]`, `job[w]`, `config[w]`, `current[w]` are
the program counter and locals of a goroutine inside `startForward`: the one
sync starts for a forward (named by the forward, since `pendingStarts` allows
one) and the sync loop itself (`Syncer`), which starts forwards at boot and in
rebuilds. `phase`, `listed`, `listedError`, `todo`, `missing`, `failed` are the
locals of `sync`. An instance is an object of package `forwarding`; here it
starts, fails, writes its error (a step of its own, `reporting`), and stops.
It is `bound` while its listener is open, and `draining` while its clean-up is
over and goroutines of it are left; `Stop` waits for those.
What it may do is the contract `ForwardInstance`: `ServiceTracking` checks that
the model of the service uses every instance within it
(`InstancesKeepContract`), and `ForwardLifecycle` implements it. That is what
ties the two levels together: the safety properties of the service rest on
nothing that a forward does not guarantee.

The liveness properties need one thing more, and say so. `rebuildErrorForward`
calls `Stop` in the sync loop (`forward_service.go:1021`), and a `Stop` may last
as long as a peer keeps a connection that was registered after the clean-up
(`StopReturnsUnlessLate` of `ForwardLifecycle`). Until it returns nothing is
reconciled (`SyncWaits`). So nothing obliges `GoroutinesEnd` to happen, and
`RowIsServed`, `DeletedLeavesMap` and `FailedIsReplaced` claim what they claim
if no such wait is for ever (`SyncGoesOn == []<>~SyncWaits`); without this
condition TLC refutes all three. A `Stop` that sync does not wait for (of a
deleted forward, 435-452) may hang: the condition does not exclude it.

| Code | Actions |
|---|---|
| `Start` (147-187) | `Boot`, `BootStart`, `BootDone` |
| `sync` (340-500) | `SyncList`, `SyncLookup`, `SyncSkip`, `SyncStart`, `SyncStop`, `SyncCollect`, `SkipRebuild`, `Rebuild`, `SyncDone` |
| `startForward`, `buildForward` and the goroutine around it | `StartSucceeds`, `StartFails`, `BuildFails`, `Store`, `MarkRunning`, `ReportFailure`, `Finish` |
| `rebuildErrorForward` (999-1054) | `Rebuild`, `Replace`, then as above |
| API | `CreateForward`, `DeleteForward` |
| the forward itself | `InstanceFails`, `WriteError`, `ReleaseResources` (`cleanupMonitor`), `GoroutinesEnd`, `StopReturns` |
| the process | `Crash` (memory and listeners go, the database stays), `Boot` |

Time is abstracted: a forward that has failed may be held back or not
(`SyncSkip`, `SkipRebuild`); how long is the subject of `RebuildBackoff`. Two
instances of one forward cannot listen at the same time, which is what the
operating system or the remote sshd ensures.

### RebuildBackoff

`calculateBackoff` multiplies 10^9 by 2^failures in a signed 64-bit integer.
TLC's integers are narrower, so the model keeps what the code can tell: seconds
up to the cap, and the sign bit, read off the 21-bit odd factor of 10^9.

### ForwardLifecycle

One model for the three kinds of forward, told apart by `kind`: a local forward
(llr) keeps no connection and takes one from the pool for each channel and each
check; a remote one (rll) keeps the connection it listens on; rlr keeps two.
`pc[g]` says where goroutine `g` is. A critical section of `statusMu` or
`connMu`, a call of the pool or of the network, and every access to a variable
that is shared without a lock is a step. Lines are those of the local forward
unless said otherwise.

| Code | Actions |
|---|---|
| `Start` (135-227; rlr 172-352) | `Begin`, `AcquireSource`, `AcquireTarget`, `AcquireFails`, `ListenSucceeds`, `ListenFails`, `ReportFailedStart`, `Refuse`, `SetRunning`, `Spawn` |
| deferred functions of `Start` | `CheckStarted`, `UndoRelease`, `UndoListen`, `ReportStart`, `Report`, `StartWrites` |
| health monitor, end-to-end monitor | `MonitorQuits`, `CheckNotRunning`, `LlrCheck`, `LlrNoConnection`, `LlrPasses`, `LlrFails`, `RemoteCheck`, `RemoteUse`, `RemoteNil`, `RemotePasses`, `RemoteFails`, `Report`, `MonitorCancels` |
| `acceptLoop` | `AcceptConn`, `AcceptStops`, `AcceptFails`, `AcceptVerdict`, `Report`, `WritesAndEnds` |
| `handleConnection`, `bidirectionalCopy` (`util.go`) | `AcquireForChannel`, `NoConnection`, `OpenChannel`, `OpenChannelFails`, `DialLocal`, `DialTarget`, `Register`, `LeaveCopy`, `CopierEnds`, `Unregister` |
| `SSHChannelConn.Close` (`multiplexed_forward.go`) | `FindsOpen` (the flag), `ReleaseChannel` (the channel and the pool) |
| `cleanupMonitor` | `CleanupBegins`, `CloseListener`, `CloseConns`, `ReleaseKept` |
| `stopWrapper` of the service, `Stop` | `StopWrapper`, `SetStopped`, `StopReturns` |
| the peers of a connection | `PeerCloses` |

Decisions worth knowing:

* `setErrorStatus` sets the status under its lock and writes to the database
  after it: two steps, `Report` and a step at `"write"`, between which the
  service sees the error and may stop the forward.
* A second close of `healthCheckDone` and the use of a kept connection that was
  set to nil end the process (`panicked`).
* `closing` holds the pairs of a connection and of the goroutine that found its
  channel open and is about to close it: the flag is not synchronised, so that
  there may be several.
* `refs` counts what each user has acquired from the pool minus what it has
  released. It may become negative for a channel, and only for a channel.
* `Monitors` names the monitors that check anything; one that is left out is
  one whose ticker has not ticked before the forward ends.
* `Kept` connections that fail are noticed by a monitor. How the pool treats
  them is the subject of `ConnectionPool`.

`ForwardInstance` has four variables: `health`, `bound` (a listener or a
goroutine is there), `reporting` (an error is still to be written) and
`stopping`. It says that a forward lets go of its listener only when it failed
or is being stopped, that `Stop` returns when nothing is left, and that no
error is written after it. The mapping (`Health`, `Bound`, `Reporting`,
`Stopping`) begins when the forward runs; before, the service sees a start that
has not returned.

### HopReuse

A chain of hops runs over the clients of its jump hosts: `path[l]` names them,
and the loss of one cuts whatever is behind it. The pool keys a hop by the
chain up to it. `hopInfos[f]` is the local of `EstablishWithReuse` that says
which hops were created and which reused.

| Code | Actions |
|---|---|
| `EstablishWithReuse` (`establisher.go:202-330`) | `FindHop`, `ReuseHop`, `ReuseHopFails`, `DialHop`, `AddPartial`, `EstablishFails` |
| `acquirePartial`, `addPartial` (`pool.go:257-320`) | in the actions above |
| `Acquire` (`pool.go:131-255`), `dialSSH` (323-348) | `Lookup`, `AcquireExisting`, `DropDead`, `Lead`, `Join`, `DoubleCheck`, `Insert`, `Finish`, `Forget`, `AcquireShared`, `AcquireSharedFails` |
| `Release`, `closeConnection`, `evictConnection` | `Release`, `CloseIdle`, `Evict` |
| the network | `PeerLost` |

The steps of the pool are coarser than in `ConnectionPool`, which has their
critical sections: here the question is which clients are closed, by whom, and
what runs over them. What is done to a connection that was looked up is one
step, and so is a `Release`; the look-ups, the call of the singleflight group
and its `Forget` are kept apart, so that any number of forwards may need one
chain: they join its dial, dial it a second time after a `Forget`, drop what
another has inserted since they looked the entry up (`pool.go:147`) and
overwrite it (229). `displaced` is a history: the connections that another call
has so taken out of `cm.pools` while they were open. `closeConnection` finds
that such a connection is not in the pool and returns (396-398), so that it
stays open unless its keepalive goroutine finds it dead.

`CloseConn` leaves `RefCount` alone as the code does, and a `Release` of a
closed connection counts it down and makes it idle. Once a closed connection is
in nobody's hands, nothing of it can be seen, and its fields take one value. A
live client answers its probe in time. A client or a connection that is down
and that nothing refers to gives its identifier back, as its memory would be
used again; which identifier a new one gets makes no difference.

### LeakRecovery

Remote forwards on one bind address of one host share a pooled connection, so
that one SSH session holds the listener of whoever got it. `remote` is what the
sshd knows; `entries` is the list of listeners in the client
(`golang.org/x/crypto`, external): a connection goes to the first of them, and
a `Close` takes the first off, whosever it is (the comment at
`remote_listen_to_local_test.go:218-223` describes it).

| Code | Actions |
|---|---|
| `leakRecoveryAllowed`, `buildForward` (`forward_service.go:675-800`) | `LeakRecoveryAllowed`, `Build` |
| `sync`, `rebuildErrorForward` | `SyncStart`, `SyncStop`, `Rebuild`, `RebuildStart`, `RebuildGone` |
| `Start` up to its listener (rll 178-237, rlr 196-267) | `Listen`, `Probe`, `Cancel`, `Relisten`, `StartFails` |
| accept loop, monitors | `NoticesEnd`, `InstanceFails` |
| `cleanupMonitor`, `Stop` | `Close`, `StopReturns` |
| `CreateForward`, `DeleteForward` | the same |
| the network | `SessionLost`, `SshdReclaims` |

The guard is evaluated when a forward is built and used after a denied listen
and a probe: two steps. A stored sibling always blocks it, for nothing writes
"stopped" to the database, so that the look at `pendingStarts` behind it is
never reached. `seen` keeps what the guard of an instance saw; `raced` says
that a recovery has retracted a listener whose owner it could not see, or of
its own record, and lasts until the list is empty again. The other end of rlr,
the references to the pool and the expiry of an idle session are left out; so
is the double start, which `ServiceTracking` has. A session that is lost may
leave its listener behind until the sshd finds out (`"foreign"`), and a cancel
may not be delivered.

## 3. Runs

| Run | Instance | Shows |
|---|---|---|
| `PoolSafety` | 2 forwards, 1 signature, 2 connections, 1 timer; slow probes | the safety invariants, the account of `RefCount`, and the inductive invariant of both (`RefIInv`) |
| `PoolLiveness` | 2 forwards, 1 connection; a peer that goes away | `AcquireReturns`, `DeadLeavesPool` |
| `PoolShutdown` | 1 forward, 2 connections; slow probes, health checks, `Close` | `ShutdownReturns`, `IdleReclaimedUnlessCancelled`, and the invariant with `Close` and `HandleFailure` |
| `PoolRefCount` | as `PoolSafety`, no probe fails | violated: `RefCountIsHolders` |
| `ServiceTracking` | 1 forward ID, 2 instances | `ServiceIInv`, `TrackedUnlessRaced`, `InstancesKeepContract`; as long as no `Stop` hangs in the sync loop, `RowIsServed`, `DeletedLeavesMap`, `FailedIsReplaced` |
| `ServicePending` | 1 forward ID, 1 instance | violated: `PendingSettles` |
| `ServiceOrphan` | 1 forward ID, 2 instances | violated: `DeletedStopsListening` |
| `Backoff` | up to 60 failures | `SpacedWhileItFits`, `TriedAgain` |
| `Lifecycle` | a forward of each kind, 1 connection, the health monitor | the invariants, the inductive one included; `ImplementsInstance`; `ChannelReleased`, `CancelledIsCleaned`, `StopReturnsUnlessLate` |
| `HopReuse` | 2 forwards: to t2 and through t2 to vmr, both to t2, or both through t2 to vmr; 2 clients, 3 connections | `HopIInv`, `NoClientLostUnlessDisplaced`, `RunsOverItsRoute`; `CutIsClosed` |
| `LeakRecovery` | 2 forwards on one bind, 3 instances, 2 API calls, 1 fault | `LeakIInv`, `OneHearerUnlessRaced`; `SyncNotBlocked`, `LoneForwardServes` |
| `HopShared` | t2 to vmr and t2 to dc4, the example of `establisher.go:193-201` | violated: `ReusedHopsKept` |

**Bounds.** Two forwards on one signature are what the races of the pool need:
one dials while the other joins, one releases while the other acquires, and a
third party (timer, keepalive goroutine, checker) acts on the connection between
them. There is one exception, which the runs do not reach: somebody who has
joined a call that is then forgotten takes a third forward, the one whose
failure forgets it. `WaitersServed` is proved for any number
(`NobodyWaitsInVain`); `AcquireReturns` is checked for two only. Two connections
let a newer one take the place of an older one that is still being used, evicted
or closed. Different signatures share only `cm.mu`; the proofs cover any number
of everything. When the connections are used up, `Dial` is disabled and only
`DialFails` remains; when the timers are, `Linger` waits. Neither bounds a
counter: `RefCount` is bounded by the number of forwards and the leak, which
`AtMostOneLeaked` bounds.

In the service, forwards of different IDs meet only in the sync loop, which is
sequential; the races are between goroutines, instances and rows of one ID. Two
instances are one in memory and the one that sync starts beside it, or one that
is stopping and its successor; an instance that has stopped is used again. With
one ID, that a `Stop` which hangs in the sync loop holds up other forwards too
cannot be seen; that it holds up its own is enough to refute the liveness
properties without `SyncGoesOn`. 60 failures are beyond the last change of the
backoff (55).

In a forward, connections meet only in `activeConns` (which `cleanupMonitor`
empties at once) and in the wait group; the races are between the goroutines of
one connection, the monitor, the accept loop, the clean-up and `Stop`. The two
monitors run the same code up to the connection they look at; the end-to-end
one does less. The safety properties and the refinement are proved for every
set of connections and both monitors.

In `LeakRecovery`, two forwards are what the guard is about, and three
instances let one be stopping while its record and its sibling are started.
Two calls delete a forward and create it again, or change both; one fault (a
cancel that is lost, a session that is, a failing forward) is enough to leak a
listener. `MaxCalls` and `MaxFaults` count them.

In `HopReuse`, 2 clients are a hop and the client behind it, or the clients of
two callers that dial one chain of one hop at a time; who needs one more waits
until one is down (`DialHop` needs a free client, `EstablishFails` does not), so
that two callers never have two chains of two hops up at once. 3 connections are
a chain, its pooled hop, and one that is replaced. Connections are displaced in
this instance by `DropDead` and by `Insert`, chains of two live hops among them,
and TLC refutes the claim without its exception. The theorems cover any numbers.
`MaxRefs` bounds `RefCount`, which every reuse of a hop raises and nothing
lowers: at the bound, who would take one more reference is held up, and every
hazard about counts appears at one already. A connection may always be lost, so
that a hop at the bound is replaced in the end.

**Deadlock** is checked in every run but `LeakRecovery`, which has nothing more
to do when its calls and faults are used up and its forward, if any, is served
(that nothing hangs is what `SyncNotBlocked` and `LoneForwardServes` say). In
the other models something can always happen
(a forward may acquire, the API may be called, a daemon may be started). A
forward that was stopped ends, and so does a process that panicked: for them
alone `ForwardLifecycle` has the step `Terminated`, which changes nothing.

**Fairness.** Pool: every goroutine is scheduled, timers expire, and a dial or a
probe ends because each has a deadline (30 s, 10 s, 5 s, 2 s); a probe of a
peer that is gone fails. Nothing obliges a forward to acquire or to release,
and a healthy peer need not time out. The checker's `select` chooses at random
between its ticker and `done`, so it cannot prefer the ticker for ever: strong
fairness of `CloseReturns`. Service: goroutines are scheduled, the ticker
ticks, an instance that is to report does so, and one that is told to stop
closes its listener; that its goroutines end, and so that its `Stop` returns, is
not assumed (section 2). Strong fairness of
`SyncStart` and of `Rebuild` says that a forward is not held back for ever; it
rests on `TriedAgain` of `RebuildBackoff`. Nobody is obliged to use the API, to
fail, or to start a daemon that was killed. A forward: each goroutine goes on
when it can; calls of the pool and of the network return, which the deadlines
and the keepalives of the pool ensure. A monitor selects at random among its
ticker and the channels that end it, so it does not choose the ticker for ever:
strong fairness of `MonitorQuits`. `Accept` has a deadline for llr only; for
rll and rlr the loop looks at its context only when the listener is closed.
Peers, users and `Stop` are obliged to nothing: a connection may stay open for
ever. `HopReuse`: the keepalive goroutine of a connection that was cut finds it
out (weak fairness of `Evict`), and nothing else. `LeakRecovery`: a request to
the sshd is answered or fails with its session, monitors probe and clean up,
the sshd reclaims what a dead session held, and sync comes to every record
(strong fairness of `SyncStart`, `SyncStop` and `Rebuild`, since it may be busy
with another when a record's turn comes).

## 4. What is proved

TLAPS proves for every set of forwards, signatures, connections and timers and
every subset of the events (`ConnectionPoolProofs`):

* `TypeCorrectness`: the types; `RefCount` is a natural number.
* `NoClosedConnectionPooled`: no entry of the pool is marked closed.
* `EveryPooledConnectionProbed`: every pooled connection has a keepalive
  goroutine, or its creator is about to start one.
* `NobodyWaitsInVain`: who joined a call waits for a forward that executes it.
* `IdleConnectionsLookedAfter`: an unreferenced pooled connection whose context
  is not cancelled is on the hands of a timer or of a forward.

The only assumption is `PoolSentinels`: the values for "nil" are not members of
the sets.

None of these is inductive alone; `PoolIInv` is. `ClosedNotPooled` needs that
whoever is about to close a connection has taken it out of the pool
(`TakenOut`) and that a connection not yet inserted is known to its dialler
only (`Private`, `Unborn`): otherwise an insertion could put back a closed one.
To know which entry a close concerns, `PooledSignature` and `Attached` tie map
keys, connections and callers to one signature. `KeepaliveCovers` follows since
the goroutine stops only for a closed connection, which `ClosedNotPooled` keeps
out. `WaitersServed` holds because a call is left only through `Finish`, which
serves all who joined it, while `Forget` touches the group and not the waiters;
`FlightLed` says that an entry of the group is a forward at work.
`IdleLookedAfter` needs `InHand`, the shape of the callers' locals and of the
timers. The proof has a lemma per obligation: `InitInv`, `TypeStep`, `InvStep`
(one step per action, under it the parts that action can disturb) and
`StutterInv`; the theorems combine them.

About a forward of any kind, with every set of connections and none, one or
both of the monitors (`ForwardLifecycleProofs`):

* `LifecycleInvariant`: the inductive invariant, stated as a property so that
  the run `Lifecycle` checks it too.
* `TypeCorrectness`: the types, with the bounds of `refs`.
* `RunningForwardAccepts`: while the status is "running" and nobody told the
  forward to end, it listens and its accept loop is at work.
* `KeptConnectionsReleasedOnce`: a kept connection is given back once, by
  whichever of the error paths of `Start`, its deferred function and
  `cleanupMonitor` comes first.
* `PanicsOnlyOnNil`: `healthCheckDone` is not closed twice; the one panic left
  is the use of a kept connection that a clean-up has set to nil.
* `StoppedForwardHoldsNothing`: what is left when `Stop` returns.
* `ForwardImplementsInstance`: `Spec => ImplementsInstance`, the refinement.

The assumption is `NamesAssumption`: connections are not named like one of the
other goroutines. `LifecycleIInv` is made of

* `Places`, `KeptByKind`: where the code of each goroutine can be. Without it
  the prover would let an accept loop be at a step of a monitor.
* `Alone`: until `Spawn` nobody else runs, and `Stop` begins when `Start` is
  over; this is why the fields `Start` sets without a lock are safe, and why
  its error paths and the clean-up do not meet.
* `OneCleanup`, `TornDown`: `sync.Once`. While it is busy exactly one of its two
  users is inside, and `listener` and `pooled` are as far as that one has got.
  `KeptReleasedOnce` and `PanicsOnNilOnly` rest on it.
* `StatusHistory`: the status is "running" once, from `SetRunning` to the first
  failure or stop, and as long as it is, nobody has an error to write and the
  accept loop has not ended: `RunningAccepts`.
* `KeptCounted`, `ChannelsCounted`: who holds which reference. A channel found
  open by several is released by each of them, at most three; what is
  left of them bounds `refs` from below.
* `StopWaited`: what the wait group is for.

`InvStep` has a step per action and under it one per part the action can
disturb; `SameChannel` and `ReleaseCounts` are what every action needs of the
channels. The refinement is `RefInit` and `RefStep`, one step per action
again: with the invariant, each step of the forward is a step of
`ForwardInstance` or leaves its variables alone.

About the account of references (`PoolReferencesProofs`), for every set of
connections and every finite set of forwards (`FiniteForwards`: the account
counts holders):

* `RefInvariant`: the inductive invariant `RefIInv`.
* `RefCountExact`: `RefCount` is the number of holders plus `drift`, and only
  the three places that `drift` records move the one without the other.
* `OneLeakAtMost`: `drift` never exceeds one.

Most steps change neither `RefCount` nor the forwards that hold the connection:
`QuietStep` shows it once for all of them. The others add or remove one holder,
or none (`HolderAdded`, `HolderRemoved`), and `AccountStep` has a step for each
of them. `OneLeakAtMost` rests on `OneDialer` and `NotYetLeaked`: a connection
is dialled by one forward, which leaks its reference, if at all, on its way out
of `Acquire`, and that is past once a `drift` of one has been recorded. A
release that finds the count at zero is the other way up; by the account, it
happens only while `drift` is negative.

About the service (`ServiceTrackingProofs`), for every set of forward IDs, rows
and instances, across crashes and restarts, from `ServiceSentinels`:

* `ServiceInvariant`: the inductive invariant `ServiceIInv`.
* `InstancesTracked`: an instance that listens or has an error to write is one
  somebody will stop, unless sync started its forward twice.
* `ContractKept`: `InstancesKeepContract`. Each step of the service takes each
  instance by a step of `ForwardInstance`, or leaves it alone. With
  `ForwardImplementsInstance`, both sides of the contract are proved.

`ServiceIInv` says why a forward has one starter at a time (`SoleStarter`).
The goroutine that sync starts is marked in `pendingStarts`; a rebuild has
taken the forward out of `s.forwards` and `errorForwards`; and at boot each
forward is met once (`BootInOrder`). Where sync's two look-ups let a second
start through, the ID is in `raced`, and stays there. `StoredNext` and
`OwnInstances` say that an instance between its start and its storing belongs
to its starter alone, and that the maps hold instances of their own key which
nobody has stopped. `Held` is `TrackedUnlessRaced` without the goroutines that
only have to let go; it is the part that is inductive.

About the recovery of denied listens (`LeakRecoveryProofs`), for every set of
records, instances and every bound of calls and faults:

* `LeakInvariant`: the inductive invariant `LeakIInv`.
* `OneHearer`: unless a recovery has met a forward that its guard could not
  see, one forward at most waits on the bind, and the sshd listens for it.

A listener is added after a listen, which the sshd grants only when nobody
holds the bind, or by a recovery. For the latter, `GuardSeen` says that who is
at the cancel has seen no record but its own; so a listener that is there
belongs to a forward the guard could not see, which is what `raced` records.
`ListenersStarted` keeps the listener that is about to be added from being on
the list already.

About chains of hops (`HopReuseProofs`), for every set of forwards, any routes,
shared by any of them or not, any numbers of clients and connections and any
bound of `RefCount`, from `RoutesAssumption` (routes are not empty, and the
values for "nil" are not members of the sets):

* `HopInvariant`: the inductive invariant `HopIInv`.
* `OnlyTheDisplacedAreLost`: an SSH client that is up was dialled by a call
  that is still building its chain, or a connection lists it that is in the pool
  or was displaced.
* `ChainsRunOverRoutes`: a pooled connection that answers runs over the
  machines of its signature, in order.

The second needs `PooledByKey`. A connection that leaves the pool is closed with
all it lists, or is displaced; one that was displaced is not closed without
leaving `displaced`, and no entry of the pool is taken for one. `PoolKeeps` and
`CloseKeeps` are the argument for the ways into the pool and out of it.

The third needs `RoutesKept`, the same for the hops of a call that is under way
and for every connection: a client runs over the route up to its hop as long as
it is alive. `ConnInHand` carries it over the probe of `acquirePartial`, between
which and the look-up the entry may be closed; `Dialled` and `OneFurther` are
its step for a new client. A client that goes down takes the claim of those
behind it away, never the other way round (`Closing`), so that no failure can
break it.

About the backoff (`RebuildBackoffProofs`), for every `FailureBound`:

* `TypeCorrectness`.
* `Spacing`: `SpacedWhileItFits`, from `BackoffAsDocumented` (what
  `calculateBackoff` yields up to the 33rd failure) and the guards.
  `OverflowsAt34` says that no larger number of failures would do.

**Only model-checked**: every liveness property (`AcquireReturns`,
`DeadLeavesPool`, `IdleReclaimedUnlessCancelled`, `ShutdownReturns`,
`RowIsServed`, `DeletedLeavesMap`, `FailedIsReplaced`, `TriedAgain`,
`ChannelReleased`, `CancelledIsCleaned`, `StopReturnsUnlessLate`,
`CutIsClosed`, `SyncNotBlocked`, `LoneForwardServes`): fairness and ENABLED are
out of this prover's reach. The four properties of the violation runs are
refuted by TLC. Every other property of a run is a theorem.

## 5. What the code does not do

The four violation runs are findings (`PROJECT.json` quotes the lines):

1. A shared dial leaks one reference: the connection is never recycled.
2. A forward deleted and created again between two syncs stays `pending`, with
   its old settings.
3. A forward started twice and rebuilt in between leaves an instance that
   nobody stops.
4. Two chains through one jump host: when the idle one expires, its
   `AllClients` are closed, and the other, in use, loses its transport.

Further departures met while modelling, each a few steps of the models away;
they are hazards, and the properties state what holds in spite of them:

* `Forget` lets two callers dial one signature at once (`pool.go:77` says the
  group prevents it); the loser of the insertion lives on outside the pool, and
  when it becomes idle, `closeConnection` (396-398) does not close it.
* `Acquire` may drop a healthy newer connection instead of the dead one
  (`pool.go:144-148`), which then lives on in the same way. These are the two
  cases that `NoClientLostUnlessDisplaced` exempts.
* A connection re-acquired while `closeConnection` runs is closed under its
  user (`pool.go:400-402`).
* `Release` makes a closed connection `Idle` (`connection.go:20`, `146`).
* Closing a connection unregisters its successor from the health checker
  (`pool.go:84`, `health_checker.go:83`).
* A failed health check of a connection in use makes it unreclaimable when it
  is released (`health_checker.go:172`).
* `sync` starts a forward that is already in memory when an earlier start
  completes between its two look-ups (`forward_service.go:367`).
* Late status writes leave a status row for a deleted forward, so that creating
  it again fails on the key (`database.go:109-110`) until it is deleted once
  more or the daemon restarts.
* The backoff overflows after 33 failures, a negative interval being none, and
  is 0 from 55 on (`forward_service.go:960`, against the comment at 923);
  `SpacedWhileItFits` is about the failures before.
* `SSHChannelConn.Close` says that it is idempotent
  (`multiplexed_forward.go:188-193`), but its flag is tested and set without a
  lock: handler, copier and `cleanupMonitor` may each release the connection.
  `refs` may be -2 for this reason.
* A connection that is being set up while `cleanupMonitor` closes the others is
  registered afterwards and closed by nobody; `Stop` waits as long as its peers
  use it (`local_listen_to_remote.go:332`). `StopReturnsUnlessLate` names it.
* The accept loop does not recognise the error of its own closed listener
  (274), and tests the status before it sets it (238): a forward that is being
  stopped may report an error, and overwrite "stopped".
* A connection accepted by rlr just before its clean-up dereferences nil
  (`remote_listen_to_remote.go:508`), and so may a monitor of rll or rlr
  (603): the daemon panics. `PanicsOnNilOnly` says that nothing else ends it.
* References that a chain takes on the hops it reuses are released by nobody,
  so that a pooled hop that was reused never expires (`pool.go:257`).
* A call that fails at a later hop closes the hops it created, also the ones it
  has pooled and another chain has reused (`establisher.go:324`); until a
  keepalive finds the entry dead, `addPartial` adds no live hop over it.
* A chain goes into the pool over a hop that was added since the double-check
  (`pool.go:229`); the overwritten entry lives on outside the pool.
* A `Stop` that hangs in a rebuild holds up the reconciliation of every forward
  (`forward_service.go:1021`); the liveness properties of the service are
  conditioned on `SyncGoesOn` for this reason.
* The sibling guard is meant to keep two forwards from retracting each other's
  listener (`forward_service.go:669-673`), but it looks when the forward is
  built: a sibling created between that and the denied listen loses its
  listener (`OneHearerUnlessRaced` names the case). From there the two may go
  on for ever, each listening while the other has yet to close.
* Nothing writes "stopped" to the database, so a stored sibling, running or
  not and on whatever host, always rules recovery out: with two forwards on
  one bind, a leaked listener stays as long as its session.
  `LoneForwardServes` is about a forward that is alone for this reason.

## 6. Plan

1. *(done)* `ConnectionPool`, its invariant, runs and proofs.
2. *(done)* `ForwardService` and `ServiceTracking`; `RebuildBackoff`.
3. *(done)* `ForwardInstance` and `ForwardLifecycle` with the channels of a
   connection; its invariant, the refinement, run and proofs; the contract
   checked on the side of the service.
4. *(done)* `HopReuse`.
5. *(done)* `LeakRecovery`: sibling guard and denied listen of two remote
   forwards.
6. `DaemonShutdown`: `StopWithContext` against starts under way.
7. `JumpChain`: ProxyJump resolution against a reference definition.
8. Abstract specifications: a pool in which a signature is `absent`,
   `available` or `in use`, implemented by `ConnectionPool`; a reconciler whose
   memory follows its rows, implemented by `ForwardService`.
9. *(done)* Proofs: the account of `RefCount`; the service and the contract of
   its instances; the recovery of denied listens; chains of hops; the backoff.
10. Proofs left: the refinements of item 8.

## 7. Not modelled

The end-to-end probe appears as an outcome of a check; what it does on the
other machine is not modelled. `Establish` (without reuse) has no caller. The
shutdown of the service with its deadline and the resolution of ProxyJump
chains are in the plan.

Byte copying, SSH authentication and host keys, key loading, SQL, HTTP and text
parsing have no protocol of their own that the properties could see: they are
the outcomes (success, failure, time-out) of actions. `PROJECT.json` gives the
reason for each component.
