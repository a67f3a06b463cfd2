------------------------------ MODULE HopReuse ------------------------------
(***************************************************************************)
(* Chains of hops and the SSH clients they share: EstablishWithReuse of    *)
(* src/internal/connection/establisher.go with the paths of the pool       *)
(* (pool.go) that hand out, add, expire and evict what it builds.          *)
(*                                                                         *)
(* A chain runs over the clients of its jump hosts, so closing a client    *)
(* cuts every client behind it.  The pool keys a hop by the chain up to    *)
(* it, which is what buildPartialSignature computes.                       *)
(*                                                                         *)
(* Granularity.  ConnectionPool splits Acquire, Release and the closing of *)
(* one connection into their critical sections; here what is done to a     *)
(* connection that was looked up is one step, and so is a Release, but the *)
(* look-ups and the call of the singleflight group are kept apart from it. *)
(* EstablishWithReuse, which runs outside every lock, is one step for each *)
(* access to the pool and each dial.  A live client answers a probe in     *)
(* time.                                                                   *)
(*                                                                         *)
(* The identifier of a client that is down, or of a closed connection, is  *)
(* used again once nothing refers to it, as its memory would be.  A closed *)
(* connection keeps its RefCount and may become idle again; its clients    *)
(* are closed, and that is all that can be seen of them.                   *)
(***************************************************************************)
EXTENDS Integers, FiniteSets, SequencesExt

CONSTANTS
    Forwards,   \* the goroutines that call Acquire and Release
    Configured, \* what may be configured: for each forward the chain it
                \* needs, jump hosts, then the target
    Clients,    \* SSH clients, of which only so many exist at a time
    Conns,      \* PooledConnection objects, likewise
    MaxRefs,    \* bound: RefCount, which reuse raises and nothing lowers
    NoForward,  \* no call in the singleflight group
    NoConn,     \* nil, or "absent from the map"
    NoClient    \* a client that its connection has closed

Routes == UNION {{g[f] : f \in Forwards} : g \in Configured}

Hosts == UNION {ToSet(r) : r \in Routes}

(* buildPartialSignature of every chain up to every hop.                   *)
Keys == (UNION {Prefixes(r) : r \in Routes}) \ {<<>>}

ASSUME RoutesAssumption ==
    /\ Configured \subseteq [Forwards -> Seq(STRING) \ {<<>>}]
    /\ NoForward \notin Forwards
    /\ NoConn \notin Conns
    /\ NoClient \notin Clients
    /\ MaxRefs \in Nat \ {0}

VARIABLES
    route,     \* the chain that each forward needs
    pools,     \* cm.pools
    flight,    \* cm.dialGroup: the forward that executes the call of a chain
    \* PooledConnection
    key,       \* conn.Signature, <<>> if closed or not there yet
    client,    \* conn.Client, NoClient likewise
    all,       \* conn.AllClients, <<>> likewise or if addPartial made it
    refCount,  \* conn.RefCount
    status,    \* conn.Status, "closed" also before there is one
    \* ssh.Client
    path,      \* the clients its transport runs over, itself the last;
               \* <<>> for a client that was closed or whose peer is gone
    host,      \* the machine it is logged in to
    \* Acquire: program counter and locals
    pc, conn,
    leader,    \* whose call it waits for
    hopInfos,  \* hopInfos of EstablishWithReuse
    \* history
    displaced  \* connections that another call took out of cm.pools, open

connVars   == <<key, client, all, refCount, status>>
clientVars == <<path, host>>
vars == <<route, pools, flight, connVars, clientVars, pc, conn, leader,
          hopInfos, displaced>>

HopInfo == [client : Clients, source : {"created", "reused"}]

TypeOK ==
    /\ route \in Configured
    /\ flight \in [Routes -> Forwards \cup {NoForward}]
    /\ pools \in [Keys -> Conns \cup {NoConn}]
    /\ key \in [Conns -> Keys \cup {<<>>}]
    /\ client \in [Conns -> Clients \cup {NoClient}]
    /\ all \in [Conns -> Seq(Clients)]
    /\ refCount \in [Conns -> 0..MaxRefs]
    /\ status \in [Conns -> {"active", "idle", "closed"}]
    /\ path \in [Clients -> Seq(Clients)]
    /\ host \in [Clients -> Hosts \cup {""}]
    /\ pc \in [Forwards -> {"out", "check", "join", "wait", "double", "hop",
                            "probe", "dial", "add", "insert", "finish",
                            "result", "forget", "using"}]
    /\ conn \in [Forwards -> Conns \cup {NoConn}]
    /\ leader \in [Forwards -> Forwards \cup {NoForward}]
    /\ hopInfos \in [Forwards -> Seq(HopInfo)]
    /\ displaced \in SUBSET Conns

Init ==
    /\ route \in Configured
    /\ pools = [k \in Keys |-> NoConn]
    /\ flight = [r \in Routes |-> NoForward]
    /\ key = [c \in Conns |-> <<>>]
    /\ client = [c \in Conns |-> NoClient]
    /\ all = [c \in Conns |-> <<>>]
    /\ refCount = [c \in Conns |-> 0]
    /\ status = [c \in Conns |-> "closed"]
    /\ path = [l \in Clients |-> <<>>]
    /\ host = [l \in Clients |-> ""]
    /\ pc = [f \in Forwards |-> "out"]
    /\ conn = [f \in Forwards |-> NoConn]
    /\ leader = [f \in Forwards |-> NoForward]
    /\ hopInfos = [f \in Forwards |-> <<>>]
    /\ displaced = {}

-----------------------------------------------------------------------------
Up(l) == path[l] # <<>>

(* A keepalive over the client is answered: every hop before it is up too. *)
Alive(l) == l # NoClient /\ Up(l) /\ \A m \in ToSet(path[l]) : Up(m)

(* isConnectionAlive, and probeConnection.                                 *)
Answers(c) == status[c] # "closed" /\ Alive(client[c])

FreshClients == {l \in Clients :
    /\ ~Up(l)
    /\ \A m \in Clients : l \notin ToSet(path[m])
    /\ \A c \in Conns : l # client[c] /\ l \notin ToSet(all[c])
    /\ \A f \in Forwards : \A i \in DOMAIN hopInfos[f] :
          l # hopInfos[f][i].client}

FreshConns == {c \in Conns : key[c] = <<>> /\ \A f \in Forwards : conn[f] # c}

Goto(f, step) == pc' = [pc EXCEPT ![f] = step]

(* client.Close, of clients that may be down already.                      *)
CloseClients(L) ==
    /\ path' = [l \in Clients |-> IF l \in L THEN <<>> ELSE path[l]]
    /\ host' = [l \in Clients |-> IF l \in L THEN "" ELSE host[l]]

(* The clients that a connection closes: AllClients, or Client where there *)
(* is no AllClients.                                                       *)
ClientsOf(c) == IF all[c] = <<>> THEN {client[c]} ELSE ToSet(all[c])

HeldByOthers(c, f) == \E g \in Forwards \ {f} : conn[g] = c

(* Mutant: only the last client of the chain is closed. *)
CloseConnLast(c, f) ==
    /\ CloseClients({client[c]})
    /\ status' = [status EXCEPT ![c] = "closed"]
    /\ key' = [key EXCEPT ![c] = <<>>]
    /\ client' = [client EXCEPT ![c] = NoClient]
    /\ all' = [all EXCEPT ![c] = <<>>]
    /\ refCount' = [refCount EXCEPT ![c] = IF HeldByOthers(c, f) THEN @ ELSE 0]

(* conn.Close, which leaves RefCount alone, then Close of the clients, by  *)
(* forward f or by a goroutine of the pool.                                *)
CloseConn(c, f) ==
    /\ CloseClients(ClientsOf(c))
    /\ status' = [status EXCEPT ![c] = "closed"]
    /\ key' = [key EXCEPT ![c] = <<>>]
    /\ client' = [client EXCEPT ![c] = NoClient]
    /\ all' = [all EXCEPT ![c] = <<>>]
    /\ refCount' = [refCount EXCEPT ![c] = IF HeldByOthers(c, f) THEN @ ELSE 0]

(* conn.Acquire on a connection that is not closed.                        *)
TakeRef(c) ==
    /\ status[c] # "closed"
    /\ refCount[c] < MaxRefs
    /\ refCount' = [refCount EXCEPT ![c] = @ + 1]
    /\ status' = [status EXCEPT ![c] = "active"]
    /\ UNCHANGED <<key, client, all>>

(* Forward f lets go of c: of a closed connection that is in nobody's      *)
(* hands nothing can be seen any more.                                     *)
LetGo(c, f, n, s) ==
    LET unseen == key[c] = <<>> /\ ~HeldByOthers(c, f) IN
    /\ refCount' = [refCount EXCEPT ![c] = IF unseen THEN 0 ELSE n]
    /\ status' = [status EXCEPT ![c] = IF unseen THEN "closed" ELSE s]
    /\ UNCHANGED <<key, client, all>>

NewConn == CHOOSE c \in FreshConns : TRUE

(* The literals that build a PooledConnection, of RefCount 1, and the      *)
(* assignment to cm.pools[hash].                                           *)
PoolConn(k, l, ls) ==
    /\ FreshConns # {}
    /\ key' = [key EXCEPT ![NewConn] = k]
    /\ client' = [client EXCEPT ![NewConn] = l]
    /\ all' = [all EXCEPT ![NewConn] = ls]
    /\ refCount' = [refCount EXCEPT ![NewConn] = 1]
    /\ status' = [status EXCEPT ![NewConn] = "active"]
    /\ pools' = [pools EXCEPT ![k] = NewConn]

-----------------------------------------------------------------------------
(* Acquire.                                                                *)

Lookup(f) ==
    /\ pc[f] = "out"
    /\ conn' = [conn EXCEPT ![f] = pools[route[f]]]
    /\ Goto(f, IF pools[route[f]] = NoConn THEN "join" ELSE "check")
    /\ UNCHANGED <<route, pools, flight, connVars, clientVars, leader, hopInfos,
                   displaced>>

AcquireExisting(f) ==
    /\ pc[f] = "check"
    /\ Answers(conn[f])
    /\ TakeRef(conn[f])
    /\ Goto(f, "using")
    /\ UNCHANGED <<route, pools, flight, clientVars, conn, leader, hopInfos,
                   displaced>>

(* delete(cm.pools, hash): whatever connection the pool holds under the    *)
(* signature by now leaves it; the one that was looked up is closed.       *)
DropDead(f) ==
    /\ pc[f] = "check"
    /\ ~Answers(conn[f])
    /\ pools' = [pools EXCEPT ![route[f]] = NoConn]
    /\ displaced' = (displaced \cup {pools[route[f]]}) \ {NoConn, conn[f]}
    /\ CloseConn(conn[f], f)
    /\ conn' = [conn EXCEPT ![f] = NoConn]
    /\ Goto(f, "join")
    /\ UNCHANGED <<route, flight, leader, hopInfos>>

-----------------------------------------------------------------------------
(* dialGroup.Do(hash, ...).                                                *)

Lead(f) ==
    /\ pc[f] = "join"
    /\ flight[route[f]] = NoForward
    /\ flight' = [flight EXCEPT ![route[f]] = f]
    /\ Goto(f, "double")
    /\ UNCHANGED <<route, pools, connVars, clientVars, conn, leader, hopInfos,
                   displaced>>

Join(f) ==
    /\ pc[f] = "join"
    /\ flight[route[f]] # NoForward
    /\ leader' = [leader EXCEPT ![f] = flight[route[f]]]
    /\ Goto(f, "wait")
    /\ UNCHANGED <<route, pools, flight, connVars, clientVars, conn, hopInfos,
                   displaced>>

(* The double-check hands out the connection without conn.Acquire.         *)
DoubleCheck(f) ==
    /\ pc[f] = "double"
    /\ conn' = [conn EXCEPT ![f] = pools[route[f]]]
    /\ Goto(f, IF pools[route[f]] = NoConn THEN "hop" ELSE "finish")
    /\ UNCHANGED <<route, pools, flight, connVars, clientVars, leader, hopInfos,
                   displaced>>

Waiters(f) == {g \in Forwards : pc[g] = "wait" /\ leader[g] = f}

(* Where the callers go: after an error, to dialGroup.Forget; with a       *)
(* result that was shared, to conn.Acquire.                                *)
Outcome(f) ==
    IF conn[f] = NoConn THEN "forget"
    ELSE IF Waiters(f) # {} THEN "result" ELSE "using"

(* The call ends, and everybody who joined it gets what it returns.        *)
Finish(f) ==
    LET callers == Waiters(f) \cup {f} IN
    /\ pc[f] = "finish"
    /\ flight' = [flight EXCEPT ![route[f]] = IF @ = f THEN NoForward ELSE @]
    /\ pc' = [g \in Forwards |-> IF g \in callers THEN Outcome(f) ELSE pc[g]]
    /\ conn' = [g \in Forwards |-> IF g \in callers THEN conn[f] ELSE conn[g]]
    /\ leader' = [g \in Forwards |->
          IF g \in callers THEN NoForward ELSE leader[g]]
    /\ UNCHANGED <<route, pools, connVars, clientVars, hopInfos, displaced>>

(* dialGroup.Forget(hash), whichever call is there by now.                 *)
Forget(f) ==
    /\ pc[f] = "forget"
    /\ flight' = [flight EXCEPT ![route[f]] = NoForward]
    /\ Goto(f, "out")
    /\ UNCHANGED <<route, pools, connVars, clientVars, conn, leader, hopInfos,
                   displaced>>

AcquireShared(f) ==
    /\ pc[f] = "result"
    /\ TakeRef(conn[f])
    /\ Goto(f, "using")
    /\ UNCHANGED <<route, pools, flight, clientVars, conn, leader, hopInfos,
                   displaced>>

(* Closed meanwhile: Acquire returns an error.                             *)
AcquireSharedFails(f) ==
    /\ pc[f] = "result"
    /\ status[conn[f]] = "closed"
    /\ LetGo(conn[f], f, refCount[conn[f]], "closed")
    /\ conn' = [conn EXCEPT ![f] = NoConn]
    /\ Goto(f, "out")
    /\ UNCHANGED <<route, pools, flight, clientVars, leader, hopInfos,
                   displaced>>

-----------------------------------------------------------------------------
(* EstablishWithReuse: one turn of the loop for each hop.                  *)

(* buildPartialSignature(hops[:i+1]).                                      *)
Key(f) == SubSeq(route[f], 1, Len(hopInfos[f]) + 1)

AddHop(f, l, source) ==
    hopInfos' = [hopInfos EXCEPT ![f] =
                    Append(@, [client |-> l, source |-> source])]

(* acquirePartial: the entry is read under cm.mu, then probed.             *)
FindHop(f) ==
    /\ pc[f] = "hop"
    /\ conn' = [conn EXCEPT ![f] = pools[Key(f)]]
    /\ Goto(f, IF pools[Key(f)] = NoConn THEN "dial" ELSE "probe")
    /\ UNCHANGED <<route, pools, flight, connVars, clientVars, leader, hopInfos,
                   displaced>>

ReuseHop(f) ==
    /\ pc[f] = "probe"
    /\ Answers(conn[f])
    /\ TakeRef(conn[f])
    /\ AddHop(f, client[conn[f]], "reused")
    /\ Goto(f, IF Key(f) = route[f] THEN "insert" ELSE "hop")
    /\ conn' = [conn EXCEPT ![f] = NoConn]
    /\ UNCHANGED <<route, pools, flight, clientVars, leader, displaced>>

ReuseHopFails(f) ==
    /\ pc[f] = "probe"
    /\ ~Answers(conn[f])
    /\ LetGo(conn[f], f, refCount[conn[f]], status[conn[f]])
    /\ Goto(f, "dial")
    /\ conn' = [conn EXCEPT ![f] = NoConn]
    /\ UNCHANGED <<route, pools, flight, clientVars, leader, hopInfos,
                   displaced>>

(* Build, dial through the previous client, handshake.                     *)
DialHop(f) ==
    LET l == CHOOSE m \in FreshClients : TRUE
        through == IF hopInfos[f] = <<>> THEN <<>>
                   ELSE path[Last(hopInfos[f]).client] IN
    /\ pc[f] = "dial"
    /\ FreshClients # {}
    /\ hopInfos[f] # <<>> => Alive(Last(hopInfos[f]).client)
    /\ path' = [path EXCEPT ![l] = Append(through, l)]
    /\ host' = [host EXCEPT ![l] = Last(Key(f))]
    /\ AddHop(f, l, "created")
    /\ Goto(f, IF Key(f) = route[f] THEN "insert" ELSE "add")
    /\ UNCHANGED <<route, pools, flight, connVars, conn, leader, displaced>>

(* Mutant: the hop is pooled under the signature of the whole chain. *)
AddPartialWhole(f) ==
    /\ pc[f] = "add"
    /\ IF pools[route[f]] = NoConn
       THEN PoolConn(route[f], Last(hopInfos[f]).client, <<>>)
       ELSE UNCHANGED <<pools, connVars>>
    /\ Goto(f, "hop")
    /\ UNCHANGED <<route, flight, clientVars, conn, leader, hopInfos,
                   displaced>>

(* addPartial leaves an entry alone, dead or not; the hop is then used     *)
(* without being pooled.                                                   *)
AddPartial(f) ==
    LET k == SubSeq(route[f], 1, Len(hopInfos[f])) IN
    /\ pc[f] = "add"
    /\ IF pools[k] = NoConn
       THEN PoolConn(k, Last(hopInfos[f]).client, <<>>)
       ELSE UNCHANGED <<pools, connVars>>
    /\ Goto(f, "hop")
    /\ UNCHANGED <<route, flight, clientVars, conn, leader, hopInfos,
                   displaced>>

Created(f) == {hopInfos[f][i].client :
                  i \in {j \in DOMAIN hopInfos[f] :
                            hopInfos[f][j].source = "created"}}

(* The context is cancelled, or the hop cannot be reached: the hops that   *)
(* this call created are closed, in the pool or not.                       *)
EstablishFails(f) ==
    /\ pc[f] \in {"hop", "dial"}
    /\ CloseClients(Created(f))
    /\ hopInfos' = [hopInfos EXCEPT ![f] = <<>>]
    /\ Goto(f, "finish")
    /\ UNCHANGED <<route, pools, flight, connVars, conn, leader, displaced>>

(* Back in Acquire: the chain goes into the pool, over whatever is there.  *)
Insert(f) ==
    /\ pc[f] = "insert"
    /\ displaced' = (displaced \cup {pools[route[f]]}) \ {NoConn}
    /\ PoolConn(route[f], Last(hopInfos[f]).client,
                [i \in DOMAIN hopInfos[f] |-> hopInfos[f][i].client])
    /\ conn' = [conn EXCEPT ![f] = NewConn]
    /\ hopInfos' = [hopInfos EXCEPT ![f] = <<>>]
    /\ Goto(f, "finish")
    /\ UNCHANGED <<route, flight, clientVars, leader>>

-----------------------------------------------------------------------------
(* Mutant: the count is not checked. *)
ReleaseUnchecked(f) ==
    LET c == conn[f]
        n == refCount[c] - 1 IN
    /\ pc[f] = "using"
    /\ LetGo(c, f, n, IF n = 0 THEN "idle" ELSE status[c])
    /\ Goto(f, "out")
    /\ conn' = [conn EXCEPT ![f] = NoConn]
    /\ UNCHANGED <<route, pools, flight, clientVars, leader, hopInfos,
                   displaced>>

(* Release.  A count that is 0 already is an error and changes nothing;    *)
(* one that becomes 0 makes the connection idle, a closed one too.         *)
Release(f) ==
    LET c == conn[f]
        n == IF refCount[c] > 0 THEN refCount[c] - 1 ELSE 0 IN
    /\ pc[f] = "using"
    /\ LetGo(c, f, n, IF refCount[c] = 1 THEN "idle" ELSE status[c])
    /\ Goto(f, "out")
    /\ conn' = [conn EXCEPT ![f] = NoConn]
    /\ UNCHANGED <<route, pools, flight, clientVars, leader, hopInfos,
                   displaced>>

(* closeConnection, IdleTimeout after a Release that left no reference.    *)
CloseIdle(c) ==
    /\ key[c] # <<>>
    /\ refCount[c] = 0
    /\ pools[key[c]] = c
    /\ pools' = [pools EXCEPT ![key[c]] = NoConn]
    /\ CloseConn(c, NoForward)
    /\ UNCHANGED <<route, flight, pc, conn, leader, hopInfos, displaced>>

(* Mutant: a connection in use is left alone. *)
EvictUnused(c) ==
    /\ status[c] = "idle"
    /\ ~Alive(client[c])
    /\ pools' = [k \in Keys |-> IF pools[k] = c THEN NoConn ELSE pools[k]]
    /\ displaced' = displaced \ {c}
    /\ CloseConn(c, NoForward)
    /\ UNCHANGED <<route, flight, pc, conn, leader, hopInfos>>

(* startKeepalive finds the peer silent: evictConnection, whatever the     *)
(* reference count.  Its goroutine ends when it meets the connection       *)
(* closed; the eviction of one that a Release has made idle afterwards     *)
(* finds its clients closed.                                               *)
Evict(c) ==
    /\ status[c] # "closed"
    /\ ~Alive(client[c])
    /\ pools' = [k \in Keys |-> IF pools[k] = c THEN NoConn ELSE pools[k]]
    /\ displaced' = displaced \ {c}
    /\ CloseConn(c, NoForward)
    /\ UNCHANGED <<route, flight, pc, conn, leader, hopInfos>>

(* The machine at the other end of a client goes away.                     *)
PeerLost(l) ==
    /\ Up(l)
    /\ CloseClients({l})
    /\ UNCHANGED <<route, pools, flight, connVars, pc, conn, leader, hopInfos,
                   displaced>>

Next ==
    \/ \E f \in Forwards :
          \/ Lookup(f)
          \/ AcquireExisting(f)
          \/ DropDead(f)
          \/ Lead(f)
          \/ Join(f)
          \/ DoubleCheck(f)
          \/ Finish(f)
          \/ Forget(f)
          \/ AcquireShared(f)
          \/ AcquireSharedFails(f)
          \/ FindHop(f)
          \/ ReuseHop(f)
          \/ ReuseHopFails(f)
          \/ DialHop(f)
          \/ AddPartial(f)
          \/ Insert(f)
          \/ EstablishFails(f)
          \/ Release(f)
    \/ \E c \in Conns : CloseIdle(c) \/ Evict(c)
    \/ \E l \in Clients : PeerLost(l)

Spec == Init /\ [][Next]_vars

(* The goroutine of startKeepalive probes at every tick and ends only with *)
(* its connection.                                                         *)
FairSpec == Spec /\ \A c \in Conns : WF_vars(Evict(c))

-----------------------------------------------------------------------------
(* Properties.                                                             *)

(* A call that is building a chain dialled it, or a connection in the pool *)
(* lists it, or one that was taken out of the pool without being closed.   *)
Kept(l) ==
    \/ \E f \in Forwards : l \in Created(f)
    \/ \E k \in Keys : pools[k] # NoConn /\ l \in ToSet(all[pools[k]])
    \/ \E c \in displaced : l \in ToSet(all[c])

(* A client that is up is one that somebody will close, whatever hops      *)
(* failed to connect, were reused, evicted or overwritten meanwhile: the   *)
(* call that dialled it is still building its chain, or the chain is in    *)
(* the pool and lists it in AllClients.  The only exception is a chain     *)
(* that another caller of the same signature took out of the pool, by the  *)
(* unlocked delete after a failed probe or by dialling it a second time:   *)
(* closeConnection then returns without closing it.                        *)
NoClientLostUnlessDisplaced ==
    \A l \in Clients : Up(l) => Kept(l)

(* A pooled connection that answers runs over exactly the machines of its  *)
(* signature, in order, however its hops were put together from those of   *)
(* other chains.                                                           *)
RunsOverItsRoute ==
    \A k \in Keys : pools[k] # NoConn /\ Answers(pools[k]) =>
        LET over == path[client[pools[k]]] IN
        [i \in DOMAIN over |-> host[over[i]]] = k

(* No connection stays cut and open, at whichever of its hops and by       *)
(* whomever it was cut, and although nobody releases it: its forward is    *)
(* rebuilt, and its hops can be pooled again (addPartial adds no hop over  *)
(* a dead entry).  So it is also with those that were displaced.           *)
Cut(c) == key[c] # <<>> /\ ~Alive(client[c])

CutIsClosed == \A c \in Conns : []<>~Cut(c)

(* "HopReused hops should only have their reference count decremented":    *)
(* the expiry of an idle connection cuts no connection in use.             *)
ReusedHopsKept ==
    [][\A c \in Conns : CloseIdle(c) =>
          \A f \in Forwards : pc[f] = "using" /\ conn[f] # c =>
              (Answers(conn[f]) => Answers(conn[f])')]_vars

-----------------------------------------------------------------------------
(* Why the two invariants hold: the inductive one.                         *)

(* A call has as many hops as its step tells.                              *)
HopsCounted ==
    \A f \in Forwards :
        LET n == Len(hopInfos[f]) IN
        /\ pc[f] \in {"hop", "probe", "dial"} => n < Len(route[f])
        /\ pc[f] = "add" => 0 < n /\ n < Len(route[f])
        /\ pc[f] = "insert" => n = Len(route[f])
        /\ pc[f] \notin {"hop", "probe", "dial", "add", "insert"} => n = 0

(* The pool's entries are connections of that signature, not closed.  One  *)
(* that was displaced is not closed either, and does not come back.        *)
PooledByKey ==
    /\ \A k \in Keys : pools[k] # NoConn =>
          status[pools[k]] # "closed" /\ key[pools[k]] = k
    /\ \A c \in displaced : key[c] # <<>> /\ pools[key[c]] # c
    /\ \A c \in Conns : key[c] = <<>> <=> client[c] = NoClient

(* The connection a forward has in hand, and what it was looked up for.    *)
InHand(f) ==
    /\ pc[f] \in {"check", "probe", "result", "using"} => conn[f] \in Conns
    /\ conn[f] \in Conns => key[conn[f]] \in
          {<<>>, IF pc[f] = "probe" THEN Key(f) ELSE route[f]}

ConnInHand == \A f \in Forwards : InHand(f)

(* Who executes a call, and who waits for it, needs the chain of the call. *)
CallsByRoute ==
    /\ \A r \in Routes : flight[r] # NoForward => route[flight[r]] = r
    /\ \A f \in Forwards : pc[f] = "wait" =>
          leader[f] \in Forwards /\ route[leader[f]] = route[f]

(* The machines a client runs over.                                        *)
Over(l) == [i \in DOMAIN path[l] |-> host[path[l][i]]]

(* A client that is alive runs over what it was dialled for.               *)
ConnRoute(c) ==
    \A l \in Clients :
        key[c] # <<>> /\ client[c] = l /\ Alive(l) => Over(l) = key[c]
HopRoute(f, i) ==
    \A l \in Clients :
        hopInfos[f][i].client = l /\ Alive(l) => Over(l) = SubSeq(route[f], 1, i)

RoutesKept ==
    /\ \A c \in Conns : ConnRoute(c)
    /\ \A f \in Forwards : \A i \in DOMAIN hopInfos[f] : HopRoute(f, i)

HopIInv ==
    /\ TypeOK
    /\ HopsCounted /\ PooledByKey /\ ConnInHand /\ CallsByRoute
    /\ RoutesKept /\ NoClientLostUnlessDisplaced
=============================================================================
