--------------------------- MODULE PoolReferences ---------------------------
(***************************************************************************)
(* The pool with a history of how RefCount departs from the number of      *)
(* forwards that hold the connection.  The history follows what Acquire    *)
(* and Release do at three places of pool.go; every other step must keep   *)
(* the two equal.                                                          *)
(***************************************************************************)
EXTENDS ConnectionPoolInv, TLC

(* Cardinality has a meaning for finite sets only.                         *)
ASSUME FiniteForwards == IsFiniteSet(Forwards)

VARIABLE drift   \* connection -> RefCount minus its holders, as explained

(* The forward that dialled owns RefCount: 1 and, its call being shared,   *)
(* acquires once more, or fails to and returns an error without releasing. *)
ExtraReference(f, c) ==
    /\ pc[f] = "result" /\ conn[f] = c
    /\ dialed[f] /\ shared[f]
    /\ pc'[f] \in {"using", "out"}

(* The double-check found the connection and nobody joined the call: it is *)
(* returned without pc.Acquire.                                            *)
FreeRide(f, c) ==
    /\ pc[f] = "result" /\ conn[f] = c
    /\ ~dialed[f] /\ ~shared[f]
    /\ pc'[f] = "using"

(* Release finds RefCount at zero and returns an error.                    *)
ReleaseRefused(f, c) == pc[f] = "using" /\ conn[f] = c /\ pc'[f] = "out"

RefInit == Init /\ drift = [c \in Conns |-> 0]

RefNext ==
    /\ Next
    /\ drift' = [c \in Conns |->
          CASE \E f \in Forwards : ExtraReference(f, c) \/ ReleaseRefused(f, c)
                 -> drift[c] + 1
            [] \E f \in Forwards : FreeRide(f, c) -> drift[c] - 1
            [] OTHER -> drift[c]]

RefSpec == RefInit /\ [][RefNext]_<<vars, drift>>

-----------------------------------------------------------------------------
(* RefCount is exact up to those three places: no interleaving of Acquire, *)
(* Release, lingering and eviction loses or adds a reference elsewhere     *)
(* (connection.go 113-150, pool.go 187-192, 247-252).                      *)
RefCountAccounted ==
    \A c \in Conns : refCount[c] = Cardinality(Holders(c)) + drift[c]

(* A connection leaks at most one reference in its life, however many      *)
(* callers shared its dial and however often it is acquired again.         *)
AtMostOneLeaked == \A c \in Conns : drift[c] <= 1

-----------------------------------------------------------------------------
(* Why: the inductive invariant.                                           *)

(* The forward that dialled a connection knows it until it releases it.    *)
DialedInHand ==
    \A f \in Forwards : dialed[f] =>
        /\ pc[f] \in {"insert", "watch", "finish", "result", "using", "released"}
        /\ conn[f] \in Conns

OneDialer ==
    \A f, g \in Forwards : dialed[f] /\ dialed[g] /\ conn[f] = conn[g] => f = g

(* The one who may leak a reference has not done so.                       *)
NotYetLeaked ==
    \A f \in Forwards :
        dialed[f] /\ pc[f] \in {"insert", "watch", "finish", "result"}
            => drift[conn[f]] <= 0

UnbornUncounted == \A c \in Conns : status[c] = "none" => refCount[c] = 0

RefIInv ==
    /\ PoolIInv
    /\ drift \in [Conns -> Int]
    /\ DialedInHand /\ OneDialer /\ NotYetLeaked /\ UnbornUncounted
    /\ RefCountAccounted /\ AtMostOneLeaked

Symmetry ==
    Permutations(Forwards) \cup Permutations(Conns) \cup Permutations(Timers)
=============================================================================
