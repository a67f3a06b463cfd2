------------------------- MODULE ConnectionPoolInv -------------------------
(***************************************************************************)
(* The inductive invariant of the connection pool, in named parts.         *)
(***************************************************************************)
EXTENDS ConnectionPool

(* A forward inside Acquire or Release works on a signature, and the       *)
(* connection it has in hand, if any, was dialled for that signature.      *)
Attached ==
    \A f \in Forwards :
        /\ pc[f] # "out" => sig[f] \in Signatures
        /\ pc[f] = "out" => conn[f] = NoConn
        /\ conn[f] # NoConn => signature[conn[f]] = sig[f]

(* The steps at which the local variable conn is not nil.                  *)
HandSteps == {"check", "drop", "close", "status", "cancel", "renew", "acquire",
              "insert", "watch", "using", "released"}

InHand ==
    /\ \A f \in Forwards : pc[f] \in HandSteps => conn[f] \in Conns
    /\ \A t \in Timers : timer[t] = "free" <=> timerConn[t] = NoConn

(* The call of a signature is being executed, by a forward that wants it.  *)
FlightLed ==
    \A k \in Signatures : flight[k] # NoForward =>
        pc[flight[k]] \in LeaderSteps /\ sig[flight[k]] = k

(* Nobody knows a connection that has not been dialled.                    *)
Unborn ==
    \A c \in Conns : status[c] = "none" =>
        /\ \A k \in Signatures : pools[k] # c
        /\ \A f \in Forwards : conn[f] # c
        /\ \A t \in Timers : timerConn[t] # c
        /\ keepalive[c] = "none"

(* Until it is inserted, a connection is known to the forward that dialled *)
(* it and to nobody else; and nobody has begun to close it.                *)
Private ==
    \A f \in Forwards : pc[f] = "insert" =>
        /\ status[conn[f]] = "active" /\ refCount[conn[f]] = 1
        /\ keepalive[conn[f]] = "none"
        /\ \A k \in Signatures : pools[k] # conn[f]
        /\ \A g \in Forwards : conn[g] = conn[f] => g = f
        /\ \A t \in Timers : timerConn[t] # conn[f]

(* The pool's keys are the signatures of the connections.                  *)
PooledSignature ==
    \A k \in Signatures : pools[k] # NoConn => signature[pools[k]] = k

(* Whoever is about to close a connection has taken it out of the pool.    *)
TakenOut ==
    /\ \A f \in Forwards : pc[f] = "close" =>
          \A k \in Signatures : pools[k] # conn[f]
    /\ \A c \in Conns : keepalive[c] = "close" =>
          \A k \in Signatures : pools[k] # c

PoolIInv ==
    /\ TypeOK
    /\ Attached /\ InHand
    /\ FlightLed /\ WaitersServed
    /\ Unborn /\ Private
    /\ PooledSignature /\ TakenOut
    /\ ClosedNotPooled /\ KeepaliveCovers /\ IdleLookedAfter
=============================================================================
