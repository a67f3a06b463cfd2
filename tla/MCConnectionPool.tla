-------------------------- MODULE MCConnectionPool --------------------------
(* The connection pool on small sets; forwards, connections and lingering  *)
(* goroutines are interchangeable.                                         *)
EXTENDS ConnectionPoolInv, TLC

Symmetry ==
    Permutations(Forwards) \cup Permutations(Conns) \cup Permutations(Timers)
=============================================================================
