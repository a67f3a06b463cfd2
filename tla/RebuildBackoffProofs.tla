------------------------ MODULE RebuildBackoffProofs ------------------------
(***************************************************************************)
(* Theorems about the backoff between the rebuilds of a forward, for any   *)
(* bound on the number of failures.                                        *)
(***************************************************************************)
EXTENDS RebuildBackoff, TLAPS

(* Up to the 33rd failure, what calculateBackoff computes in 64 bits is    *)
(* the documented interval.                                                *)
LEMMA BackoffAsDocumented ==
    ASSUME NEW f \in 0 .. 33
    PROVE  ~Negative(f) /\ calculateBackoff(f) = Documented(f)
<1>1. ~Negative(f)
  BY DEF Negative
<1>2. CASE f \in 7 .. 33
  <2>1. ~(f <= 6) /\ f <= 54 /\ f >= 7
    BY <1>2
  <2>2. calculateBackoff(f) = 120 /\ Documented(f) = 120
    BY <2>1, Zenon DEF calculateBackoff, Documented, maxBackoff
  <2>3. QED
    BY <1>1, <2>2
<1>3. CASE f \in 0 .. 6
  <2>1. 2 ^ 0 = 1 /\ 2 ^ 1 = 2 /\ 2 ^ 2 = 4 /\ 2 ^ 3 = 8
    OBVIOUS
  <2>2. 2 ^ 4 = 16 /\ 2 ^ 5 = 32 /\ 2 ^ 6 = 64
    OBVIOUS
  <2>3. f = 0 \/ f = 1 \/ f = 2 \/ f = 3 \/ f = 4 \/ f = 5 \/ f = 6
    BY <1>3
  <2>4. 2 ^ f \in Nat /\ 2 ^ f <= maxBackoff
    <3>1. CASE f = 0
      BY <2>1, <3>1 DEF maxBackoff
    <3>2. CASE f = 1
      BY <2>1, <3>2 DEF maxBackoff
    <3>3. CASE f = 2
      BY <2>1, <3>3 DEF maxBackoff
    <3>4. CASE f = 3
      BY <2>1, <3>4 DEF maxBackoff
    <3>5. CASE f = 4
      BY <2>2, <3>5 DEF maxBackoff
    <3>6. CASE f = 5
      BY <2>2, <3>6 DEF maxBackoff
    <3>7. CASE f = 6
      BY <2>2, <3>7 DEF maxBackoff
    <3>8. QED
      BY <2>3, <3>1, <3>2, <3>3, <3>4, <3>5, <3>6, <3>7
  <2> DEFINE p == 2 ^ f
  <2>5. AtMost(p, maxBackoff) = p
    <3>1. p \in Nat /\ p <= maxBackoff
      BY <2>4
    <3> HIDE DEF p
    <3>2. QED
      BY <3>1 DEF AtMost, maxBackoff
  <2>6. f <= 6 /\ ~(f >= 7)
    BY <1>3
  <2>7. calculateBackoff(f) = p /\ Documented(f) = p
    BY <2>5, <2>6, Zenon DEF calculateBackoff, Documented
  <2>8. QED
    BY <1>1, <2>7
<1>4. QED
  BY <1>1, <1>2, <1>3

(* The 34th failure is the one at which the product turns negative: the    *)
(* bound of SpacedWhileItFits is the largest there is.                     *)
LEMMA OverflowsAt34 == Negative(34)
<1>1. 2 ^ 20 = 1048576
  OBVIOUS
<1>2. 1953125 \div 1048576 = 1 /\ 1 % 2 = 1
  OBVIOUS
<1>3. QED
  BY <1>1, <1>2 DEF Negative, OddFactor

LEMMA AtMostBound ==
    ASSUME NEW a \in Nat, NEW b \in Nat
    PROVE  AtMost(a, b) \in 0 .. b
BY DEF AtMost

-----------------------------------------------------------------------------
(* The types; never => failures = 0 is what makes the first attempt after  *)
(* a success the only one without a wait.                                  *)
THEOREM TypeCorrectness == FairSpec => []TypeOK
<1>1. Init => TypeOK
  <2>1. 0 \in 0 .. maxBackoff /\ 0 \in 0 .. FailureBound
    BY FailureBoundIsNat DEF maxBackoff
  <2>2. QED
    BY <2>1 DEF Init, TypeOK
<1>2. TypeOK /\ [Next]_vars => TypeOK'
  <2> SUFFICES ASSUME TypeOK, [Next]_vars PROVE TypeOK'
    OBVIOUS
  <2>0. 0 \in 0 .. maxBackoff /\ 0 \in 0 .. FailureBound
    BY FailureBoundIsNat DEF maxBackoff
  <2>1. CASE ShouldRebuild
    <3>1. Due \in BOOLEAN
      BY Zenon DEF Due, TypeOK, Negative
    <3>2. attempting' = Due /\ failures' = failures
      BY <2>1 DEF ShouldRebuild
    <3>3. never' = FALSE /\ asked' = TRUE /\ elapsed' \in 0 .. maxBackoff
      BY <2>0, <2>1 DEF ShouldRebuild, TypeOK
    <3>4. QED
      BY <3>1, <3>2, <3>3 DEF TypeOK
  <2>2. CASE recordRebuildFailure
    <3>1. failures' \in 0 .. FailureBound
      BY <2>2, AtMostBound, FailureBoundIsNat DEF recordRebuildFailure, TypeOK
    <3>2. QED
      BY <2>0, <2>2, <3>1 DEF recordRebuildFailure, TypeOK
  <2>3. CASE recordRebuildSuccess
    BY <2>0, <2>3 DEF recordRebuildSuccess, TypeOK
  <2>4. CASE Tick
    <3>1. elapsed' \in 0 .. maxBackoff
      <4>1. elapsed + syncInterval \in Nat /\ maxBackoff \in Nat
        BY DEF TypeOK, syncInterval, maxBackoff
      <4>2. AtMost(elapsed + syncInterval, maxBackoff) \in 0 .. maxBackoff
        BY <4>1, AtMostBound
      <4>3. QED
        BY <2>0, <2>4, <4>2 DEF Tick
    <3>2. QED
      BY <2>4, <3>1 DEF Tick, TypeOK
  <2>5. CASE UNCHANGED vars
    BY <2>5 DEF vars, TypeOK
  <2>6. QED
    BY <2>1, <2>2, <2>3, <2>4, <2>5 DEF Next
<1>3. QED
  BY <1>1, <1>2, PTL DEF FairSpec, Spec

(* SpacedWhileItFits: a forward that has failed up to 33 times is tried    *)
(* again no sooner than the comment of shouldRebuild says, whichever       *)
(* questions, ticks and outcomes came before.                              *)
THEOREM Spacing == FairSpec => SpacedWhileItFits
<1>1. ASSUME TypeOK, [Next]_vars, Begins, ~never, failures <= 33
      PROVE  elapsed >= Documented(failures)
  <2>1. ShouldRebuild
    BY <1>1 DEF Next, vars, Begins, recordRebuildFailure, recordRebuildSuccess, Tick
  <2>2. Due
    BY <1>1, <2>1 DEF ShouldRebuild, Begins
  <2>3. failures \in 0 .. 33
    BY <1>1, FailureBoundIsNat DEF TypeOK
  <2>4. ~Negative(failures) /\ calculateBackoff(failures) = Documented(failures)
    BY <2>3, BackoffAsDocumented
  <2>5. QED
    BY <1>1, <2>2, <2>4 DEF Due
<1>2. TypeOK /\ [Next]_vars =>
          [Begins /\ ~never /\ failures <= 33 => elapsed >= Documented(failures)]_vars
  BY <1>1
<1>3. QED
  BY <1>2, TypeCorrectness, PTL DEF FairSpec, Spec, SpacedWhileItFits
=============================================================================
