--------------------------- MODULE RebuildBackoff ---------------------------
(***************************************************************************)
(* The backoff of one forward in src/internal/service/forward_service.go:  *)
(* shouldRebuild, calculateBackoff, recordRebuildFailure and               *)
(* recordRebuildSuccess, called by sync at every tick of its ticker for a  *)
(* forward that has failed.                                                *)
(*                                                                         *)
(* An interval is a time.Duration, a signed 64-bit number of nanoseconds,  *)
(* and 1e9 * 2^failures does not always fit.  As 1e9 = 1953125 * 2^9, the  *)
(* product is 1953125 * 2^(failures + 9) modulo 2^64.  What the code tells *)
(* apart is kept: seconds up to the cap, and the sign.                     *)
(***************************************************************************)
EXTENDS Naturals

CONSTANT FailureBound    \* bound of the model: failures are counted up to here

ASSUME FailureBoundIsNat == FailureBound \in Nat

(* In seconds; baseBackoff is one second.                                  *)
syncInterval == 10
maxBackoff == 120

VARIABLES
    failures,     \* consecutiveFailures
    elapsed,      \* seconds since lastRebuildTime, up to maxBackoff
    never,        \* there is no lastRebuildTime
    attempting,   \* between a positive shouldRebuild and its outcome
    asked         \* sync has asked since the last tick

vars == <<failures, elapsed, never, attempting, asked>>

TypeOK ==
    /\ failures \in 0 .. FailureBound
    /\ elapsed \in 0 .. maxBackoff
    /\ never \in BOOLEAN /\ attempting \in BOOLEAN /\ asked \in BOOLEAN
    /\ never => failures = 0

Init ==
    /\ failures = 0 /\ elapsed = 0
    /\ never = TRUE /\ attempting = FALSE /\ asked = FALSE

-----------------------------------------------------------------------------
AtMost(a, b) == IF a < b THEN a ELSE b

OddFactor == 1953125    \* 21 bits

(* The sign bit of 1953125 * 2^(f + 9) in 64 bits: bit 63 is bit 54 - f of *)
(* the odd factor.                                                         *)
Negative(f) == f \in 34 .. 54 /\ (OddFactor \div 2 ^ (54 - f)) % 2 = 1

(* Mutant: the exponent is one too small.                                  *)
calculateBackoffShort(f) ==
    IF f = 0 THEN 1
    ELSE IF f <= 7 THEN AtMost(2 ^ (f - 1), maxBackoff)
    ELSE IF f <= 55 THEN maxBackoff
    ELSE 0

(* Up to f = 33 the product fits.  From 34 to 54 it has lost high bits:    *)
(* when it is not negative it is a multiple of 2^43 ns other than zero,    *)
(* beyond the cap.  From 55 on every bit is lost.                          *)
calculateBackoff(f) ==
    IF f <= 6 THEN AtMost(2 ^ f, maxBackoff)
    ELSE IF f <= 54 THEN maxBackoff
    ELSE 0

(* elapsed >= backoffInterval, or there was no attempt before.             *)
Due == never \/ Negative(failures) \/ elapsed >= calculateBackoff(failures)

(* Mutant: the time of the last attempt is set by every question.          *)
ShouldRebuildTouches ==
    /\ ~attempting /\ ~asked
    /\ asked' = TRUE
    /\ attempting' = Due
    /\ never' = FALSE
    /\ elapsed' = 0
    /\ UNCHANGED failures

ShouldRebuild ==
    /\ ~attempting /\ ~asked
    /\ asked' = TRUE
    /\ attempting' = Due
    /\ never' = FALSE
    /\ elapsed' = IF Due THEN 0 ELSE elapsed
    /\ UNCHANGED failures

recordRebuildFailure ==
    /\ attempting
    /\ attempting' = FALSE
    /\ failures' = AtMost(failures + 1, FailureBound)
    /\ elapsed' = 0
    /\ never' = FALSE
    /\ UNCHANGED asked

(* Mutant: the counter is not reset.                                       *)
recordRebuildSuccessKeepsCount ==
    /\ attempting
    /\ attempting' = FALSE
    /\ elapsed' = 0
    /\ never' = TRUE
    /\ UNCHANGED <<failures, asked>>

recordRebuildSuccess ==
    /\ attempting
    /\ attempting' = FALSE
    /\ failures' = 0
    /\ elapsed' = 0
    /\ never' = TRUE
    /\ UNCHANGED asked

(* The attempt may take its time: the ticker goes on.                      *)
Tick ==
    /\ asked
    /\ asked' = FALSE
    /\ elapsed' = IF never THEN 0 ELSE AtMost(elapsed + syncInterval, maxBackoff)
    /\ UNCHANGED <<failures, never, attempting>>

Next ==
    \/ ShouldRebuild \/ Tick
    \/ recordRebuildFailure \/ recordRebuildSuccess

Spec == Init /\ [][Next]_vars

(* The ticker ticks, sync runs, and an attempt ends.                       *)
FairSpec ==
    /\ Spec
    /\ WF_vars(ShouldRebuild) /\ WF_vars(Tick)
    /\ WF_vars(recordRebuildFailure \/ recordRebuildSuccess)

-----------------------------------------------------------------------------
Begins == ~attempting /\ attempting'

(* The intervals of the comment of shouldRebuild.                          *)
Documented(f) == IF f >= 7 THEN 120 ELSE 2 ^ f

(* As long as the interval fits its type, a forward that has failed is not *)
(* tried again before the documented time.  It overflows from the 34th     *)
(* failure on, and the spacing is lost.                                    *)
SpacedWhileItFits ==
    [][Begins /\ ~never /\ failures <= 33 => elapsed >= Documented(failures)]_vars

(* A forward is tried again and again, however long its outage: questions  *)
(* asked too early do not put the next attempt off.                        *)
TriedAgain == []<>attempting
=============================================================================
