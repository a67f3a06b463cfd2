-------------------------- MODULE ForwardInstance --------------------------
(***************************************************************************)
(* What the service may expect of one object of package forwarding, from   *)
(* the moment it runs to the moment its Stop has returned: an abstract     *)
(* specification.  ForwardLifecycle implements it; ForwardService uses its *)
(* instances accordingly.                                                  *)
(***************************************************************************)
VARIABLES
    health,     \* Status(): "stopped", "error" or "running"
    bound,      \* its listener or one of its goroutines is there
    reporting,  \* it has an error still to write to the database
    stopping    \* Stop has been called and has not returned

vars == <<health, bound, reporting, stopping>>

Init == health = "stopped" /\ ~bound /\ ~reporting /\ ~stopping

Starts ==
    /\ ~bound /\ ~reporting /\ ~stopping
    /\ bound' /\ health' = "running"
    /\ UNCHANGED <<reporting, stopping>>

(* A failure may meet a forward that is being stopped, or has failed.      *)
Fails ==
    /\ bound
    /\ health' = "error" /\ reporting'
    /\ UNCHANGED <<bound, stopping>>

(* What it holds goes when it fails or is stopped, and only then.          *)
Releases == bound /\ ~bound' /\ (stopping \/ health = "error")

Release == Releases /\ UNCHANGED <<health, reporting, stopping>>

(* Another goroutine may have an error to write, too; the one that writes  *)
(* may be the last one.                                                    *)
WriteError ==
    /\ reporting
    /\ reporting' \in BOOLEAN
    /\ bound' = bound \/ Releases
    /\ UNCHANGED <<health, stopping>>

StopCalled ==
    /\ ~stopping /\ stopping'
    /\ health' \in {health, "stopped"}
    /\ UNCHANGED <<bound, reporting>>

SetStopped ==
    /\ stopping
    /\ health' = "stopped"
    /\ UNCHANGED <<bound, reporting, stopping>>

(* Stop returns when nothing is left, no error to write either.            *)
StopReturns ==
    /\ stopping /\ ~bound /\ ~reporting
    /\ ~stopping'
    /\ health' \in {health, "stopped"}
    /\ UNCHANGED <<bound, reporting>>

ProcessEnds == health' = "stopped" /\ ~bound' /\ ~reporting' /\ ~stopping'

Next ==
    \/ Starts \/ Fails \/ Release \/ WriteError
    \/ StopCalled \/ SetStopped \/ StopReturns \/ ProcessEnds

Spec == Init /\ [][Next]_vars
=============================================================================
