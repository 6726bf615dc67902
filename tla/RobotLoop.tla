------------------------------ MODULE RobotLoop ------------------------------
(***************************************************************************)
(* What the class Robot promises to its callers, without threads: at most  *)
(* one libfranka loop, started only on a stopped arm without a pending     *)
(* error; an error is pending until it is recovered, and recovery clears   *)
(* it only once the failed loop is gone.                                   *)
(***************************************************************************)
EXTENDS ControlMode

VARIABLES running, error

Stopped == "stopped"

Init == running = Stopped /\ error = FALSE

Start(m) == running = Stopped /\ ~error /\ running' = m /\ UNCHANGED error
Fail     == running # Stopped /\ ~error /\ error' = TRUE /\ UNCHANGED running
Stop     == running # Stopped /\ running' = Stopped /\ UNCHANGED error
Clear    == running = Stopped /\ error /\ error' = FALSE /\ UNCHANGED running

Next == (\E m \in ControlModes : Start(m)) \/ Fail \/ Stop \/ Clear

Spec == Init /\ [][Next]_<<running, error>>

=============================================================================
