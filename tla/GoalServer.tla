------------------------------ MODULE GoalServer ------------------------------
(***************************************************************************)
(* What an action server promises for its goals: a goal moves at most      *)
(* once, ends once and only when its motion has, and is reported as a      *)
(* success only if the motion was completed or none was needed.            *)
(***************************************************************************)
EXTENDS GoalHandle

CONSTANT Goals

VARIABLES goal, motion    (* motion: none, running, completed or cut       *)

Init == goal = [g \in Goals |-> "none"] /\ motion = [g \in Goals |-> "none"]

Accept(g) ==
  /\ goal[g] = "none" /\ goal' = [goal EXCEPT ![g] = "executing"]
  /\ UNCHANGED motion

Cancel(g) ==
  /\ goal[g] = "executing" /\ goal' = [goal EXCEPT ![g] = "canceling"]
  /\ UNCHANGED motion

Begin(g) ==
  /\ goal[g] \in Active /\ motion[g] = "none"
  /\ motion' = [motion EXCEPT ![g] = "running"]
  /\ UNCHANGED goal

(* One device serves all goals: what ends one motion may end others.       *)
Halt ==
  /\ motion' \in [Goals -> {"none", "running", "completed", "cut"}]
  /\ \A g \in Goals : motion'[g] # motion[g] =>
       motion[g] = "running" /\ motion'[g] \in {"completed", "cut"}
  /\ UNCHANGED goal

End(g, how) ==
  /\ goal[g] \in Active /\ motion[g] # "running"
  /\ how = "succeeded" => motion[g] # "cut"
  /\ how = "canceled" => goal[g] = "canceling"
  /\ goal' = [goal EXCEPT ![g] = how]
  /\ UNCHANGED motion

Next ==
  \/ \E g \in Goals : Accept(g) \/ Cancel(g) \/ Begin(g)
  \/ Halt
  \/ \E g \in Goals, how \in Ended : End(g, how)

Spec == Init /\ [][Next]_<<goal, motion>>

=============================================================================
