----------------------------- MODULE GripperGoals -----------------------------
(***************************************************************************)
(* What the servers of the real and of the simulated gripper share: the    *)
(* goals of their four actions, the detached thread of each goal, and the  *)
(* future in which its command runs.                                       *)
(***************************************************************************)
EXTENDS GoalHandle, Integers, FiniteSets

CONSTANTS
  Goals,
  Task,         (* homing, move, grasp or gripper_command                  *)
  Target,       (* the width a goal asks for                               *)
  max_width,
  MaxGoals,     (* bound: the goals sent in a behaviour                    *)
  OneAtATime,   (* TRUE: a client waits for its goal to end                *)
  Faults        (* TRUE: the connection to the real gripper may fail       *)

Tasks == {"homing", "move", "grasp", "gripper_command"}
Widths == 0..max_width

ASSUME GoalAssumption ==
  /\ Task \in [Goals -> Tasks] /\ Target \in [Goals -> Nat]
  /\ max_width \in Nat /\ MaxGoals \in Nat
  /\ OneAtATime \in BOOLEAN /\ Faults \in BOOLEAN

VARIABLES
  goal,         (* the goal handles                                        *)
  thread,       (* where the detached thread of each goal is               *)
  motion,       (* the command of each goal, in its future                 *)
  width,        (* of the fingers                                          *)
  current_gripper_state_,
  ok            (* rclcpp::ok()                                            *)

Threads == {"none", "start", "wait", "check", "get", "gone"}

MotionEnded(g) == motion[g] \in {"completed", "cut"}

(* What clients send.                                                      *)
Sent(g) ==
  /\ goal[g] = "none"
  /\ Cardinality({h \in Goals : goal[h] # "none"}) < MaxGoals

=============================================================================
