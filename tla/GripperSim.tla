------------------------------ MODULE GripperSim ------------------------------
(***************************************************************************)
(* GripperSimActionServer, the gripper of the simulation.  Goals are       *)
(* handled as in Gripper, but the commands are loops of this node: each    *)
(* moves the commanded width in steps, 100 a second, and looks at one flag *)
(* is_canceled_ that all goals share and no lock protects.                 *)
(*                                                                         *)
(* Widths are counted in the steps of a motion; what is commanded to the   *)
(* simulation is the width cut off at both ends of its range.              *)
(***************************************************************************)
EXTENDS GripperGoals

CONSTANT Extra  (* the steps a grasp goes on after its target              *)

VARIABLES
  is_canceled_,
  command,      (* gripper_states_ptr_->at(0)                              *)
  loop,         (* cur_width, and what the loop of a goal still has to do  *)
  asked         (* goals that were cancelled, or stopped by ~/stop         *)

shared == <<is_canceled_, command>>
vars == <<goal, thread, motion, width, current_gripper_state_, ok, shared, loop, asked>>

(* A loop looks at the flag in "closing", "opening" or "loop", and then    *)
(* writes a step in "close", "open" or "write".                            *)
Motions == {"none", "called", "closing", "close", "opening", "open",
            "loop", "write", "completed", "cut"}
Idle == [cur |-> 0, left |-> 0, sgn |-> 1]

TypeOK ==
  /\ goal \in [Goals -> Status] /\ motion \in [Goals -> Motions]
  /\ thread \in [Goals -> Threads]
  /\ width \in Widths /\ current_gripper_state_ \in Widths /\ command \in Widths
  /\ loop \in [Goals -> [cur : (-max_width - Extra)..(max_width + Extra),
                         left : 0..(max_width + Extra), sgn : {-1, 1}]]
  /\ ok \in BOOLEAN /\ is_canceled_ \in BOOLEAN /\ asked \subseteq Goals

(* The flag is not initialised.  initGripperPtrs reads the first state.    *)
Init ==
  /\ goal = [g \in Goals |-> "none"] /\ thread = [g \in Goals |-> "none"]
  /\ motion = [g \in Goals |-> "none"]
  /\ width \in Widths /\ current_gripper_state_ = 0 /\ command = 0
  /\ ok = TRUE /\ is_canceled_ \in BOOLEAN
  /\ loop = [g \in Goals |-> Idle] /\ asked = {}

-----------------------------------------------------------------------------
(* Callbacks of the executor                                               *)

(* A wrong variant: a new goal does not reset the flag.                    *)
AcceptOnly(g) ==
  /\ ok /\ Sent(g)
  /\ OneAtATime => \A h \in Goals : goal[h] \notin Active
  /\ goal' = [goal EXCEPT ![g] = "executing"]
  /\ thread' = [thread EXCEPT ![g] = "start"]
  /\ UNCHANGED <<motion, width, current_gripper_state_, ok, shared, loop, asked>>

handleGoal(g) ==
  /\ ok /\ Sent(g)
  /\ OneAtATime => \A h \in Goals : goal[h] \notin Active
  /\ goal' = [goal EXCEPT ![g] = "executing"]
  /\ thread' = [thread EXCEPT ![g] = "start"]
  /\ is_canceled_' = FALSE
  /\ UNCHANGED <<motion, width, current_gripper_state_, ok, command, loop, asked>>

(* The flag is set before the goal handle knows that it is cancelled.      *)
handleCancel(g) ==
  /\ ok /\ goal[g] = "executing" /\ g \notin asked
  /\ is_canceled_' = TRUE /\ asked' = asked \cup {g}
  /\ UNCHANGED <<goal, thread, motion, width, current_gripper_state_, ok, command, loop>>

CancelGoal(g) ==
  /\ g \in asked /\ goal[g] = "executing"
  /\ goal' = [goal EXCEPT ![g] = Canceling(@)]
  /\ UNCHANGED <<thread, motion, width, current_gripper_state_, ok, shared, loop, asked>>

(* Commands the last width seen; the motions look at the flag later.       *)
simGripperStop == is_canceled_' = TRUE /\ command' = current_gripper_state_

stopServiceCallback ==
  /\ ok /\ simGripperStop
  /\ asked' = asked \cup {g \in Goals : goal[g] \in Active}
  /\ UNCHANGED <<goal, thread, motion, width, current_gripper_state_, ok, loop>>

publishGripperState ==
  /\ ok /\ current_gripper_state_' = width
  /\ UNCHANGED <<goal, thread, motion, width, ok, shared, loop, asked>>

Shutdown ==
  /\ ok /\ ok' = FALSE
  /\ UNCHANGED <<goal, thread, motion, width, current_gripper_state_, shared, loop, asked>>

-----------------------------------------------------------------------------
(* The detached thread of a goal, as in Gripper                            *)

End(g, how) ==
  /\ goal' = [goal EXCEPT ![g] = how]
  /\ thread' = [thread EXCEPT ![g] = "gone"]
  /\ UNCHANGED <<motion, width, current_gripper_state_, ok, shared, loop, asked>>

Goto(g, pc) ==
  /\ thread' = [thread EXCEPT ![g] = pc]
  /\ UNCHANGED <<goal, motion, width, current_gripper_state_, ok, shared, loop, asked>>

Least(a, b) == IF a <= b THEN a ELSE b
Distance(g) == Least(max_width, Target[g]) - current_gripper_state_

(* Closing by a gripper_command is a grasp, which goes on for some steps.  *)
Grasps(g) ==
  \/ Task[g] = "grasp"
  \/ Task[g] = "gripper_command" /\ Distance(g) < 0

Call(g) ==
  /\ motion' = [motion EXCEPT ![g] = "called"]
  /\ thread' = [thread EXCEPT ![g] = "wait"]
  /\ loop' = [loop EXCEPT ![g] =
       [cur |-> 0, sgn |-> 1, left |-> IF Grasps(g) THEN Extra ELSE 0]]
  /\ UNCHANGED <<goal, width, current_gripper_state_, ok, shared, asked>>

Execute(g) == thread[g] = "start" /\ Task[g] # "gripper_command" /\ Call(g)

InRange(g) == Target[g] <= max_width
AlreadyThere(g) == InRange(g) /\ Target[g] = current_gripper_state_

onExecuteGripperCommand(g) ==
  /\ thread[g] = "start" /\ Task[g] = "gripper_command"
  /\ \/ ~InRange(g) /\ End(g, "aborted")
     \/ AlreadyThere(g) /\ End(g, "succeeded")
     \/ InRange(g) /\ ~AlreadyThere(g) /\ Call(g)

Timeout(g) ==
  /\ thread[g] = "wait" /\ ok /\ ~MotionEnded(g)
  /\ Goto(g, "check")

Feedback(g) == thread[g] = "check" /\ goal[g] # "canceling" /\ Goto(g, "wait")

Stop(g) ==
  /\ thread[g] = "check" /\ goal[g] = "canceling"
  /\ simGripperStop
  /\ thread' = [thread EXCEPT ![g] = "get"]
  /\ UNCHANGED <<goal, motion, width, current_gripper_state_, ok, loop, asked>>

Canceled(g) == thread[g] = "get" /\ MotionEnded(g) /\ End(g, "canceled")

(* Every command returns true, whether it was cut or not.                  *)
Finish(g) == thread[g] = "wait" /\ ok /\ MotionEnded(g) /\ End(g, "succeeded")

Leave(g) == thread[g] = "wait" /\ ~ok /\ MotionEnded(g) /\ Goto(g, "gone")

-----------------------------------------------------------------------------
(* The loops of the commands, each in the thread of its future             *)

InLoop(g, next) ==
  /\ motion' = [motion EXCEPT ![g] = next]
  /\ UNCHANGED <<goal, thread, width, current_gripper_state_, ok, shared, asked>>

(* simGripperMove, simGripperGrasp: a command starts from the width last   *)
(* seen and counts its steps to the target.                                *)
Begin(g) ==
  /\ motion[g] = "called"
  /\ loop' = [loop EXCEPT ![g] =
       [cur |-> current_gripper_state_,
        sgn |-> IF Distance(g) < 0 THEN -1 ELSE 1,
        left |-> loop[g].left
                   + (IF Distance(g) < 0 THEN -Distance(g) ELSE Distance(g))]]
  /\ InLoop(g, IF Task[g] = "homing" THEN "closing" ELSE "loop")

Stepped(l, sgn) ==
  [cur |-> l.cur + sgn, sgn |-> l.sgn, left |-> IF l.left > 0 THEN l.left - 1 ELSE 0]

(* A wrong variant: the command is not kept within its range.              *)
Unclamped(g, next, sgn) ==
  /\ motion' = [motion EXCEPT ![g] = next]
  /\ loop' = [loop EXCEPT ![g] = Stepped(@, sgn)]
  /\ command' = loop[g].cur + sgn
  /\ UNCHANGED <<goal, thread, width, current_gripper_state_, ok, is_canceled_, asked>>

Step(g, next, sgn) ==
  /\ motion' = [motion EXCEPT ![g] = next]
  /\ loop' = [loop EXCEPT ![g] = Stepped(@, sgn)]
  /\ command' = Least(max_width, IF loop[g].cur + sgn < 0 THEN 0 ELSE loop[g].cur + sgn)
  /\ UNCHANGED <<goal, thread, width, current_gripper_state_, ok, is_canceled_, asked>>

(* simGripperHoming closes and then opens, and looks at the flag before    *)
(* each step of either.                                                    *)
Homing(g) ==
  /\ UNCHANGED loop
  /\ \/ /\ motion[g] = "closing"
        /\ \/ loop[g].cur > 0 /\ ~is_canceled_ /\ InLoop(g, "close")
           \/ (loop[g].cur = 0 \/ is_canceled_) /\ InLoop(g, "opening")
     \/ /\ motion[g] = "opening"
        /\ \/ loop[g].cur < max_width /\ ~is_canceled_ /\ InLoop(g, "open")
           \/ loop[g].cur < max_width /\ is_canceled_ /\ InLoop(g, "cut")
           \/ loop[g].cur = max_width /\ InLoop(g, "completed")

(* simGripperMove and simGripperGrasp look at the flag before each step.   *)
Check(g) ==
  /\ motion[g] = "loop" /\ UNCHANGED loop
  /\ \/ loop[g].left = 0 /\ InLoop(g, "completed")
     \/ loop[g].left > 0 /\ is_canceled_ /\ InLoop(g, "cut")
     \/ loop[g].left > 0 /\ ~is_canceled_ /\ InLoop(g, "write")

(* The step that follows the look: the flag may have been raised since.    *)
Write(g) ==
  \/ motion[g] = "close" /\ Step(g, "closing", -1)
  \/ motion[g] = "open" /\ Step(g, "opening", 1)
  \/ motion[g] = "write" /\ Step(g, "loop", loop[g].sgn)

(* The simulation moves the fingers towards the command (external).        *)
Plant ==
  /\ width # command
  /\ width' = IF width < command THEN width + 1 ELSE width - 1
  /\ UNCHANGED <<goal, thread, motion, current_gripper_state_, ok, shared, loop, asked>>

-----------------------------------------------------------------------------
Thread(g) ==
  \/ Execute(g) \/ onExecuteGripperCommand(g) \/ Timeout(g) \/ Feedback(g)
  \/ Stop(g) \/ Canceled(g) \/ Finish(g) \/ Leave(g)
Motion(g) == Begin(g) \/ Homing(g) \/ Check(g) \/ Write(g)

Next ==
  \/ \E g \in Goals :
       handleGoal(g) \/ handleCancel(g) \/ CancelGoal(g) \/ Thread(g) \/ Motion(g)
  \/ stopServiceCallback \/ publishGripperState \/ Shutdown \/ Plant

Fairness == \A g \in Goals : WF_vars(Thread(g)) /\ WF_vars(Motion(g))

Spec == Init /\ [][Next]_vars /\ Fairness

-----------------------------------------------------------------------------
(* Properties                                                              *)

(* "Returns true on success" (gripper_sim_action_server.hpp:157): a goal   *)
(* that succeeded was not cut short.                                       *)
SuccessMeansCompleted ==
  \A g \in Goals : goal[g] = "succeeded" => motion[g] # "cut"

(* With one client, the shared flag cuts only goals that were cancelled or *)
(* stopped themselves, never one that came later.                          *)
CutWasAsked == \A g \in Goals : motion[g] = "cut" => g \in asked

(* Every accepted goal ends while the node lives.                          *)
GoalsEnd ==
  \A g \in Goals : goal[g] \in Active ~> goal[g] \in Ended \/ ~ok

=============================================================================
