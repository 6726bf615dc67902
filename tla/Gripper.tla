------------------------------- MODULE Gripper -------------------------------
(***************************************************************************)
(* GripperActionServer of the real gripper.  The executor accepts goals,   *)
(* cancel requests and calls of ~/stop, and a timer caches the state of    *)
(* the gripper.  Each goal has a detached thread, which polls a future     *)
(* whose own thread blocks in the command to the device.                   *)
(*                                                                         *)
(* Sections under gripper_state_mutex_ are single steps: none waits for    *)
(* another thread inside, except for the device.                           *)
(***************************************************************************)
EXTENDS GripperGoals

VARIABLE terminated    (* an exception left a thread                       *)

device == <<motion, width>>
vars == <<goal, thread, motion, width, current_gripper_state_, ok, terminated>>

Motions == {"none", "called", "moving", "completed", "cut"}

TypeOK ==
  /\ goal \in [Goals -> Status] /\ motion \in [Goals -> Motions]
  /\ thread \in [Goals -> Threads]
  /\ width \in Widths /\ current_gripper_state_ \in Widths
  /\ ok \in BOOLEAN /\ terminated \in BOOLEAN

(* The constructor connects and reads the first state.                     *)
Init ==
  /\ goal = [g \in Goals |-> "none"] /\ thread = [g \in Goals |-> "none"]
  /\ motion = [g \in Goals |-> "none"]
  /\ width \in Widths /\ current_gripper_state_ = width
  /\ ok = TRUE /\ terminated = FALSE

-----------------------------------------------------------------------------
(* Callbacks of the executor                                               *)

Serving == ok /\ ~terminated

handleGoal(g) ==
  /\ Serving /\ Sent(g)
  /\ goal' = [goal EXCEPT ![g] = "executing"]
  /\ thread' = [thread EXCEPT ![g] = "start"]
  /\ UNCHANGED <<device, current_gripper_state_, ok, terminated>>

handleCancel(g) ==
  /\ Serving /\ goal[g] = "executing"
  /\ goal' = [goal EXCEPT ![g] = Canceling(@)]
  /\ UNCHANGED <<thread, device, current_gripper_state_, ok, terminated>>

(* The device gives up the commands it has received.  One that is still on *)
(* its way in the thread of its future is not stopped.                     *)
Stopped == [g \in Goals |-> IF motion[g] = "moving" THEN "cut" ELSE motion[g]]

(* An exception of the device becomes the response.                        *)
stopServiceCallback ==
  /\ Serving
  /\ motion' = Stopped
  /\ UNCHANGED <<goal, thread, width, current_gripper_state_, ok, terminated>>

(* readOnce(); on an exception the old state is published again.           *)
publishGripperState ==
  /\ Serving /\ current_gripper_state_' = width
  /\ UNCHANGED <<goal, thread, device, ok, terminated>>

Shutdown ==
  /\ Serving /\ ok' = FALSE
  /\ UNCHANGED <<goal, thread, device, current_gripper_state_, terminated>>

-----------------------------------------------------------------------------
(* The detached thread of a goal                                           *)

At(g, pc) == ~terminated /\ thread[g] = pc

End(g, how) ==
  /\ goal' = [goal EXCEPT ![g] = how]
  /\ thread' = [thread EXCEPT ![g] = "gone"]
  /\ UNCHANGED <<device, current_gripper_state_, ok, terminated>>

Call(g) ==
  /\ motion' = [motion EXCEPT ![g] = "called"]
  /\ thread' = [thread EXCEPT ![g] = "wait"]
  /\ UNCHANGED <<goal, width, current_gripper_state_, ok, terminated>>

(* executeHoming, executeMove, executeGrasp                                *)
Execute(g) == At(g, "start") /\ Task[g] # "gripper_command" /\ Call(g)

(* onExecuteGripperCommand compares the target with the cached state.      *)
InRange(g) == Target[g] <= max_width
AlreadyThere(g) == InRange(g) /\ Target[g] = current_gripper_state_

onExecuteGripperCommand(g) ==
  /\ At(g, "start") /\ Task[g] = "gripper_command"
  /\ \/ ~InRange(g) /\ End(g, "aborted")
     \/ AlreadyThere(g) /\ End(g, "succeeded")
     \/ InRange(g) /\ ~AlreadyThere(g) /\ Call(g)

(* executeCommand, executeGripperCommand: the future is not ready in time. *)
Timeout(g) ==
  /\ At(g, "wait") /\ ok /\ ~MotionEnded(g)
  /\ thread' = [thread EXCEPT ![g] = "check"]
  /\ UNCHANGED <<goal, device, current_gripper_state_, ok, terminated>>

Feedback(g) ==
  /\ At(g, "check") /\ goal[g] # "canceling"
  /\ thread' = [thread EXCEPT ![g] = "wait"]
  /\ UNCHANGED <<goal, device, current_gripper_state_, ok, terminated>>

(* gripper_->stop(); nothing catches its exception here.                   *)
Stop(g) ==
  /\ At(g, "check") /\ goal[g] = "canceling"
  /\ \/ /\ motion' = Stopped
        /\ thread' = [thread EXCEPT ![g] = "get"]
        /\ UNCHANGED terminated
     \/ Faults /\ terminated' = TRUE /\ UNCHANGED <<motion, thread>>
  /\ UNCHANGED <<goal, width, current_gripper_state_, ok>>

(* A wrong variant: only a command that was cut is waited for.             *)
CanceledWhenCut(g) == At(g, "get") /\ motion[g] = "cut" /\ End(g, "canceled")

Canceled(g) == At(g, "get") /\ MotionEnded(g) /\ End(g, "canceled")

(* A wrong variant: the goal fails when the future is late.                *)
FinishEarly(g) ==
  /\ At(g, "wait") /\ ok
  /\ \/ motion[g] = "completed" /\ End(g, "succeeded")
     \/ motion[g] # "completed" /\ End(g, "aborted")

Finish(g) ==
  /\ At(g, "wait") /\ ok /\ MotionEnded(g)
  /\ \/ motion[g] = "completed" /\ End(g, "succeeded")
     \/ motion[g] = "cut" /\ End(g, "aborted")

(* The loop ends at a shutdown; the future's destructor waits.             *)
Leave(g) ==
  /\ At(g, "wait") /\ ~ok /\ MotionEnded(g)
  /\ thread' = [thread EXCEPT ![g] = "gone"]
  /\ UNCHANGED <<goal, device, current_gripper_state_, ok, terminated>>

-----------------------------------------------------------------------------
(* franka::Gripper, which all futures share (external)                     *)

(* A command meets another: the device drops the old one or refuses the    *)
(* new one.  Both end in an exception, which becomes an unsuccessful       *)
(* result.                                                                 *)
Send(g) ==
  /\ ~terminated /\ motion[g] = "called"
  /\ \/ motion' = [Stopped EXCEPT ![g] = "moving"]
     \/ /\ Faults \/ \E h \in Goals : motion[h] = "moving"
        /\ motion' = [motion EXCEPT ![g] = "cut"]
  /\ UNCHANGED <<goal, thread, width, current_gripper_state_, ok, terminated>>

Move(g) ==
  /\ ~terminated /\ motion[g] = "moving"
  /\ width' \in Widths
  /\ UNCHANGED <<goal, thread, motion, current_gripper_state_, ok, terminated>>

(* The command returns; a grasp holds whatever is between the fingers.     *)
Reached(g) ==
  CASE Task[g] = "homing" -> {max_width}
    [] Task[g] = "grasp" -> Widths
    [] OTHER -> {Target[g]} \cap Widths

Return(g) ==
  /\ ~terminated /\ motion[g] = "moving"
  /\ \/ /\ motion' = [motion EXCEPT ![g] = "completed"]
        /\ width' \in Reached(g)
     \/ /\ motion' = [motion EXCEPT ![g] = "cut"]
        /\ UNCHANGED width
  /\ UNCHANGED <<goal, thread, current_gripper_state_, ok, terminated>>

-----------------------------------------------------------------------------
Thread(g) ==
  \/ Execute(g) \/ onExecuteGripperCommand(g) \/ Timeout(g) \/ Feedback(g)
  \/ Stop(g) \/ Canceled(g) \/ Finish(g) \/ Leave(g)

Next ==
  \/ \E g \in Goals :
       \/ handleGoal(g) \/ handleCancel(g) \/ Thread(g)
       \/ Send(g) \/ Move(g) \/ Return(g)
  \/ stopServiceCallback \/ publishGripperState \/ Shutdown

(* The operating system runs the threads; the device ends what it does.    *)
Fairness ==
  \A g \in Goals : WF_vars(Thread(g)) /\ WF_vars(Send(g)) /\ WF_vars(Return(g))

Spec == Init /\ [][Next]_vars /\ Fairness

-----------------------------------------------------------------------------
(* Properties                                                              *)

(* Detached threads, the executor and the device interleave freely, yet    *)
(* every goal ends once, after its motion, and only a completed motion is  *)
(* a success (executeCommand, executeGripperCommand).                      *)
motionOf == [g \in Goals |->
  CASE motion[g] \in {"called", "moving"} -> "running" [] OTHER -> motion[g]]
Promise == INSTANCE GoalServer WITH motion <- motionOf

(* While the node lives, the loops of executeCommand and                   *)
(* executeGripperCommand lead every accepted goal to an end, whatever      *)
(* other goals, cancels and stops do.                                      *)
GoalsEnd ==
  \A g \in Goals : goal[g] \in Active ~> goal[g] \in Ended \/ ~ok \/ terminated

(* "depending on the current gripper state" (gripper_action_server.hpp:139)*)
(* a command that succeeds without a motion finds its target reached.  TLC *)
(* refutes it with two goals in sequence: that state is of the last tick.  *)
NoIdleSuccess ==
  [][ \A g \in Goals :
        goal[g] # "succeeded" /\ goal'[g] = "succeeded" /\ motion[g] = "none"
          => width = Target[g] ]_vars

=============================================================================
