--------------------------- MODULE MotionGenerator ---------------------------
(***************************************************************************)
(* A node of panda_motion_generators: an action server whose goals are     *)
(* paths over via poses.  Its executor checks a goal and plans the path in *)
(* members of the node; a detached thread per accepted goal plays it, one  *)
(* published command per period.  The joint and the Cartesian generator    *)
(* differ in the curve between two via poses.                              *)
(*                                                                         *)
(* A pose is a number, a section of the path takes SectionTime periods at  *)
(* scaling 1, and the curves are straight lines: what matters is where and *)
(* when a section starts and ends.                                         *)
(***************************************************************************)
EXTENDS GoalHandle, Integers, Sequences

CONSTANTS
  Goals, NoGoal,
  Via,              (* the via poses of a goal                             *)
  Valid,            (* the goals whose v_scale and via poses are in range  *)
  Poses, Home,      (* bounds: the poses, and those the robot starts from  *)
  Scalings, Steps,  (* what set_time_scaling messages carry                *)
  MaxMessages       (* bound: the number of these messages                 *)

ASSUME GeneratorAssumption ==
  /\ NoGoal \notin Goals /\ Valid \subseteq Goals
  /\ Poses \subseteq Int /\ Home \subseteq Poses
  /\ \A p, q \in Poses : p..q \subseteq Poses
  /\ Scalings \subseteq Nat /\ Steps \subseteq Nat
  /\ Via \in [Goals -> Seq(Poses) \ {<<>>}]
  /\ MaxMessages \in Nat

VARIABLES
  kind,             (* of generator: joint or cartesian                    *)
  alone,            (* TRUE: clients wait for the end of each other's goal *)
  goal, thread,     (* the goal handles and their detached threads         *)
  pending,          (* the goal for which handle_goal awaits the pose      *)
  state_,
  progress_,        (* progress_ >= 1                                      *)
  trajectory,       (* end_times_ and motion_coeffs_ or key_frames_        *)
  current_section_, t_, t_start_,
  scaling_, scaling_goal_, last_scaling_,
  ramp,             (* the steps left until scaling_progress_ >= 1         *)
  time_scaling_, steps_, messages,
  control_goal_,    (* the last command published                          *)
  robot,            (* where the robot is                                  *)
  controlling,      (* the controllet of this node has the robot           *)
  terminated        (* the process died of a data race                     *)

node == <<kind, alone>>
plan == <<trajectory, current_section_, t_, t_start_>>
scales == <<scaling_, scaling_goal_, last_scaling_, ramp>>
request == <<time_scaling_, steps_, messages>>
world == <<control_goal_, robot, controlling>>
vars == <<node, goal, thread, pending, state_, progress_, plan, scales,
          request, world, terminated>>

Abs(n) == IF n < 0 THEN -n ELSE n
Least(a, b) == IF a < b THEN a ELSE b
Most(a, b) == IF a > b THEN a ELSE b
Between(a, b) == Least(a, b)..Most(a, b)

Sections == [from : Poses, to : Poses, over : Nat, end : Nat]

TypeOK ==
  /\ kind \in {"joint", "cartesian"} /\ alone \in BOOLEAN
  /\ goal \in [Goals -> Status]
  /\ thread \in [Goals ->
       {"none", "start", "prepare", "update", "reset", "step", "gone"}]
  /\ pending \in Goals \cup {NoGoal}
  /\ state_ \in {"IDLE", "MOVING"} /\ progress_ \in BOOLEAN
  /\ trajectory \in Seq(Sections)
  /\ trajectory # <<>> => current_section_ \in DOMAIN trajectory
  /\ t_ \in Nat /\ t_start_ \in Nat /\ t_start_ <= t_
  /\ scaling_ \in Nat /\ scaling_goal_ \in Nat /\ last_scaling_ \in Nat
  /\ ramp \in Nat /\ time_scaling_ \in Nat /\ steps_ \in Nat
  /\ control_goal_ \in Poses /\ robot \in Poses
  /\ controlling \in BOOLEAN /\ terminated \in BOOLEAN

Init ==
  /\ kind \in {"joint", "cartesian"} /\ alone \in BOOLEAN
  /\ goal = [g \in Goals |-> "none"] /\ thread = [g \in Goals |-> "none"]
  /\ pending = NoGoal /\ state_ = "IDLE" /\ progress_ = FALSE
  /\ trajectory = <<>> /\ current_section_ = 1 /\ t_ = 0 /\ t_start_ = 0
  /\ scaling_ = 1 /\ scaling_goal_ = 1 /\ last_scaling_ = 1 /\ ramp = 0
  /\ time_scaling_ = 1 /\ steps_ = 0 /\ messages = 0
  /\ robot \in Home /\ control_goal_ = robot
  /\ controlling = FALSE /\ terminated = FALSE

-----------------------------------------------------------------------------
(* The path                                                                *)

Start(path, from, i) == IF i = 1 THEN from ELSE path[i - 1]

(* No section is shorter than a fixed time (0.05 s).                       *)
getTime(path, from, i) == 2 * Most(1, Abs(path[i] - Start(path, from, i)))

EndTimes(path, from) ==
  LET end[i \in 0..Len(path)] ==
        IF i = 0 THEN 0 ELSE end[i - 1] + getTime(path, from, i)
  IN end

(* The time from its start in which the curve of a section reaches its via *)
(* pose.  The joint polynomials are fitted to the end time of the section, *)
(* counted from the start of the path.                                     *)
Over(path, from, i) ==
  IF kind = "joint" THEN EndTimes(path, from)[i] ELSE getTime(path, from, i)

(* A wrong variant: a section starts where the path does.                  *)
AllFromStart(path, from) ==
  [i \in DOMAIN path |-> [from |-> from, to |-> path[i],
     over |-> Over(path, from, i), end |-> EndTimes(path, from)[i]]]

generateTrajectoryImpl(path, from) ==
  [i \in DOMAIN path |-> [from |-> Start(path, from, i), to |-> path[i],
     over |-> Over(path, from, i), end |-> EndTimes(path, from)[i]]]

(* The curve after t periods in a section; the little it is continued      *)
(* beyond its end is left out.                                             *)
stepImpl(section, t) ==
  LET s == trajectory[section]
      way == (Abs(s.to - s.from) * Least(t, s.over)) \div s.over
  IN IF s.to >= s.from THEN s.from + way ELSE s.from - way

setTimeScaling ==
  /\ scaling_goal_' = time_scaling_ /\ last_scaling_' = scaling_
  /\ ramp' = steps_

(* A wrong variant: the last section is the one before.                    *)
stepEarlyEnd(publish) ==
  LET time == t_ + scaling_'
      next == time > trajectory[current_section_].end
              /\ current_section_ < Len(trajectory) - 1
  IN /\ t_' = time
     /\ current_section_' = current_section_ + IF next THEN 1 ELSE 0
     /\ t_start_' = IF next THEN trajectory[current_section_].end ELSE t_start_
     /\ progress_' = (time >= trajectory[Len(trajectory)].end)
     /\ publish

(* step, once scaling_ has made its own step; the caller publishes.        *)
step(publish) ==
  LET time == t_ + scaling_'
      next == time > trajectory[current_section_].end
              /\ current_section_ < Len(trajectory)
  IN /\ t_' = time
     /\ current_section_' = current_section_ + IF next THEN 1 ELSE 0
     /\ t_start_' = IF next THEN trajectory[current_section_].end ELSE t_start_
     /\ progress_' = (time >= trajectory[Len(trajectory)].end)
     /\ publish

-----------------------------------------------------------------------------
(* Callbacks of the executor, which handle_goal blocks while it waits      *)

Free == ~terminated /\ pending = NoGoal
Idle == \A g \in Goals : goal[g] \notin Active

handle_goal(g) ==
  /\ Free /\ goal[g] = "none" /\ (alone => Idle)
  /\ IF g \in Valid
       THEN pending' = g /\ UNCHANGED state_
       ELSE state_' = "IDLE" /\ UNCHANGED pending
  /\ UNCHANGED <<node, goal, thread, progress_, plan, scales, request,
                 world, terminated>>

(* getCurrentPose fails after two seconds and the goal is rejected.        *)
PoseTimeout(g) ==
  /\ ~terminated /\ pending = g
  /\ state_' = "IDLE" /\ pending' = NoGoal
  /\ UNCHANGED <<node, goal, thread, progress_, plan, scales, request,
                 world, terminated>>

(* A wrong variant: the section of the old path is kept.                   *)
AcceptWithoutReset(g) ==
  /\ ~terminated /\ pending = g
  /\ trajectory' = generateTrajectoryImpl(Via[g], robot)
  /\ t_' = 0 /\ t_start_' = 0
  /\ goal' = [goal EXCEPT ![g] = "executing"]
  /\ thread' = [thread EXCEPT ![g] = "start"]
  /\ pending' = NoGoal
  /\ UNCHANGED <<node, current_section_, state_, progress_, scales, request,
                 world, terminated>>

(* The pose arrives, and the path replaces the old one, which a thread may *)
(* be reading.  The goal is accepted and its thread started.               *)
Accept(g) ==
  /\ ~terminated /\ pending = g
  /\ trajectory' = generateTrajectoryImpl(Via[g], robot)
  /\ current_section_' = 1 /\ t_' = 0 /\ t_start_' = 0
  /\ goal' = [goal EXCEPT ![g] = "executing"]
  /\ thread' = [thread EXCEPT ![g] = "start"]
  /\ pending' = NoGoal
  /\ terminated' \in {FALSE} \cup {\E h \in Goals : thread[h] = "step"}
  /\ UNCHANGED <<node, state_, progress_, scales, request, world>>

handle_cancel(g) ==
  /\ Free /\ goal[g] = "executing"
  /\ goal' = [goal EXCEPT ![g] = Canceling(@)]
  /\ UNCHANGED <<node, thread, pending, state_, progress_, plan, scales,
                 request, world, terminated>>

setTimeScalingCallback ==
  /\ Free /\ messages < MaxMessages
  /\ time_scaling_' \in Scalings /\ steps_' \in Steps
  /\ messages' = messages + 1
  /\ UNCHANGED <<node, goal, thread, pending, state_, progress_, plan,
                 scales, world, terminated>>

-----------------------------------------------------------------------------
(* The detached thread of a goal                                           *)

At(g, pc) == ~terminated /\ thread[g] = pc
Goto(g, pc) == thread' = [thread EXCEPT ![g] = pc]

executeGoal(g) ==
  /\ At(g, "start") /\ Goto(g, "prepare")
  /\ progress_' = FALSE
  /\ UNCHANGED <<node, goal, pending, state_, plan, scales, request, world,
                 terminated>>


(* Whether SetControllers succeeded is not looked at.                      *)
prepareMotion(g) ==
  /\ At(g, "prepare") /\ Goto(g, "update")
  /\ controlling' \in {controlling, TRUE}
  /\ state_' = "MOVING"
  /\ scaling_goal_' = IF steps_ > 0 THEN time_scaling_ ELSE scaling_goal_
  /\ last_scaling_' = IF steps_ > 0 THEN scaling_ ELSE last_scaling_
  /\ steps_' = 0 /\ ramp' = 0 /\ scaling_' = scaling_goal_'
  /\ UNCHANGED <<node, goal, pending, progress_, plan, time_scaling_,
                 messages, control_goal_, robot, terminated>>

End(g, how) ==
  /\ goal' = [goal EXCEPT ![g] = how] /\ Goto(g, "gone")
  /\ state_' = "IDLE"

(* A wrong variant: a cancel is looked for only while the state is MOVING. *)
CancelMoving(g) ==
  /\ At(g, "update") /\ goal[g] = "canceling" /\ state_ = "MOVING"
  /\ End(g, "canceled")
  /\ UNCHANGED <<node, pending, progress_, plan, scales, request, world,
                 terminated>>

Cancel(g) ==
  /\ At(g, "update") /\ goal[g] = "canceling"
  /\ End(g, "canceled")
  /\ UNCHANGED <<node, pending, progress_, plan, scales, request, world,
                 terminated>>

(* Nobody locks time_scaling_ and steps_ together.                         *)
Rescale(g) ==
  /\ At(g, "update") /\ goal[g] # "canceling" /\ steps_ > 0
  /\ setTimeScaling /\ Goto(g, "reset")
  /\ UNCHANGED <<node, goal, pending, state_, progress_, plan, scaling_,
                 request, world, terminated>>

(* The switch on state_; an idle thread keeps looping.                     *)
Switch(g) ==
  \/ /\ state_ = "MOVING" /\ progress_ /\ End(g, "succeeded")
  \/ /\ ~(state_ = "MOVING" /\ progress_)
     /\ Goto(g, "step") /\ UNCHANGED <<goal, state_>>

updateState(g) ==
  /\ \/ At(g, "update") /\ goal[g] # "canceling" /\ steps_ = 0
     \/ At(g, "reset")
  /\ Switch(g) /\ steps_' = 0
  /\ UNCHANGED <<node, pending, progress_, plan, scales, time_scaling_,
                 messages, world, terminated>>

Ramp ==
  IF ramp = 0 THEN UNCHANGED <<scaling_, ramp>> ELSE
    /\ ramp' = ramp - 1
    /\ scaling_' \in IF ramp = 1 THEN {scaling_goal_}
                     ELSE Between(last_scaling_, scaling_goal_)

(* The robot follows what is published as long as its controllet runs.     *)
Publish ==
  /\ control_goal_' = stepImpl(current_section_', t_' - t_start_')
  /\ robot' = IF controlling THEN control_goal_' ELSE robot

executeTrajectory(g) ==
  /\ At(g, "step") /\ Goto(g, "update")
  /\ \/ /\ state_ = "MOVING" /\ Ramp /\ step(Publish)
     \/ /\ state_ # "MOVING"
        /\ UNCHANGED <<progress_, current_section_, t_, t_start_, scaling_,
                       ramp, control_goal_, robot>>
  /\ UNCHANGED <<node, goal, pending, state_, trajectory, scaling_goal_,
                 last_scaling_, request, controlling, terminated>>

-----------------------------------------------------------------------------
Thread(g) ==
  \/ executeGoal(g) \/ prepareMotion(g) \/ Cancel(g) \/ Rescale(g)
  \/ updateState(g) \/ executeTrajectory(g)

Next ==
  \/ \E g \in Goals :
       \/ handle_goal(g) \/ PoseTimeout(g) \/ Accept(g) \/ handle_cancel(g)
       \/ Thread(g)
  \/ setTimeScalingCallback

(* The operating system runs the threads; service calls have timeouts.     *)
Fairness ==
  \A g \in Goals : WF_vars(Thread(g)) /\ WF_vars(PoseTimeout(g) \/ Accept(g))

Spec == Init /\ [][Next]_vars /\ Fairness

-----------------------------------------------------------------------------
(* Properties                                                              *)

Succeeds(g) == goal[g] # "succeeded" /\ goal'[g] = "succeeded"
Reached(g) == control_goal_ = Via[g][Len(Via[g])]

(* "has been executed successfully" (motion_generator_ros_interface.h:261):*)
(* a goal that succeeds has had its last via pose commanded.               *)
SuccessReachesLastVia == [][ \A g \in Goals : alone /\ Succeeds(g) => Reached(g) ]_vars

(* It does so where the curve of every section fits its time (stepImpl).   *)
Fitting(g) == kind = "cartesian" \/ Len(Via[g]) = 1
CompletesFitting == \A g \in Goals : alone /\ Succeeds(g) /\ Fitting(g) => Reached(g)

(* The commands of such a path never leave the speed of its sections,      *)
(* whatever the scaling does at their borders: step and stepImpl have no   *)
(* jumps, and the first command follows on from the pose of handle_goal.   *)
MaxStep == 1
KeepsSpeed ==
  \A g \in Goals :
    alone /\ Fitting(g) /\ goal[g] \in Active /\ t_' # t_ /\ t_ > 0
      => Abs(control_goal_' - control_goal_) <= MaxStep

(* A goal on its own ends, unless it is paused for good (executeGoal).     *)
GoalsEnd == []<>(scaling_ = 0 \/ ~alone \/ Idle)

=============================================================================
