# A verification model of multipanda / franka_gazebo

TLA+ specifications of the stateful parts of this repository: the driver that
runs several Franka arms behind `ros2_control`, its error recovery, its MuJoCo
twin, the multi-mode controller that hands arms from one control law to another,
the gripper servers, the motion generators, and the example and research
controllers. TLC checks the specifications on small instances; TLAPS proves the
central invariants for every value of the constants.

Run from this directory:

    tlc -config robot_calm.cfg MCFrankaRobot.tla      # any cfg, with the module of the table below
    tlapm FrankaRobot_proofs.tla                      # likewise MultiModeController_proofs,
                                                      # ModeSwitch_proofs, MjHardware_proofs,
                                                      # SceneData_proofs, Grippers_proofs,
                                                      # Players_proofs and
                                                      # ExampleControllers_proofs

Paths below are relative to `src/`; `franka_hardware/src/real/` is abbreviated
`real/`, `franka_hardware/src/sim/` `sim/`, `franka_multi_mode_controller/`
`mmc/`, and the bases of `mmc/panda_motion_generators` `pmg/`.

## 1. Inventory

### Parts, their state and their operations

| Part | State | Operations | Threads |
|---|---|---|---|
| **Robot**, one real arm (`real/robot.cpp`) | `stopped_`, `finish_`, `has_error_`, `init_params_set`, `control_mode_`, the control thread, the last state, the commands, `read_mutex_`, `write_mutex_` | `stopRobot`, six `initialize<Mode>`, `read`, `write`, `automaticErrorRecovery`, parameter setters | real-time thread, control thread (libfranka loop), service thread |
| **Error recovery service** (`real/franka_error_recovery_service_server.cpp`) | none of its own | `triggerAutomaticRecovery` | service thread |
| **Parameter service** (`real/franka_param_service_server.cpp`) | none of its own | eight setters | service thread |
| **FrankaMultiHardwareInterface** (`real/franka_multi_hardware_interface.cpp`) | per arm: `control_mode_`, `switch_cm_`, five command arrays, the state arrays | `on_init`, `export_*`, `on_activate`, `on_deactivate`, `read`, `write`, `prepare_` and `perform_command_mode_switch` | real-time thread; `prepare` on a service thread |
| **Control node** (`franka_control2/src/franka_control2_node.cpp`) | the time of the last cycle | the loop `read`, `update`, `write` | real-time thread, executor |
| **Simulated hardware** (`sim/franka_mj_hardware_system.cpp`, `sim/robot_sim.cpp`, `franka_hardware/.../sim/model_sim.hpp`) | per arm as above; which groups of MuJoCo actuators are on (`gainprm`) and their inputs (`ctrl`); indices of the arm's joints, links, sites and actuators in the scene | as above; `initSim`, `populateIndices`, `populateFrankaState`, the poses, Jacobians and dynamics of the model | real-time thread; `prepare` on a service thread |
| **MultiModeController** (`mmc/multi_mode_controller_impl`) | `active_control_set_`, `control_map_`, `control_mtx_`, the torques, the robot data | `update`, `on_configure`, `on_activate`, `on_deactivate`, services `set_controllers`, `get_controllers` | real-time thread, executor |
| **Controllet bases** (`mmc/multi_mode_controller/.../base`) | buffered goal `desired_` and parameters `p_`, subscription and service | `init`, `start`, `stop`, `computeTau`, goal and parameter callbacks | real-time thread, executor |
| **Gripper server** (`franka_gripper/src/gripper_action_server.cpp`) | the last gripper state; per goal a thread and a future | four actions, `stop`, publishing timer | executor, one detached thread and one future per goal |
| **Simulated gripper** (`sim/gripper_sim_action_server.cpp`) | as above, and one flag `is_canceled_` shared by all goals | as above | as above |
| **Motion generators** (`mmc/panda_motion_generators`) | `state_`, the plan (`end_times_`, coefficients or key frames), `current_section_`, `t_`, `t_start_`, the ramp of the time scaling, the last goal commanded | goal, cancel, accepted, `execute`, `step`, time scaling | executor, one detached thread per goal |
| **Example and research controllers** (`franka_example_controllers`, `garmi_controllers`) | loaned interfaces and pointers taken from them, the start pose, the goal, the clock of a motion | `on_configure`, `on_activate`, `on_deactivate`, `update`, goal callbacks | real-time thread, executor |
| **Semantic components and state broadcaster** (`franka_semantic_components`, `franka_robot_state_broadcaster`) | references to loaned state interfaces, the pointers in them, the messages of the realtime publishers | `assign_` and `release_loaned_state_interfaces`, `initialize`, getters; the broadcaster's `update` | real-time thread, one publisher's thread per broadcaster |
| **Impedance bridge** (`my_impedance_bridge`) | the trajectory being played (`_traj_joint_names`, `_traj_points`, `_times`), `_elapsed`, `_active` | action callback, timer `_tick` | a pool of four threads |
| **Inverse kinematics action** (`htm_ik_action`) | none between goals | one action | executor |
| Launch files, descriptions, messages | configuration | | |

### How they interact

- The **controller manager** (not in this repository) calls `read`, `update`,
  `write` once per cycle on the real-time thread, and changes the active
  controllers between `update` and `write`. A request to switch controllers
  first calls `prepare_command_mode_switch` on a service thread; if that
  accepts, the real-time thread later calls `perform_command_mode_switch`,
  deactivates what is to stop and activates what is to start.
- `perform_command_mode_switch` of the real hardware calls `Robot::stopRobot`
  and one `Robot::initialize<Mode>` for each arm that switches. Each starts a
  thread that runs libfranka's loop; the loop's callback and `read()` share
  `read_mutex_`, the callback and `write()` share `write_mutex_`. That of the
  simulated hardware turns groups of actuators on and off.
- The **recovery service** calls the same `stopRobot` and `initialize<Mode>` on
  its own thread. No lock excludes it from the real-time thread.
- Controllers write commands through exported pointers into the arm containers;
  `write()` copies them to `Robot`, or to MuJoCo's `ctrl`.
- A controller is lent its interfaces at activation and keeps references to
  them; the state and the model of an arm are reached through pointers that
  travel bitwise in the value of an interface.
- `set_controllers` replaces the set of controllets under the exclusive
  `control_mtx_`; `update()` computes under the shared one.
- A **motion generator** asks for its controllet with `set_controllers`, then
  publishes goals to it; **gripper** goals run commands on one device.

### What is hard, and what makes each part correct

- *Robot.* Two threads stop and start the same `std::thread`; a loop may end by
  itself when the arm faults. Correct: `stopped_` tells the truth, a loop that
  died is flagged and joined, at most one loop runs, nothing terminates the
  process, `read()` does not deadlock with the loop, recovery answers.
- *FrankaMultiHardwareInterface.* `prepare` works arm by arm and may give up in
  the middle; it runs concurrently with the real-time loop. Correct: no arm is
  claimed by two controllers, claims, modes and loops agree, commands arrive.
- *Simulated hardware.* The same switches act on actuators that must never
  fight, and every arm shares its arrays with the rest of the scene. Correct: at
  most one group on per arm, the one its controller needs, given what that
  controller computed in this cycle; an arm's state and model are those of its
  own joints in its own base frame.
- *MultiModeController.* A set of controllets is replaced while the real-time
  thread computes with it, and goals arrive for controllets that no longer run.
  Correct: switches are atomic for `update()`, each arm has one author, old
  goals are not pursued, requests are answered, accepted goals are taken up.
- *Grippers.* Goals run on threads of their own over one device without a common
  lock. Correct: every accepted goal ends once, after its motion; cancelling one
  does not cut another unasked; a result tells what happened.
- *Motion generators.* A path is planned on the executor and stepped through on
  a thread, at a speed that changes on the way. Correct: a goal that succeeded
  has commanded its last pose, commands never jump, goals end.
- *Impedance bridge.* The callback of a goal loads members which a timer plays
  from, on other threads and without a lock. Correct: a goal that succeeded has
  been played to its end, set points of two trajectories do not mix, goals end.
- *Controllers and broadcasters.* A controller is configured, started, stopped
  and started again, with callbacks and publishers beside it. Correct: no
  pointer of an earlier loan is followed, an activated controller starts where
  the arm is and not at an old goal, motions end, messages are whole and go out.

`PROJECT.json` lists the hazards, each with the line where it bites and the
properties that cover it. A hazard that the environment of the runs excludes, or
of which what would be right does not hold, names no property: its note says
what TLC finds when it is let in.

### Hazards without an entry there

Weaker, or of the same kind as one that is listed: parameters survive the stop of a
controllet and are in force at its next start (`p_` is reset by `init_` only); the answer of
`SetControllers` is not looked at by a motion generator, nor awaited after two
seconds, so that a path succeeds although the controllet never got the robot; a
`CommandException` of
`automaticErrorRecovery` or of a parameter setter is not caught by the service;
`RobotData`'s getters return references after unlocking; `move_timeout_` is an
`int` incremented at 1 kHz and overflows after 24.8 days without a goal;
`max_count` of the simulated gripper is a
quotient by the speed of the goal, which may be 0; `on_deactivate` of the real
hardware works on copies of the arm containers; a gripper `stop` may throw on a
detached thread; `time_scaling_` and `steps_` are two atomics that are not
read as a pair;
`printGoal` indexes a goal that may have no via poses; the ramp of the time
scaling adds 1.0/steps; after `on_deactivate` the simulated actuators stay on;
a non-finite command of one simulated arm keeps later arms from being written;
kinds of claims are told apart by counting joints; the initial pose of the
simulation goes by order; `bodyJacobianImpl` uses a site's index as a body's;
`O_T_EE` of the simulation is the flange; references of `FrankaRobotModel` grow
with each activation; the targets of the head and base controllers outlive their stop; the
speeds of the wheels are read under two locks and the time-out of the base is
never compared; a message whose first entry is 0 is dropped; a publishing
frequency of 0; `dq_filtered_` survives a restart of the joint impedance
controllers; `multi_joint_impedance` keeps the arms of an earlier configuration; the velocity example moves only
joints 3 to 6; `errorsToMessage` leaves out four flags.

## 2. Modules

    ControlMode            the enum ControlMode
    RobotLoop              abstract: what Robot promises its callers
    FrankaRobot            one arm, its control thread, real-time thread, services
      MCFrankaRobot        instances        FrankaRobot_proofs         theorems
    ModeSwitch             several arms behind FrankaMultiHardwareInterface
      MCModeSwitch         instances        ModeSwitch_proofs          theorems
    MjHardware             several arms behind FrankaMjHardwareSystem
      ModelSim             indices, frames and matrices of its state and model
      SceneData            the arrays of MuJoCo for a scene, and what is to be read from them
      MCMjHardware         instances        MjHardware_proofs, SceneData_proofs theorems
    ArmOwners              abstract: what the multi-mode controller promises
    MultiModeController    the controller, its service and its controllets
      MCMultiModeController instances       MultiModeController_proofs theorems
    GoalHandle             a goal of a ROS action (external)
    GoalServer             abstract: what a server promises for its goals
    GripperGoals           what both gripper servers share
      Gripper, GripperSim  the server of the real, of the simulated gripper
      MCGrippers           a node with either server, instances;  Grippers_proofs theorems
    MotionGenerator        the joint and the Cartesian motion generator
    ImpedanceBridge        the action server that plays trajectories, its timer and threads
      MCPlayers            a node of either of the two, instances;  Players_proofs theorems
    ExampleControllers     example and research controllers, broadcasters
      MCExampleControllers instances        ExampleControllers_proofs  theorems

### FrankaRobot

`robot` holds the members of `Robot`, `loop` is where the control thread is
(`"none"`: there is nothing to join), `pc`, `ret` and `target` are the positions
of the real-time thread, the recovery service and the parameter service, and
`abort` says why the process was terminated. Every access to a flag, a mutex or
the thread object that another thread can see is a step: `stopRobot()` is
`StopCheck`, `StopFinish`, `StopJoin`, `StopJoined`, `StopReset`, `StopMark`;
`initialize<Mode>()` is `InitCheck` (the assertion, if compiled in), `InitMark`
and `InitSpawn`; `read()` is `ReadLock` to `ReadDone`; the loop's callback is
`LoopPacket`, `LoopStore`, `LoopCheck`, `LoopCommand`, and the end of the loop
`LoopUnwind` and `LoopCatch`. The recovery service is `RecoveryRequest` to
`RecoveryDone`, one action per call it makes. `control_mode_` is never assigned
in the code, so its initial value is any mode or `Garbage`.

The environment is a constant. `Races` is empty for an environment that is calm:
the operator switches and activates between errors, asks for recovery once the
failed loop has been joined, and the arm does not fault in the middle of either.
Each element of `RaceKinds` lifts one of these restrictions.

**RobotLoop** is the contract without threads: a loop is started only on a
stopped arm without an error, fails at most once, and an error is cleared only
when the loop is gone. `FrankaRobot` implements it (`RobotLoopSpec`) with
`running` mapped to the mode of the loop while `stopped_` is false.

### ModeSwitch

A controller is a constant with a claim: arms, joint or Cartesian, and what it
commands. A list of interfaces is the set of controllers that claim them, and a
command is reduced to who computed it in this cycle, or `Nobody`.
`prepare_command_mode_switch` runs on its own thread without a lock, so `prepare`
is its program counter: the pass, the arm (`Here`), where it is with that arm, and
the two lists. `SwitchController` is the call as the controller manager makes it;
then per arm and pass comes `StopArm` (check the list, reset the commands) or
`StartArm` (check), `SetMode` and `SetFlag`, two statements and two steps, and
`NextArm`. `Refuse` is a return of ERROR in the middle: what the arms before have
been given stays, and `spoiled` remembers them. The seven values a stop zeroes are
reset in one step: nothing here tells the joints of an arm apart. The cycle is
`Read`, `Compute` (who has computed is remembered in `computed`), `Perform` or
`NoSwitch`, and `Write`, in the order of the controller manager.
`NameIn` says which arms' names occur in which interface names, as the code
attributes interfaces to arms by substring. `Robot` is reduced to its running
loop and its error; after a recovery that loop is any (`restarted`), because
FrankaRobot shows that it is. `Exported` says which command interfaces point
into the containers `write()` reads: those of the joints do, the Cartesian ones
point into copies.

### MjHardware, ModelSim and SceneData

`MjHardware` models the same cycle for the simulated hardware:
`prepare_command_mode_switch` goes through the arms as in `ModeSwitch`
(`StopArm`, `StartArm`, `SetMode`, `SetFlag`, `NextArm`, `Refuse`) beside the
real-time thread, which itself goes from arm to arm in `WriteArm`. `gain` is the
set of groups of actuators that are on per arm, `ctrl` their inputs; a value is
reduced to who computed it in this cycle and to whether it is finite. `scene` is
the kinds of elements present per arm, on which initialisation succeeds or not. `spoiled`
collects the arms that a refused request or a lifecycle transition has touched.

`ModelSim` is the pure part: `mj_name2id`, the address of a joint's coordinate
(`jnt_qposadr`) and of its degree of freedom (`jnt_dofadr`), poses and their
products, Jacobians, mass matrix, Coriolis and gravity, and the state of an arm
assembled from them. Numbers are integers and rotations are matrices, also where
the code passes through quaternions; a matrix is a function of its rows, and
libfranka's column order is applied by the operators that export it.
`SceneData` builds what ModelSim reads: `Facts` says what is the case by the names
of joints, bodies and sites, and `mjModel` and `mjData` lay it out in MuJoCo's
arrays, in the order a member of `Layouts` gives the arms and the `Objects`, which
move freely and so have seven coordinates but six degrees of freedom. Its two
properties, `OwnJoints` and `InBaseFrame`, then compare what ModelSim cuts out with
the facts about the arm. `MCMjHardware` gives two arms and one object in three
orders, with bases at the origin, aside, turned and tilted.

### MultiModeController

`active_control_set_`, `control_mtx_`, `desired_` and `p_` are the members of
that name. `setControllersCallback` is `SetRequest`, `SetLock`, `SetStop`,
`SetAssign`, `SetStart`; `update()` is `UpdateState`, `UpdateLock`,
`ComputeTau` once per controllet, `UpdateWrite`; `on_activate` is `Activate`,
`ActivateStart` per controllet, `Activated`. A buffer (`utils/buffered.h`) holds
where its content came from: the pose at the start, a goal, or a goal that
belongs to an earlier run (`"old"`). `written` collects who computed which
arm's torque in the current update. `Overlap` says whether `set_controllers` may
overlap an activation, which takes no lock.

**ArmOwners** is the promise: each arm has one owner, a controllet has all its
arms or none, a request hands over the arms it names in one step and leaves the
others. `MultiModeController` implements it (`OwnersSpec`).

### Grippers

`GripperGoals` has what the two servers share: `goal` (the handles), `thread`
(the detached thread of each goal), `motion` (the command in its future),
`width` and `current_gripper_state_`, which is `width` at the last timer tick.
`Gripper` adds the device: a command is called, sent, moving, reached or cut,
and returns; a stop, of a cancel or of the service, cuts what is moving, and any
command may fail (`Faults`); the failure of a stop on a detached thread ends the
process (`terminated`).
`GripperSim` adds the loops in which the simulated motions run and `is_canceled_`:
`Homing` and `Check` are the look at the flag before a turn, `Write` the step
that follows it, `Plant` the fingers. `asked` remembers which goals'
motions a cancel, a stop or the end of the node was for.

**GoalServer** is the promise: a goal moves at most once, ends once and after its
motion, and is a success only if the motion was completed or none was needed.
`Gripper` implements it. `GripperSim` does not: `SuccessMeansCompleted` fails.
`MCGrippers` is a node with either server, chosen initially: its `NodeSpec` takes
the steps of the one or of the other.

### MotionGenerator

A pose is a number, a path is a sequence of via poses, a section a straight line.
`handle_goal`, `PoseTimeout` and `Accept` are the callback of that name and the
two ends of its wait for the pose of the robot; the members it plans into
(`trajectory`, `current_section_`, `t_`, `t_start_`) are those a running goal's
thread steps through, and a plan made while it does may end the process
(`terminated`). `executeGoal` and `prepareMotion` begin that thread; a turn of
its loop is `Cancel`, or `Rescale`, `updateState` and `executeTrajectory`. The two kinds of generator differ in the duration they give
a section's curve (`Over`): the joint generator fits it to a time counted from
the start of the path. `alone` says whether clients wait for each other's goals.

### ImpedanceBridge

The callback of a goal is one action per assignment: `load_trajectory` fills the
three members, `Activate` resets the clock and sets `active`, `Finish` is the end
of the wait. A tick is `Fire`, `Read`, `Publish`, `Add` (the load and the store of
`+=`), `Compare` and `Deactivate`; up to two run at a time (`Ticks`). Members
filled from a trajectory are named by its goal, so that a mixture of two shows.
`Begin` and `Free` are the pool of threads of the executor, on which a goal
holds its thread while it waits. `races` says what the environment may do
beyond goals one at a time: goals that overlap, a timer that lags or overlaps
with itself, goals without points. `MCPlayers` is a node of this kind or a motion
generator, chosen initially.

### ExampleControllers

A controller is named for its class; `mem` is its members: its life cycle state,
the references of its model component (each live or dead), the pose it set out
from, its clock and its counter of cycles between messages. A set point is kept
as two halves, since a goal's callback writes it joint by joint without a lock
(`CallbackBegin`, `CallbackEnd`) beside `update()`, which reads it in two steps
(`UpdateBegin`, `UpdateEnd`) and beside `on_activate` in `Switch`. `publisher` is
the thread of a realtime publisher, which shares a message with `update()` by
turns and `trylock()`. Following a dead reference, or a model pointer never set,
sets `fault`. `MCScenarios` lists the controllers loaded together.

## 3. Runs

| cfg | module | expects | properties, and what the run shows |
|---|---|---|---|
| `robot_calm` | MCFrankaRobot | pass | `TypeOK`, `NoAbort`, `StoppedMeansNoLoop`, `ErrorsAreKnown`, `ReadNeverDeadlocks`, `RobotLoopSpec`, `DeadLoopIsStopped`, `NobodyStarves`: in a calm environment, for three modes, the flags, the thread and the mutexes agree, the process survives, the contract `RobotLoop` is kept; under fairness a dead loop is joined, recovery answers, the real-time loop turns. |
| `robot_races` | MCFrankaRobot | pass | `ReadExcludesRestart`: with assertions compiled in and every race allowed, up to a termination of the process, `read()` and the restart of a loop by recovery exclude each other. |
| `robot_read_deadlock` | MCFrankaRobot | violation | `ReadNeverDeadlocks`: arm in error at start, then activated; `read()` joins the reading loop while holding the mutex its callback waits for. |
| `mmc` | MCMultiModeController | pass | `TypeOK`, `EveryArmWrittenOnce`, `NoOldGoal`, `SwitchesAreAtomic`, `OwnersSpec`, `NobodyStarves`, `GoalIsTaken`: one author per arm, atomic switches, no old goals, the promise `ArmOwners`; `set_controllers` answers, an active controller computes on, goals are taken up. |
| `hw_switch` | MCModeSwitch | pass | `TypeOK`, `OneControllerUnlessSpoiled`, `ModesAgree`, `CommandsArrive`: for distinct names and joint claims, with the passes of a switch made or refused arm by arm beside the cycle, claims, modes and loops of every arm that no refusal has changed agree, and joint commands arrive in the cycle they were computed in. |
| `hw_rejected` | MCModeSwitch | violation | `OneControllerPerArm`: what a refused request leaves behind lets a second controller onto an arm. |
| `grippers` | MCGrippers | pass | `NodeTypeOK`, `CutWasAsked`, `RealKeepsPromise`, `GoalsEnd`: the real server implements `GoalServer` with cancels, stops and a failing connection; the simulated one cuts only what was to be cut, for clients that take turns; both end every accepted goal. |
| `gripper_cancel` | MCGrippers | violation | `SuccessMeansCompleted`: a cancelled goal of the simulated gripper is reported as a success. |
| `motion` | MCPlayers | pass | `PlayerTypeOK`, `PathsAreCompleted`, `MotionsAreSmooth`, `EveryMotionEnds`: Cartesian paths and joint paths over one via pose are completed and never jump while the scaling changes; goals end, and a cancel ends them also when others overlap or are rejected. The impedance bridge plays trajectories to their end and without a jump when no race occurs, and whatever race does, goals end or the process has. |
| `motion_via` | MCPlayers | violation | `SuccessReachesLastVia`: a joint path over two via poses succeeds short of the last one. |
| `sim_hardware` | MCMjHardware | pass | `TypeOK`, `OneGroup`, `ActuatorsMatchClaims`, `OwnJoints`, `InBaseFrame`, `CommandsReachActuators`: switches prepared arm by arm beside the real-time thread, refused requests, lifecycle transitions and non-finite commands never leave two groups on, nor an arm driven otherwise than its controller needs; state and model are an arm's own in any order of the scene. |
| `sim_controllers` | MCExampleControllers | pass | `TypeOK`, `PointersAreGood`, `PursuesOnlyNew`, `MotionsAreWhole`, `MessagesKeepStill`, `Broadcasts`: no dead loan is followed, nothing old moves an arm at an activation, motions start at their first cycle and end, messages are whole and go out. |

The four violations are the findings of `PROJECT.json`, each with the line it
contradicts. `CHECK_DEADLOCK FALSE` is set where a behaviour rightly ends: the
process may have been terminated, or the clients have sent all their goals, or
the run stops at its counterexample; and in `sim_hardware`, where nothing follows
a scene that is refused.

### What else the models show

Statements that TLC refutes on these models and that no run records. The
definitions named are in the modules; the environment in brackets is what the
run of that module has to be given.

- FrankaRobot, `NoAbort` (`early_recovery`, `fault_in_switch` or `switch_in_error`
  among `Races`) and `StoppedMeansNoLoop` (`switch_in_error`, or the other two):
  recovery and the real-time thread stop and start one thread without a lock.
- FrankaRobot, `RecoveryRestoresLoop`: recovery restarts what the never-assigned
  `control_mode_` says, not the loop that failed.
- FrankaRobot, `NoAbort` (`inactive_recovery` among `Races`): error, deactivation,
  recovery, activation assigns a thread over a joinable one, `std::terminate`.
- MultiModeController, `OnlyAffectedUnloaded`: a request restarts controllets on
  arms it does not concern. `SwitchesAreAtomic` (`Overlap = TRUE`): a request
  during an activation leaves an unloaded controllet started.
- ModeSwitch, `ControllersCanStop` (Cartesian claims on both arms): such a
  controller can be started but not stopped. `HealthyArmsWritten`: an arm in
  error keeps later arms from being written. `ModesAgree` (names contained in
  one another) and `CommandsArrive` (Cartesian claims) fail.
- GripperSim, `CutWasAsked` (`OneAtATime = FALSE`): cancelling one goal cuts another.
- Gripper, `NoIdleSuccess`: a `gripper_command` compares its target with the
  state of the last timer tick and may succeed without a motion.
- ImpedanceBridge, `PlaysToTheEnd` and `SmallSteps` without `Calm`. Overlapping
  goals: names, points and times of two goals are published together, and one
  goal succeeds when the other has been played. A timer that lags: the deadline
  ends a goal as a success in the middle of its trajectory. A goal without points
  succeeds, and leaves `active` set: a tick during the load of the next one finds
  points and no times, and the IndexError leaves the executor.
- ModelSim: for a base that is not at the origin, the angular rows of
  `zeroJacobian` are not the angular velocities in the base frame, since the
  whole Jacobian goes through the adjoint of the base's pose. The bases of
  `mj_dual.xml` stand 0.26 m aside. `InBaseFrame` states these rows for a base
  at the origin and the others for every base.

### Bounds, and why they are enough

- *FrankaRobot.* Nothing is counted: the state space of one arm is finite and
  is explored whole. Arms share no mutex, so one arm stands for several; what
  they share is ModeSwitch. `MCThreeModes` has the reading loop, a joint and a
  Cartesian mode; the code is the same text for all six.
- *ModeSwitch.* Two arms are the fewest for which the order of arms, a claim of
  both and a pass given up half-way matter. Four controllers give each kind of
  request: disjoint claims, overlapping claims, and an incomplete claim, which is
  refused after the stop pass has changed arms. Only
  the first arm faults, since it is the one whose error hides the second.
- *MjHardware.* The same two arms; four controllers give two rivals of
  different kinds for one arm, one for both arms and one whose claim is refused.
  Two joints (`kNumberOfJoints`) are the fewest in which rows, columns, joints
  and their neighbours are told apart; the pure operators are evaluated over
  three orders of the scene and four bases.
- *MultiModeController.* Two arms, a controllet for each, a rival for one and a
  controllet for both give every case of keeping, replacing and refusing.
  Clients command the two-arm controllet (`Commanded`), to keep the check of
  liveness short; the safety properties are proved for any `Commanded`.
- *Grippers.* Three kinds of goal (homing, one in reach, one out of reach), of
  which two are sent in a behaviour (`MaxGoals`): two are the fewest that
  disturb each other. Widths 0 to 2. `Extra` is how many turns a simulated
  motion may take beyond the distance. Clients of the simulated server take
  turns (`OneAtATime`); for the real one goals overlap.
- *MotionGenerator.* Goals over one and over two via poses and an invalid one;
  poses 0 to 2, scalings 0 and 2 (halt and double), ramps of two steps, one message.
- *ImpedanceBridge.* Three goals: a movement, a pause and a movement, no points. Two threads
  instead of four: a goal and a tick have one each, and two goals that wait leave none
  for the timer. Two ticks are the fewest that overlap. Each race is looked at alone.
- *ExampleControllers.* Two arms, two poses, two goals of which one has no
  orientation. `Period` 2 is the shortest in which a cycle passes without a
  message, `FinalTime` 2 the shortest motion with a middle, `MaxLoans` 3
  activations between two configurations.

### Fairness, and why the code justifies it

Weak fairness of each thread: the operating system runs what is runnable. In
FrankaRobot and MultiModeController acquisitions of a contended mutex get strong
fairness: every holder releases it within its period, again and again, and the
waiting thread is woken among finitely many contenders; `UpdateLock` and
`SetLock` both get it, since `std::shared_mutex` promises neither side more. In
the grippers each goal's thread and each command on the device goes on (`Send`,
`Return`: `franka::Gripper`, external, ends every command); in MotionGenerator the executor
also comes back from its wait for a pose, which has a time-out; in ImpedanceBridge
each callback and the timer go on, and `Begin` has strong fairness, since the pool serves
its queue in order and a thread comes free again and again; in
ExampleControllers the real-time loop and the publishers' threads run. Requests
(switches, goals, cancels, recovery, parameter calls, activation, messages) and
faults have no fairness: they need not come. ModeSwitch and MjHardware state no
liveness: their properties of a cycle are action properties.

## 4. Proofs

All from the assumptions named in the modules (`ModesAssumption`,
`ResourceAssumption`, `StartAssumption`, `ClaimAssumption`, `OrderAssumption` and
so on, each evaluated by TLC in the runs).

| theorem | states | argument |
|---|---|---|
| `FrankaRobot_proofs!TypeCorrect` | `Safety => []TypeOK`, any `Races` | `Typed`: types, and a recovery about to start a loop has a real mode as its target. |
| `FrankaRobot_proofs!ReadExcludesRestartAlways` | `ReadExcludesRestart`, any `Races` | `Locked`: each of the two sections runs under `read_mutex_`, including a `stopRobot()` called by `read()`. |
| `FrankaRobot_proofs!LoopsStartStopped` | `StartOnlyWhenStopped`, if `Tame` | `Orderly`: a recovery under way excludes a switch, keeps the arm stopped and never itself stops a loop; an inactive arm has no loop. |
| `FrankaRobot_proofs!StoppedTellsTheTruth` | `StoppedMeansNoLoop`, if `Tame` | `OneOwner`: between `stopped_ = false` and `stopped_ = true` exactly one party owns the loop: a thread about to spawn it, the loop, or the thread that joined it. `StoppedMeansNoLoop` alone is not inductive, as two threads could be in `stopRobot` at once, and `OneOwner` needs `Orderly`. |
| `FrankaRobot_proofs!NothingTerminates`, `EveryErrorIsKnown`, `ReadMeetsNoLoop` | `NoAbort`, `ErrorsAreKnown`, `ReadNeverDeadlocks`, if `Calm` | `CalmInv`, on top of the invariants above. `FaultsAreReal`: a packet or a stored state that says kReflex may be older than a recovery, but not while a loop looks at it. `StartsAreClean`: no loop starts while an error is flagged. `OneOperation`: libfranka's lock tells which loops are at work, and read() gets to its `stopRobot()` only past that lock. `StopsAreJoined`: who stops a loop finds one. |
| `FrankaRobot_proofs!RobotLoopImplemented` | `RobotLoopSpec`, if `Calm` | `InitMark` implements `Start`, the loop's `setError` `Fail`, `StopMark` `Stop`, `RecoveryClear` `Clear`; every other step stutters. |
| `MultiModeController_proofs!TypeCorrect` | `Safety => []TypeOK` | includes which thread holds `control_mtx_`. |
| `MultiModeController_proofs!ArmsWrittenOnce` | `EveryArmWrittenOnce` | the active set and a set about to be installed are exact covers of the arms; the torques written so far are those of the controllets visited so far. |
| `MultiModeController_proofs!SwitchesHappenAtOnce` | `SwitchesAreAtomic`, if `Overlap` is false | `SwitchIsAtomic`: a started active set except while the service holds the lock between stop and start, or before activation. `ActiveOnesRun`: nothing else is started either (`Matched`), which has to say for each position of both threads which of the old and the new set run. |
| `MultiModeController_proofs!NoOldGoalPursued` | `NoOldGoal`, if `Overlap` is false | by `Fresh`, an invariant on what the buffer of a started controllet holds: a start replaces its content, a goal sent later is of this run. |
| `MultiModeController_proofs!OwnersImplemented` | `OwnersSpec` | `SetAssign` implements `Grant`, `SetRequest` implements `Ask`, every other step stutters. |
| `ModeSwitch_proofs!TypeCorrect` | `Spec => []TypeOK` | with `Checked`: beyond the checks of an arm the list speaks of it, so what a start installs is the mode of a controller. |
| `ModeSwitch_proofs!ArmsHaveOneController`, `ModesFollowClaims` | `OneControllerUnlessSpoiled`, `ModeIsClaimed`, if names are distinct | `Held`: `control_mode_` is set while a switch is prepared and the controllers change when it is performed, so the invariant speaks of the controllers `Due` on an arm, as far as the stop and the start pass have come (`Passed`): they are at most one, the arm is in its mode, and an arm on which due and active controllers differ has been touched by the passes. A refusal puts the touched arms into `spoiled`, of which nothing is said. |
| `ModeSwitch_proofs!LoopsFollowModes` | `LoopMatchesMode`, any names | `Aligned`: a healthy arm of an active interface whose loop is not that of its mode has been touched by the passes of a switch still to be performed, unless recovery chose the loop. |
| `ModeSwitch_proofs!ModesClaimsAndLoopsAgree` | `ModesAgree`, if names are distinct | the two before. |
| `ModeSwitch_proofs!ComputedCommandsArrive` | `CommandsArrive`, likewise, if only joint interfaces are claimed | `CommandsLieReady`, on top of `Held`: between update and write the commands of whoever was updated lie in `hw` for each of its arms, unless a pass stops it and has come to that arm. A stop resets efforts and velocities of one kind of one arm, so it needs that claims are exclusive. |
| `MjHardware_proofs!TypeCorrect` | `Spec => []TypeOK` | `prepare.i` stays within the arms while a pass runs. |
| `MjHardware_proofs!ArmsDrivenOnce` | `OneGroup` | `Untouched`: before `initSim` has succeeded nothing can be prepared, read or switched, so that no gain of the loaded scene meets a switch. |
| `MjHardware_proofs!ActuatorsGetFiniteValues` | `OnlyFinite` | what is written was tested for the arm in the same step. |
| `MjHardware_proofs!ActuatorsFollowClaims` | `ActuatorsMatchClaims` | `Agree`: while `prepare_command_mode_switch` goes from arm to arm, each arm has the mode of the controllers *due* on it at that position of the pass (which moves on when the mode is set, before the flag), the actuators of those that are active, and is marked if the two differ; a list due is exclusive; an arm left half-way is in `spoiled`. |
| `MjHardware_proofs!ComputedCommandsReachActuators` | `CommandsReachActuators` | `CommandsReady`, on top of `Agree`: a command that was computed lies ready unless its arm is marked and its controller in the list being stopped; a refusal spoils the marked arms, a performed switch takes what stops out of `computed`. `on_activate` in the middle of a cycle resets an effort only where `Agree` says that the controller is about to stop, or spoils the arm. |
| `SceneData_proofs!JointsAreOwn` | `OwnJoints`, any arms, objects, orders and facts | holds of any scene, so of every state. `IndicesOfArm`: the address `populateIndices` finds for a joint, a sum over the joints before it, is where the joined array has the entries of that joint (`FlattenedAt`), and a name is found once (`IdOfName`). What sums and the join of sequences return is shown by contradiction from the least place where it fails. |
| `SceneData_proofs!PosesAreInBaseFrame` | `InBaseFrame`, likewise | `PosesLead`: a pose relative to the base, put behind the base, is the pose of the site, since R times its transpose is the unit matrix; `VelocitiesTurned`: the same for the rows of a Jacobian; `ColumnMajorAt`: column order loses nothing. |
| `Grippers_proofs!RealServerImplements` | `RealKeepsPromise`, any goals, with or without `Faults` | `InStep`: where the thread of a goal is tells how far the goal and its command are. `handleGoal` implements `Accept`, `handleCancel` `Cancel`, `Call` `Begin`, `Stopped` and the device `Halt`, `End` `End`; every other step stutters, and so does a node with the simulated gripper. |
| `Grippers_proofs!TypeCorrect` | `NodeTypeOK` | for the simulated gripper by `Reach`: the position of a loop plus the steps it has left is where it will end, and a step is written only after a look at a positive rest. |
| `Grippers_proofs!OnlyTheirsAreCut` | `CutWasAsked`, if `OneAtATime` | `FlagIsTheirs`: one goal at most is active, and while it is, a raised flag was raised against it. A loop that can still be cut belongs to an active goal (`SimInStep`), so no other goal's cancel can reach it. |
| `Players_proofs!TypeCorrect` | `PlayerTypeOK`, any goals and races | for a generator by `Stepping`: a goal with a thread has a plan, and every section of a plan takes time. That `EndTimes` adds up is shown by contradiction from the shortest beginning of a path for which it does not. For the bridge by `PosesAreNumbers`: the times found are of one rising list, so that interpolation never divides by zero. |
| `Players_proofs!PathsCompleted` | `PathsAreCompleted`, if `Slow` | generator: `InTurn`. A goal that is alone is `OnTheWay`: its time lies in the section that is played, or behind the last one, and its last command is what that section has there; `progress_` is set only behind the end. Bridge: `CalmTurn`. Between two steps of a tick the published set point is that of `elapsed` or of the period before (`Tracks`, `UpTo`), and a tick deactivates only when the latter lies behind the last point. |
| `Players_proofs!MotionsSmooth` | `MotionsAreSmooth`, if `Slow` and `Gentle` | the same invariants, with `StepIsSmooth` (a period takes at most two units of time, and over at most one border, where two curves meet) and `PosesNear` (so does one period of interpolation). |
| `ExampleControllers_proofs!TypeCorrect`, `NoPointerDangles` | `TypeOK`, `PointersAreGood` | `GoodPointers`: who gives its references back on deactivation has living ones exactly while it is active; who keeps them follows them once, in the update between its activation and the next switch, and is initialised from then on; the models are set from the first `read()` on. |
| `ExampleControllers_proofs!NothingOldIsPursued` | `PursuesOnlyNew` | `Motions`, on top of `GoodPointers`: a goal that was over at an activation stays over; what a controller keeps, has half read in this cycle and commands is its start pose or a goal that was not. |
| `ExampleControllers_proofs!MotionsStartSoftly` | `StartsSoftly`, the first half of `MotionsAreWhole` | by the part `Clocks` of `Motions`: a clock that has started belongs to a motion that has been commanded. |
| `ExampleControllers_proofs!MessagesAreWhole` | `MessagesKeepStill` | the turns of the publisher, step by step. |

`Tame` leaves out the races `switch_in_error`, `early_recovery` and
`inactive_recovery`; the arm may start in error, fault during a switch or a
recovery, and refuse the recovery. Without `Tame` the two theorems are false:
the check of `stopped_` and its assignment are separate steps of two threads,
and assertions do not close that gap. `Calm` leaves out every race; the theorems
that assume it are false with most of them (`NoAbort` with `refused_recovery` or
`inactive_recovery`, `ReadNeverDeadlocks` with `start_in_error`, as TLC shows).
`FactsAssumption` says that rotations are orthonormal; their entries, like all numbers
here, are integers: the argument uses only that sums and products of numbers commute,
associate and distribute, but it is checked for integers.
`Slow` says that no time scaling is above 2, the periods of the shortest section:
beyond that a period passes two borders, `step` moves on by one section only, and
the path lags behind its time. `Gentle` says that adjacent points of a trajectory
are no further apart in pose than in time. Both hold in the runs.

Only model-checked: every liveness property (fairness and `ENABLED` are out of
the prover's reach); of ExampleControllers, that motions end (`MotionsAreWhole`).
No module declares a `RECURSIVE` operator.

## 5. Not modelled, and why

- **Inverse kinematics action** (`htm_ik_action`): numerical, and its one
  stateful aspect is a cancel that is accepted and never looked at.
- Launch files, descriptions, messages: configuration and generated code.
- `cartesian_velocity_example_controller`: it claims `ee_cartesian_velocity/*`,
  while the hardware exports these names behind the arm's prefix
  (`real/franka_multi_hardware_interface.cpp:201`), so that it cannot be
  activated. `custom_controller_template` does nothing.
- Numbers: torques, gains, filters, collision distances (`openGJK.c`), the
  redundancy resolution, curves of paths and their limits of speed. Properties
  here are about who computes what and when, and about which entries of an array
  or a matrix are whose.
- In `ModeSwitch`, non-finite commands (`write()` returns ERROR) and partial
  claims of two controllers that add up to a complete one.
- In `MultiModeController`, torn reads of `RobotData`, the counter
  `move_timeout_`, the responses that are never filled.
- In `ImpedanceBridge`, `send_trajectory_from_msg`, which nothing in `src/` calls: it
  loads a trajectory as a goal does, with nobody waiting for it.
- In `Gripper`, the joint state messages; in `MotionGenerator`, orientations; in
  `ExampleControllers`, the fields of the messages, reduced to the cycle in which
  they were filled.
- The destructor of `Robot`, construction and shutdown of `FrankaExecutor`.
- MuJoCo, libfranka, `rclcpp_action`, `realtime_tools` and the controller manager
  are external: they appear as the code here uses them.

## 6. Plan

Done: FrankaRobot with RobotLoop, the multi-mode controller with ArmOwners, and
ModeSwitch, with their proofs; the grippers with GoalServer, MotionGenerator and
ImpedanceBridge, with theirs; MjHardware, ModelSim and SceneData, with theirs; the example and
research controllers with their proofs.

Next, most important first:

1. A composition of ModeSwitch with RobotLoop per arm, instead of its reduced
   robot, so that what is proved of one carries over to the other.
2. Partial claims and non-finite commands in ModeSwitch.
