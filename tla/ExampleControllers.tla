------------------------- MODULE ExampleControllers -------------------------
(***************************************************************************)
(* The ros2_control controllers of franka_example_controllers, of          *)
(* garmi_controllers and of franka_robot_state_broadcaster, as the         *)
(* controller manager runs them beside the threads that bring them goals   *)
(* and take their messages away, and FrankaRobotModel, through which they  *)
(* reach the model and the state of an arm.                                *)
(*                                                                         *)
(* A controller is named for its class.  What it moves to is kept as two   *)
(* halves, a position and an orientation, or some joints and the others,   *)
(* since nothing makes a goal arrive as a whole.  Torques are left out: a  *)
(* command is what it pursues, and how long after its activation.          *)
(***************************************************************************)
EXTENDS Naturals, Sequences, FiniteSets

CONSTANTS
  Scenarios,    (* sets of controllers that may be loaded together         *)
  Arms, Poses,
  Home,         (* the pose q_goal_ of MoveToStart                         *)
  Goals, Usable, Oriented,  (* messages; those with data[0], data[11] # 0  *)
  Period,       (* cycles between two messages of a broadcaster            *)
  FinalTime,    (* cycles MoveToStart needs for a way of any length        *)
  MaxLoans      (* bound: activations between two configurations           *)

Unset == "unset"
Zero == "zero"
Swing == "swing"
NoGoal == "no goal"

(* The classes                                                             *)
Classes == {"joint_position", "joint_velocity", "dual_joint_velocity",
            "gravity_compensation", "move_to_start", "joint_impedance_example",
            "multi_joint_impedance", "cartesian_impedance_example", "joint_impedance",
            "cartesian_impedance", "model_example", "model_broadcaster",
            "state_broadcaster", "mobile_base", "head"}

ASSUME ScenariosAssumption == \A s \in Scenarios : IsFiniteSet(s) /\ s \subseteq Classes
ASSUME ArmsAssumption == Arms # {} /\ Home \in Poses
ASSUME TimesAssumption == Period \in Nat \ {0} /\ FinalTime \in Nat \ {0} /\ MaxLoans \in Nat

Broadcasters == {"model_broadcaster", "state_broadcaster"}
Subscribers == {"joint_impedance", "cartesian_impedance", "mobile_base", "head"}
NotOfAnArm == {"mobile_base", "head"}

(* Those that set out from where the arm is when they are activated.       *)
SettingOut == {"joint_position", "move_to_start", "joint_impedance_example",
               "multi_joint_impedance", "cartesian_impedance_example",
               "joint_impedance", "cartesian_impedance"}

(* command_interface_configuration: the kind of commands and the arms.     *)
First == CHOOSE a \in Arms : TRUE
Claims(kind, arms) == [kind |-> kind, arms |-> arms]

joint_position_interfaces == Claims("position", {First})
joint_velocity_interfaces == Claims("velocity", {First})
dual_joint_velocity_interfaces == Claims("velocity", Arms)
gravity_compensation_interfaces == Claims("effort", {First})
move_to_start_interfaces == Claims("effort", {First})
joint_impedance_example_interfaces == Claims("effort", {First})
multi_joint_impedance_interfaces == Claims("effort", Arms)
cartesian_impedance_example_interfaces == Claims("effort", {First})
joint_impedance_interfaces == Claims("effort", {First})
cartesian_impedance_interfaces == Claims("effort", {First})
model_example_interfaces == Claims("none", {First})
model_broadcaster_interfaces == Claims("none", {First})
state_broadcaster_interfaces == Claims("none", {First})
mobile_base_interfaces == Claims("wheels", {First})
head_interfaces == Claims("neck", {First})

Interfaces(c) ==
  CASE c = "joint_position" -> joint_position_interfaces
    [] c = "joint_velocity" -> joint_velocity_interfaces
    [] c = "dual_joint_velocity" -> dual_joint_velocity_interfaces
    [] c = "gravity_compensation" -> gravity_compensation_interfaces
    [] c = "move_to_start" -> move_to_start_interfaces
    [] c = "joint_impedance_example" -> joint_impedance_example_interfaces
    [] c = "multi_joint_impedance" -> multi_joint_impedance_interfaces
    [] c = "cartesian_impedance_example" -> cartesian_impedance_example_interfaces
    [] c = "joint_impedance" -> joint_impedance_interfaces
    [] c = "cartesian_impedance" -> cartesian_impedance_interfaces
    [] c = "model_example" -> model_example_interfaces
    [] c = "model_broadcaster" -> model_broadcaster_interfaces
    [] c = "state_broadcaster" -> state_broadcaster_interfaces
    [] c = "mobile_base" -> mobile_base_interfaces
    [] c = "head" -> head_interfaces

ArmsOf(c) == Interfaces(c).arms
Compete(c, d) ==
  /\ c # d /\ Interfaces(c).kind = Interfaces(d).kind /\ Interfaces(c).kind # "none"
  /\ ArmsOf(c) \cap ArmsOf(d) # {}

MaxClock == FinalTime + 1
Later(n) == IF n < MaxClock THEN n + 1 ELSE n

VARIABLES
  loaded,      (* the controllers                                          *)
  mem,         (* their members                                            *)
  pose,        (* where the arms are                                       *)
  shown,       (* what their state interfaces show                         *)
  model,       (* the hardware has set the pointer to an arm's model       *)
  rt,          (* what the real-time thread does next                      *)
  request,     (* the switch it is to perform                              *)
  latched,     (* the first halves, in the middle of an update             *)
  command,     (* what was commanded since the activation                  *)
  listening,   (* the goal whose callback is running                       *)
  sent,        (* the goals that were sent to a controller                 *)
  publisher,   (* the threads of the realtime publishers                   *)
  fault,       (* a pointer that must not be followed has been             *)
  start, old   (* history: the pose at the activation, and the goals whose *)
               (* callbacks were over then                                 *)

arm == <<pose, shown, model>>
goals == <<listening, sent>>
history == <<start, old>>
vars == <<loaded, mem, arm, rt, request, latched, command, goals, publisher, fault,
          history>>

Values == Poses \cup Goals \cup {Unset, Zero, Swing}
Halves == [first : Values, rest : Values]
Both(v) == [first |-> v, rest |-> v]
Commands == [first : Values, rest : Values, t : 0..MaxClock]
NoCommand == [first |-> Unset, rest |-> Unset, t |-> 0]
NoRequest == [start |-> {}, stop |-> {}]
Lives == {"unconfigured", "inactive", "active"}

TypeOK ==
  /\ loaded \in Scenarios
  /\ mem \in [loaded -> [life : Lives, refs : Seq({"live", "dead"}), initialized : BOOLEAN,
                         robot_model : BOOLEAN, from : [Arms -> Halves],
                         clock : 0..MaxClock, news : 0..Period]]
  /\ \A c \in loaded : Len(mem[c].refs) <= MaxLoans
  /\ pose \in [Arms -> Poses] /\ shown \in [Arms -> Poses] /\ model \in [Arms -> BOOLEAN]
  /\ rt \in {"read", "update", "compute", "switch", "write"}
  /\ request \in [start : SUBSET loaded, stop : SUBSET loaded]
  /\ latched \in [loaded -> [Arms -> Values]]
  /\ command \in [loaded -> [Arms -> Commands]]
  /\ listening \in [loaded -> Goals \cup {NoGoal}] /\ sent \in [loaded -> SUBSET Goals]
  /\ publisher \in [loaded -> [turn : {"realtime", "waiting", "publishing"}, msg_ : Values]]
  /\ fault \in {"none", "dangling", "null"}
  /\ start \in [loaded -> [Arms -> Poses]] /\ old \in [loaded -> SUBSET Goals]

(* on_init, and the members as they are constructed.                       *)
NewMem(c) ==
  [life |-> "unconfigured", refs |-> <<>>, initialized |-> FALSE, robot_model |-> FALSE,
   from |-> [a \in Arms |-> Both(IF c \in NotOfAnArm THEN Zero ELSE Unset)],
   clock |-> 0, news |-> 0]

(* The arms that no loaded controller is of stand still.                   *)
Moved(from) ==
  {p \in [Arms -> Poses] : \A a \in Arms :
     p[a] = from[a] \/ \E c \in loaded : a \in ArmsOf(c)}

Init ==
  /\ loaded \in Scenarios
  /\ mem = [c \in loaded |-> NewMem(c)]
  /\ pose \in Moved([a \in Arms |-> Home]) /\ shown = pose /\ model = [a \in Arms |-> FALSE]
  /\ rt = "read" /\ request = NoRequest
  /\ latched = [c \in loaded |-> [a \in Arms |-> Unset]]
  /\ command = [c \in loaded |-> [a \in Arms |-> NoCommand]]
  /\ listening = [c \in loaded |-> NoGoal]
  /\ sent = [c \in loaded |-> {}]
  /\ publisher = [c \in loaded |-> [turn |-> "realtime", msg_ |-> Unset]] /\ fault = "none"
  /\ start = [c \in loaded |-> pose] /\ old = [c \in loaded |-> {}]

Active == {c \in loaded : mem[c].life = "active"}

-----------------------------------------------------------------------------
(* FrankaRobotModel and FrankaRobotState.  refs are the references to      *)
(* loaned interfaces, pair by pair; the loans die when the controller      *)
(* manager takes them back.                                                *)
FrankaRobotModel(m) == [m EXCEPT !.refs = <<>>, !.initialized = FALSE, !.robot_model = FALSE]

(* A wrong variant: the base class and on_activate both do it.             *)
AssignedTwice(m) == [m EXCEPT !.refs = @ \o <<"live", "live">>]
assign_loaned_state_interfaces(m) == [m EXCEPT !.refs = Append(@, "live")]
release_interfaces(m) == [m EXCEPT !.refs = <<>>]
TakenBack(m) == [m EXCEPT !.refs = [i \in DOMAIN @ |-> "dead"]]

(* It looks at the references from the front.                              *)
Dangles(m) == m.refs # <<>> /\ Head(m.refs) = "dead"

update_state_and_model(m) ==
  IF m.refs = <<>> THEN m ELSE [m EXCEPT !.robot_model = model[First]]

initialize(m) == [update_state_and_model(m) EXCEPT !.initialized = m.refs # <<>>]

(* The getters: getMassMatrix and the others.                              *)
Got(m) == IF m.initialized THEN m ELSE initialize(m)

FaultOfGetting(m) ==
  IF ~m.initialized /\ Dangles(m) THEN "dangling"
  ELSE IF ~Got(m).robot_model THEN "null" ELSE "none"

(* The broadcasters look the pointers up anew for every message, and copy  *)
(* what they find there.                                                   *)
FaultOfMessage(m) ==
  IF Dangles(m) THEN "dangling" ELSE IF ~model[First] THEN "null" ELSE "none"
get_values_as_message == shown[First]
model_as_message == shown[First]

-----------------------------------------------------------------------------
(* on_configure: complete tells whether the parameters are.  The model is  *)
(* made before the gains are looked at.                                    *)
Configured(m) == [m EXCEPT !.life = "inactive"]
IfComplete(m, complete) == IF complete THEN Configured(m) ELSE m

joint_impedance_example_on_configure(m, complete) ==
  IfComplete(FrankaRobotModel(m), complete)
joint_impedance_on_configure(m, complete) == IfComplete(FrankaRobotModel(m), complete)
move_to_start_on_configure(m, complete) == IfComplete(m, complete)
multi_joint_impedance_on_configure(m, complete) == IfComplete(m, complete)
cartesian_impedance_example_on_configure(m) == Configured(FrankaRobotModel(m))
cartesian_impedance_on_configure(m) == Configured(FrankaRobotModel(m))
model_example_on_configure(m) == Configured(FrankaRobotModel(m))
model_broadcaster_on_configure(m) == Configured([FrankaRobotModel(m) EXCEPT !.news = 0])
state_broadcaster_on_configure(m) == Configured([FrankaRobotModel(m) EXCEPT !.news = 0])

on_configure(c, m, complete) ==
  CASE c = "joint_impedance_example" -> joint_impedance_example_on_configure(m, complete)
    [] c = "joint_impedance" -> joint_impedance_on_configure(m, complete)
    [] c = "move_to_start" -> move_to_start_on_configure(m, complete)
    [] c = "multi_joint_impedance" -> multi_joint_impedance_on_configure(m, complete)
    [] c = "cartesian_impedance_example" -> cartesian_impedance_example_on_configure(m)
    [] c = "cartesian_impedance" -> cartesian_impedance_on_configure(m)
    [] c = "model_example" -> model_example_on_configure(m)
    [] c = "model_broadcaster" -> model_broadcaster_on_configure(m)
    [] c = "state_broadcaster" -> state_broadcaster_on_configure(m)
    [] OTHER -> Configured(m)

-----------------------------------------------------------------------------
(* on_activate, when the interfaces have been loaned.  Here is what        *)
(* updateJointStates reads from them, and what the model says of the state *)
(* behind them.                                                            *)
Here == [a \in Arms |-> Both(shown[a])]
SetOut(m) == [m EXCEPT !.from = Here, !.clock = 0]

(* A wrong variant: init_time_ is not reset.                               *)
SetOutLate(m) == [m EXCEPT !.from = Here]
joint_position_on_activate(m) == SetOut(m)
joint_velocity_on_activate(m) == [m EXCEPT !.clock = 0]
dual_joint_velocity_on_activate(m) == [m EXCEPT !.clock = 0]
move_to_start_on_activate(m) == SetOut(m)
multi_joint_impedance_on_activate(m) == SetOut(m)
joint_impedance_example_on_activate(m) == SetOut(assign_loaned_state_interfaces(m))

(* A wrong variant: the joints desired last are desired still.             *)
KeepDesired(m) == assign_loaned_state_interfaces(m)
joint_impedance_on_activate(m) == [assign_loaned_state_interfaces(m) EXCEPT !.from = Here]
cartesian_impedance_example_on_activate(m) == SetOut(Got(assign_loaned_state_interfaces(m)))
cartesian_impedance_on_activate(m) ==
  [Got(assign_loaned_state_interfaces(m)) EXCEPT !.from = Here]
model_example_on_activate(m) == assign_loaned_state_interfaces(m)
model_broadcaster_on_activate(m) == assign_loaned_state_interfaces(m)
state_broadcaster_on_activate(m) == assign_loaned_state_interfaces(m)

Activated(c, m) ==
  CASE c = "joint_position" -> joint_position_on_activate(m)
    [] c = "joint_velocity" -> joint_velocity_on_activate(m)
    [] c = "dual_joint_velocity" -> dual_joint_velocity_on_activate(m)
    [] c = "move_to_start" -> move_to_start_on_activate(m)
    [] c = "multi_joint_impedance" -> multi_joint_impedance_on_activate(m)
    [] c = "joint_impedance_example" -> joint_impedance_example_on_activate(m)
    [] c = "joint_impedance" -> joint_impedance_on_activate(m)
    [] c = "cartesian_impedance_example" -> cartesian_impedance_example_on_activate(m)
    [] c = "cartesian_impedance" -> cartesian_impedance_on_activate(m)
    [] c = "model_example" -> model_example_on_activate(m)
    [] c = "model_broadcaster" -> model_broadcaster_on_activate(m)
    [] c = "state_broadcaster" -> state_broadcaster_on_activate(m)
    [] OTHER -> m

(* Those of the Cartesian impedance controllers use the model at once.     *)
FaultOfActivating(c, m) ==
  IF c \in {"cartesian_impedance_example", "cartesian_impedance"}
  THEN FaultOfGetting(assign_loaned_state_interfaces(m)) ELSE "none"

(* A wrong variant: the broadcaster has no on_deactivate.                  *)
KeepReferences(m) == m
model_broadcaster_on_deactivate(m) == release_interfaces(m)
state_broadcaster_on_deactivate(m) == release_interfaces(m)
model_example_on_deactivate(m) == release_interfaces(m)
cartesian_impedance_example_on_deactivate(m) == release_interfaces(m)
cartesian_impedance_on_deactivate(m) == release_interfaces(m)

(* The joint impedance controllers do not release theirs.                  *)
Deactivated(c, m) ==
  CASE c = "model_broadcaster" -> model_broadcaster_on_deactivate(m)
    [] c = "state_broadcaster" -> state_broadcaster_on_deactivate(m)
    [] c = "model_example" -> model_example_on_deactivate(m)
    [] c = "cartesian_impedance_example" -> cartesian_impedance_example_on_deactivate(m)
    [] c = "cartesian_impedance" -> cartesian_impedance_on_deactivate(m)
    [] OTHER -> m

-----------------------------------------------------------------------------
(* update(): the members afterwards and what is commanded.  It reads what  *)
(* it pursues half by half; latched holds the first halves.                *)
Done(m, commanded) == [mem |-> m, command |-> commanded]
Ticked(m) == [m EXCEPT !.clock = Later(@)]
Give(c, m, first, rest) ==
  [a \in Arms |-> IF a \in ArmsOf(c) THEN [first |-> first, rest |-> rest, t |-> m.clock]
                  ELSE NoCommand]
Pursue(c, m) ==
  [a \in Arms |-> IF a \in ArmsOf(c)
                  THEN [first |-> latched[c][a], rest |-> m.from[a].rest, t |-> m.clock]
                  ELSE NoCommand]
Idle == [a \in Arms |-> NoCommand]

joint_position_update(c, m) == Done(Ticked(m), Pursue(c, Ticked(m)))

(* The joints 0 to 2 are not commanded.                                    *)
joint_velocity_update(c, m) == Done(Ticked(m), Give(c, Ticked(m), Unset, Swing))
dual_joint_velocity_update(c, m) == Done(Ticked(m), Give(c, Ticked(m), Zero, Swing))
gravity_compensation_update(c, m) == Done(m, Give(c, m, Zero, Zero))
multi_joint_impedance_update(c, m) == Done(Ticked(m), Pursue(c, Ticked(m)))
joint_impedance_example_update(c, m) ==
  LET n == Ticked(Got(m)) IN Done(n, Pursue(c, n))
joint_impedance_update(c, m) == Done(Got(m), Pursue(c, m))
cartesian_impedance_example_update(c, m) ==
  LET n == Ticked(Got(m)) IN Done(n, Pursue(c, n))
cartesian_impedance_update(c, m) == Done(Got(m), Pursue(c, m))
model_example_update(m) == Done(Got(m), Idle)

(* MotionGenerator: the joints that have a way to go arrive together, the  *)
(* others are finished from the start.                                     *)
calculateSynchronizedValues(from) == IF from = Home THEN 0 ELSE FinalTime
calculateDesiredValues(m) ==
  \A a \in ArmsOf("move_to_start") : \A from \in {m.from[a].first, m.from[a].rest} :
    m.clock >= calculateSynchronizedValues(from)

move_to_start_update(c, m) ==
  LET n == Ticked(m)
  IN  Done(n, IF calculateDesiredValues(n) THEN Give(c, n, Zero, Zero) ELSE Pursue(c, n))

mobile_base_update(c, m) == Done(m, Pursue(c, m))
head_update(c, m) == Done(m, Pursue(c, m))

(* The broadcasters only take the time of a message they could hand over.  *)
(* A wrong variant: whether the thread is done is not asked.               *)
WithoutLock(c) == mem[c].news = Period
Publishes(c) == mem[c].news = Period /\ publisher[c].turn = "realtime"
model_broadcaster_update(c, m) ==
  Done(IF Publishes(c) THEN [update_state_and_model(m) EXCEPT !.news = 0] ELSE m, Idle)
state_broadcaster_update(c, m) ==
  Done(IF Publishes(c) THEN [m EXCEPT !.news = 0] ELSE m, Idle)

Updated(c) ==
  LET m == mem[c]
  IN  CASE c = "joint_position" -> joint_position_update(c, m)
        [] c = "joint_velocity" -> joint_velocity_update(c, m)
        [] c = "dual_joint_velocity" -> dual_joint_velocity_update(c, m)
        [] c = "gravity_compensation" -> gravity_compensation_update(c, m)
        [] c = "multi_joint_impedance" -> multi_joint_impedance_update(c, m)
        [] c = "joint_impedance_example" -> joint_impedance_example_update(c, m)
        [] c = "joint_impedance" -> joint_impedance_update(c, m)
        [] c = "cartesian_impedance_example" -> cartesian_impedance_example_update(c, m)
        [] c = "cartesian_impedance" -> cartesian_impedance_update(c, m)
        [] c = "model_example" -> model_example_update(m)
        [] c = "move_to_start" -> move_to_start_update(c, m)
        [] c = "mobile_base" -> mobile_base_update(c, m)
        [] c = "head" -> head_update(c, m)
        [] c = "model_broadcaster" -> model_broadcaster_update(c, m)
        [] c = "state_broadcaster" -> state_broadcaster_update(c, m)

UseTheModel == {"joint_impedance_example", "joint_impedance", "model_example",
                "cartesian_impedance_example", "cartesian_impedance"}
FaultOfUpdate(c) ==
  IF c \in UseTheModel THEN FaultOfGetting(mem[c])
  ELSE IF c \in Broadcasters /\ Publishes(c) THEN FaultOfMessage(mem[c]) ELSE "none"

(* A wrong variant: unlock() in the place of unlockAndPublish().           *)
KeptBack(c) == [turn |-> "realtime", msg_ |-> model_as_message]
unlockAndPublish(c) ==
  [turn |-> "waiting",
   msg_ |-> IF c = "model_broadcaster" THEN model_as_message ELSE get_values_as_message]

FirstOf(faults) == IF faults \subseteq {"none"} THEN fault ELSE CHOOSE f \in faults : f # "none"

-----------------------------------------------------------------------------
(* The real-time thread: the hardware's read, the updates, the switch and  *)
(* the hardware's write, after which the arms move.                        *)
read ==
  /\ rt = "read" /\ rt' = "update"
  /\ shown' = pose /\ model' = [a \in Arms |-> TRUE]
  /\ mem' = [c \in loaded |-> IF mem[c].news = Period THEN mem[c]
                              ELSE [mem[c] EXCEPT !.news = IF c \in Broadcasters THEN @ + 1
                                                           ELSE @]]
  /\ UNCHANGED <<loaded, pose, request, latched, command, goals, publisher, fault, history>>

UpdateBegin ==
  /\ rt = "update" /\ rt' = "compute"
  /\ latched' = [c \in loaded |-> [a \in Arms |-> mem[c].from[a].first]]
  /\ UNCHANGED <<loaded, mem, arm, request, command, goals, publisher, fault, history>>

UpdateEnd ==
  /\ rt = "compute" /\ rt' = "switch"
  /\ mem' = [c \in loaded |-> IF c \in Active THEN Updated(c).mem ELSE mem[c]]
  /\ command' = [c \in loaded |-> IF c \in Active THEN Updated(c).command ELSE command[c]]
  /\ publisher' = [c \in loaded |-> IF c \in Active \cap Broadcasters /\ Publishes(c)
                                    THEN unlockAndPublish(c) ELSE publisher[c]]
  /\ fault' = FirstOf({FaultOfUpdate(c) : c \in Active})
  /\ latched' = [c \in loaded |-> [a \in Arms |-> Unset]]
  /\ UNCHANGED <<loaded, arm, request, goals, history>>

(* manage_switch: the controllers are deactivated and their loans taken    *)
(* back, then others, or the same, are activated.                          *)
Stopped(c) ==
  IF c \notin request.stop THEN mem[c]
  ELSE [TakenBack(Deactivated(c, mem[c])) EXCEPT !.life = "inactive"]

Switch ==
  /\ rt = "switch" /\ rt' = "write"
  /\ mem' = [c \in loaded |-> IF c \in request.start
                              THEN [Activated(c, Stopped(c)) EXCEPT !.life = "active"]
                              ELSE Stopped(c)]
  /\ fault' = FirstOf({FaultOfActivating(c, Stopped(c)) : c \in request.start})
  /\ command' = [c \in loaded |-> IF c \in request.start THEN Idle ELSE command[c]]
  /\ start' = [c \in loaded |-> IF c \in request.start THEN shown ELSE start[c]]
  /\ old' = [c \in loaded |-> IF c \in request.start THEN sent[c] \ {listening[c]}
                              ELSE old[c]]
  /\ request' = NoRequest
  /\ UNCHANGED <<loaded, arm, latched, goals, publisher>>

write ==
  /\ rt = "write" /\ rt' = "read"
  /\ pose' \in Moved(pose)
  /\ UNCHANGED <<loaded, mem, shown, model, request, latched, command, goals, publisher,
                 fault, history>>

(* The services of the controller manager, one at a time.                  *)
RequestSwitch(starting, stopping) ==
  /\ request = NoRequest /\ starting \cup stopping # {}
  /\ stopping \subseteq Active
  /\ starting \subseteq {c \in loaded : mem[c].life = "inactive"} \cup stopping
  /\ \A c \in starting : Len(mem[c].refs) < MaxLoans
  /\ \A c \in starting : \A d \in (Active \ stopping) \cup starting : ~Compete(c, d)
  /\ request' = [start |-> starting, stop |-> stopping]
  /\ UNCHANGED <<loaded, mem, arm, rt, latched, command, goals, publisher, fault, history>>

Configure(c, complete) ==
  /\ request = NoRequest /\ mem[c].life # "active"
  /\ mem' = [mem EXCEPT ![c] = on_configure(c, [@ EXCEPT !.life = "unconfigured"], complete)]
  /\ UNCHANGED <<loaded, arm, rt, request, latched, command, goals, publisher, fault, history>>

-----------------------------------------------------------------------------
(* The callbacks of the subscriptions.  Those of the arms' controllers are *)
(* made in on_init and look at the first number of a message; those of the *)
(* base and the head are made in on_configure.                             *)
Listens(c) == c \in Subscribers /\ (c \in NotOfAnArm => mem[c].life # "unconfigured")

SetFirst(c, g) == [mem EXCEPT ![c].from = [a \in Arms |-> [@[a] EXCEPT !.first = g]]]
SetRest(c, g) == [mem EXCEPT ![c].from = [a \in Arms |-> [@[a] EXCEPT !.rest = g]]]

desiredJointCallback(c, g) == c = "joint_impedance" /\ g \in Usable /\ mem' = SetFirst(c, g)
desiredCartesianCallback(c, g) ==
  c = "cartesian_impedance" /\ g \in Usable /\ mem' = SetFirst(c, g)
head_command_listener(c, g) == c = "head" /\ mem' = SetFirst(c, g)

(* The targets of the two wheels are set with a mutex held, but read one   *)
(* by one.                                                                 *)
set_velocity_target(c, g) ==
  /\ c = "mobile_base"
  /\ mem' = [mem EXCEPT ![c].from = [a \in Arms |-> Both(g)]]

CallbackBegin(c, g) ==
  /\ Listens(c) /\ listening[c] = NoGoal /\ g \notin sent[c]
  /\ \/ desiredJointCallback(c, g) /\ listening' = [listening EXCEPT ![c] = g]
     \/ desiredCartesianCallback(c, g) /\ listening' = [listening EXCEPT ![c] = g]
     \/ head_command_listener(c, g) /\ listening' = [listening EXCEPT ![c] = g]
     \/ set_velocity_target(c, g) /\ UNCHANGED listening
     \/ c \in {"joint_impedance", "cartesian_impedance"} /\ g \notin Usable
        /\ UNCHANGED <<mem, listening>>
  /\ sent' = [sent EXCEPT ![c] = @ \cup {g}]
  /\ UNCHANGED <<loaded, arm, rt, request, latched, command, publisher, fault, history>>

CallbackEnd(c) ==
  /\ listening[c] # NoGoal
  /\ mem' = IF c = "cartesian_impedance" /\ listening[c] \notin Oriented THEN mem
            ELSE SetRest(c, listening[c])
  /\ listening' = [listening EXCEPT ![c] = NoGoal]
  /\ UNCHANGED <<loaded, arm, rt, request, latched, command, sent, publisher, fault, history>>

(* The thread of a realtime publisher: it takes the message with the lock  *)
(* held and gives the turn back.                                           *)
PublisherTakes(c) ==
  /\ publisher[c].turn = "waiting"
  /\ publisher' = [publisher EXCEPT ![c].turn = "publishing"]
  /\ UNCHANGED <<loaded, mem, arm, rt, request, latched, command, goals, fault, history>>

PublisherReturns(c) ==
  /\ publisher[c].turn = "publishing"
  /\ publisher' = [publisher EXCEPT ![c].turn = "realtime"]
  /\ UNCHANGED <<loaded, mem, arm, rt, request, latched, command, goals, fault, history>>

RealTime == read \/ UpdateBegin \/ UpdateEnd \/ Switch \/ write

Next ==
  \/ RealTime
  \/ \E starting, stopping \in SUBSET loaded : RequestSwitch(starting, stopping)
  \/ \E c \in loaded : \/ \E complete \in BOOLEAN : Configure(c, complete)
                       \/ \E g \in Goals : CallbackBegin(c, g)
                       \/ CallbackEnd(c) \/ PublisherTakes(c) \/ PublisherReturns(c)

Publishing(c) == c \in loaded /\ (PublisherTakes(c) \/ PublisherReturns(c))

Spec == Init /\ [][Next]_vars

(* The real-time loop and the publishers' threads go on.                   *)
FairSpec ==
  Spec /\ WF_vars(RealTime) /\ \A c \in Broadcasters : WF_vars(Publishing(c))

-----------------------------------------------------------------------------
(* Properties                                                              *)

(* No controller ever follows a pointer through a loan that was taken back *)
(* or before the hardware has set it, although the joint impedance         *)
(* controllers keep their references when they are deactivated.            *)
PointersAreGood == fault = "none"

(* What a controller that sets out from its arm's pose commands after its  *)
(* activation is made of that pose and of goals that were not over before: *)
(* no goal from an earlier time moves the arm when it is activated, though *)
(* callbacks run in every state of the controller and halfway beside it.   *)
PursuesOnlyNew ==
  \A c \in Active \cap SettingOut : \A a \in ArmsOf(c) :
    {command[c][a].first, command[c][a].rest}
      \subseteq {start[c][a], Unset, Zero} \cup (Goals \ old[c])

(* The first command after an activation belongs to the first cycle of the *)
(* motion, however far the motion before had come.                         *)
StartsSoftly ==
  [][ \A c \in Active : \A a \in ArmsOf(c) :
        command[c][a] = NoCommand /\ command'[c][a] # NoCommand =>
          command'[c][a].t <= 1 ]_vars

(* While a publisher's thread copies a message, update() does not touch it.*)
MessagesKeepStill ==
  [][ \A c \in loaded : publisher[c].turn = "publishing" =>
        publisher'[c].msg_ = publisher[c].msg_ ]_vars

(* An active broadcaster publishes again and again.                        *)
Broadcasts ==
  \A s \in Scenarios : \A c \in s \cap Broadcasters :
    []<>(c \notin loaded \/ c \notin Active \/ publisher[c].turn = "publishing")

(* MoveToStart comes to its end, unless it is stopped or started anew.     *)
Moving == "move_to_start" \in Active
AtHome == \A a \in ArmsOf("move_to_start") : command["move_to_start"][a].first = Zero
Arrives == []<>(~Moving \/ AtHome \/ "move_to_start" \in request.stop)

(* So every motion begins at its beginning and gets to its end.            *)
MotionsAreWhole == StartsSoftly /\ Arrives

=============================================================================
