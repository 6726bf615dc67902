----------------------------- MODULE MjHardware -----------------------------
(***************************************************************************)
(* FrankaMjHardwareSystem: the arms of a MuJoCo scene behind one hardware  *)
(* component.  Every arm has three groups of actuators, for torques,       *)
(* positions and velocities, and at most one of them is to be on.  A       *)
(* switch of controllers is prepared on a service thread, arm by arm,      *)
(* while the real-time thread reads, lets the controllers compute,         *)
(* performs the switch and writes, arm by arm too.                         *)
(*                                                                         *)
(* A list of interfaces is the set of controllers that claim it.  A value  *)
(* is reduced to who computed it in this cycle, if anybody did, and to     *)
(* whether it is finite.  A scene is reduced to kinds of elements.         *)
(***************************************************************************)
EXTENDS ControlMode, Naturals, Sequences, SequencesExt

CONSTANTS
  Order,        (* the arms, in the order of the map arms_                 *)
  Grippers,     (* those with a gripper                                    *)
  Controllers,  (* the ros2_control controllers                            *)
  Claim,        (* and what they claim: arms, kind, all seven joints       *)
  Unstable,     (* those that may compute something that is not finite     *)
  Scenes        (* the scenes that may be loaded                           *)

Arms == ToSet(Order)
Kinds == {"effort", "position", "velocity"}
Elements == {"links", "sites", "joints", "actuators", "fingers"}
Nobody == "nobody"

ASSUME OrderAssumption ==
  /\ Order \in Seq(Arms) /\ Order # <<>>
  /\ \A i, j \in DOMAIN Order : Order[i] = Order[j] => i = j
ASSUME ClaimAssumption ==
  /\ Claim \in [Controllers -> [arms : SUBSET Arms, kind : Kinds, complete : BOOLEAN]]
  /\ Nobody \notin Controllers /\ Unstable \subseteq Controllers
ASSUME ScenesAssumption ==
  Scenes \subseteq [Arms -> SUBSET Elements] /\ Grippers \subseteq Arms

VARIABLES
  scene,          (* the elements of each arm in the scene                 *)
  sim,            (* the result of initSim                                 *)
  control_mode_, switch_cm_,
  hw_commands,    (* the arrays hw_commands_joint_*                        *)
  gain,           (* the groups of actuators that are on                   *)
  ctrl,           (* mjData::ctrl of each group                            *)
  prepare,        (* how far the service thread is                         *)
  request,        (* the prepared switch that is to be performed           *)
  claimed,        (* the active controllers                                *)
  computed,       (* those updated in this cycle since they were activated *)
  rt,             (* what the real-time thread does next, to which arm     *)
  spoiled         (* arms changed by a refused request or by the lifecycle *)

arms_ == <<control_mode_, switch_cm_, hw_commands>>
mujoco == <<gain, ctrl>>
manager == <<prepare, request, claimed, computed>>
vars == <<scene, sim, arms_, mujoco, manager, rt, spoiled>>

ModeOf(kind) ==
  CASE kind = "effort" -> "JointTorque" [] kind = "position" -> "JointPosition"
    [] kind = "velocity" -> "JointVelocity"

(* The actuators and the commands a mode uses.                             *)
Kind(mode) ==
  CASE mode = "JointTorque" -> "effort" [] mode = "JointPosition" -> "position"
    [] mode = "JointVelocity" -> "velocity"
Group(mode) == IF mode = None THEN {} ELSE {Kind(mode)}

Values == [by : Controllers \cup {Nobody}, finite : BOOLEAN]
Zero == [by |-> Nobody, finite |-> TRUE]
NoRequest == [start |-> {}, stop |-> {}]
Lists == [start : SUBSET Controllers, stop : SUBSET Controllers]
NotPreparing == [pass |-> "none", i |-> 1, at |-> "check", list |-> NoRequest]

TypeOK ==
  /\ scene \in Scenes /\ sim \in {"loading", "ready", "refused"}
  /\ control_mode_ \in [Arms -> JointModes \cup {None}]
  /\ switch_cm_ \in [Arms -> BOOLEAN]
  /\ hw_commands \in [Arms -> [Kinds -> Values]]
  /\ gain \in [Arms -> SUBSET Kinds] /\ ctrl \in [Arms -> [Kinds -> Values]]
  /\ prepare \in [pass : {"none", "stop", "start"}, i : 1..Len(Order),
                  at : {"check", "mode", "flag"}, list : Lists]
  /\ request \in Lists
  /\ claimed \subseteq Controllers /\ computed \subseteq Controllers
  /\ rt \in [do : {"read", "update", "switch", "write"}, i : 1..Len(Order)]
  /\ spoiled \subseteq Arms

Cycle(do) == [do |-> do, i |-> 1]

(* The gains of the actuators are what the scene file says.                *)
Init ==
  /\ scene \in Scenes /\ sim = "loading"
  /\ control_mode_ = [a \in Arms |-> None] /\ switch_cm_ = [a \in Arms |-> FALSE]
  /\ hw_commands = [a \in Arms |-> [k \in Kinds |-> Zero]] /\ ctrl = hw_commands
  /\ gain = [a \in Arms |-> Kinds]
  /\ prepare = NotPreparing /\ request = NoRequest
  /\ claimed = {} /\ computed = {} /\ rt = Cycle("read") /\ spoiled = {}

-----------------------------------------------------------------------------
(* initSim: the arms are looked up in the scene one after the other, and   *)
(* the actuators of those that are found are turned off.                   *)
Required(a) == Elements \ (IF a \in Grippers THEN {} ELSE {"fingers"})
populateIndices(a) == Required(a) \subseteq scene[a]

UpTo(a) == {Order[i] : i \in {j \in DOMAIN Order : \E k \in DOMAIN Order :
                                                     Order[k] = a /\ j <= k}}

initSim ==
  /\ sim = "loading"
  /\ sim' = IF \A a \in Arms : populateIndices(a) THEN "ready" ELSE "refused"
  /\ gain' = [a \in Arms |-> IF \A b \in UpTo(a) : populateIndices(b) THEN {}
                             ELSE gain[a]]
  /\ UNCHANGED <<scene, arms_, ctrl, manager, rt, spoiled>>

-----------------------------------------------------------------------------
(* The service thread: prepare_command_mode_switch.  It sees which         *)
(* interfaces of a list are of arm a by the prefix of their names, but     *)
(* looks for their kind in the whole list.                                 *)
Concerns(list, a) == \E c \in list : a \in Claim[c].arms
OneKind(list) == \E k \in Kinds : \A c \in list : Claim[c].kind = k
SevenJoints(list, a) == \A c \in list : a \in Claim[c].arms => Claim[c].complete
KindOf(list) == CHOOSE k \in Kinds : \A c \in list : Claim[c].kind = k

Valid(list, a) == OneKind(list) /\ SevenJoints(list, a)

(* A wrong variant: control_mode_ is not looked at.                        *)
StartAnyway(list, a) == Valid(list, a)
StartValid(list, a) == Valid(list, a) /\ control_mode_[a] = None

(* Efforts and velocities are zeroed, "position command is not reset,      *)
(* since that can be dangerous".                                           *)
Zeroed(list, a) ==
  [hw_commands EXCEPT ![a][KindOf(list)] =
     IF KindOf(list) = "position" THEN @ ELSE Zero]

(* The controller manager has checked that what is stopped is active and   *)
(* that no interface is claimed twice.                                     *)
Asked(start, stop) ==
  /\ stop \subseteq claimed /\ start \cap claimed \subseteq stop
  /\ start \cup stop # {}
  /\ \A c \in start : \A d \in (claimed \ stop) \cup start :
       c # d /\ Claim[c].kind = Claim[d].kind => Claim[c].arms \cap Claim[d].arms = {}

SwitchController(start, stop) ==
  /\ sim = "ready" /\ prepare.pass = "none" /\ request = NoRequest
  /\ Asked(start, stop)
  /\ prepare' = [pass |-> "stop", i |-> 1, at |-> "check",
                 list |-> [start |-> start, stop |-> stop]]
  /\ UNCHANGED <<scene, sim, arms_, mujoco, request, claimed, computed, rt, spoiled>>

(* The arm a pass is at, and the steps it takes there.                     *)
Here == Order[prepare.i]
At(pass, step) == prepare.pass = pass /\ prepare.at = step
Goto(step) == prepare' = [prepare EXCEPT !.at = step] /\ UNCHANGED <<request, spoiled>>

(* A wrong variant: the end of the arms is noticed one arm too late.       *)
NextArmPast ==
  /\ IF prepare.i <= Len(Order)
     THEN prepare' = [prepare EXCEPT !.i = @ + 1, !.at = "check"] /\ UNCHANGED request
     ELSE IF prepare.pass = "stop"
     THEN prepare' = [prepare EXCEPT !.i = 1, !.at = "check", !.pass = "start"]
          /\ UNCHANGED request
     ELSE prepare' = NotPreparing /\ request' = prepare.list
  /\ UNCHANGED spoiled

(* On to the next arm, then from the stop to the start pass, then done.    *)
NextArm ==
  /\ IF prepare.i < Len(Order)
     THEN prepare' = [prepare EXCEPT !.i = @ + 1, !.at = "check"] /\ UNCHANGED request
     ELSE IF prepare.pass = "stop"
     THEN prepare' = [prepare EXCEPT !.i = 1, !.at = "check", !.pass = "start"]
          /\ UNCHANGED request
     ELSE prepare' = NotPreparing /\ request' = prepare.list
  /\ UNCHANGED spoiled

(* ERROR: the manager forgets the request, the arms before keep what has   *)
(* been changed.                                                           *)
Refuse ==
  /\ prepare' = NotPreparing /\ UNCHANGED request
  /\ spoiled' = spoiled \cup {a \in Arms : switch_cm_[a]}

StopArm ==
  LET stop == prepare.list.stop
  IN  /\ At("stop", "check")
      /\ \/ ~Concerns(stop, Here) /\ NextArm /\ UNCHANGED hw_commands
         \/ /\ Concerns(stop, Here) /\ Valid(stop, Here)
            /\ hw_commands' = Zeroed(stop, Here) /\ Goto("mode")
         \/ Concerns(stop, Here) /\ ~Valid(stop, Here) /\ Refuse /\ UNCHANGED hw_commands
      /\ UNCHANGED <<scene, sim, control_mode_, switch_cm_, mujoco, claimed, computed, rt>>

StartArm ==
  LET start == prepare.list.start
  IN  /\ At("start", "check")
      /\ \/ ~Concerns(start, Here) /\ NextArm
         \/ Concerns(start, Here) /\ StartValid(start, Here) /\ Goto("mode")
         \/ Concerns(start, Here) /\ ~StartValid(start, Here) /\ Refuse
      /\ UNCHANGED <<scene, sim, arms_, mujoco, claimed, computed, rt>>

(* The mode, and then the mark for the switch.                             *)
SetMode ==
  /\ prepare.pass # "none" /\ prepare.at = "mode"
  /\ control_mode_' = [control_mode_ EXCEPT ![Here] =
       IF prepare.pass = "stop" THEN None ELSE ModeOf(KindOf(prepare.list.start))]
  /\ Goto("flag")
  /\ UNCHANGED <<scene, sim, switch_cm_, hw_commands, mujoco, claimed, computed, rt>>

SetFlag ==
  /\ prepare.pass # "none" /\ prepare.at = "flag"
  /\ switch_cm_' = [switch_cm_ EXCEPT ![Here] = TRUE]
  /\ NextArm
  /\ UNCHANGED <<scene, sim, control_mode_, hw_commands, mujoco, claimed, computed, rt>>

(* on_activate and on_deactivate take the modes away and leave the         *)
(* actuators on.                                                           *)
on_activate ==
  /\ sim = "ready" /\ prepare.pass = "none"
  /\ hw_commands' = [a \in Arms |-> [hw_commands[a] EXCEPT !["effort"] = Zero]]
  /\ control_mode_' = [a \in Arms |-> None]
  /\ spoiled' = spoiled \cup {a \in Arms : control_mode_[a] # None}
  /\ UNCHANGED <<scene, sim, switch_cm_, mujoco, manager, rt>>

on_deactivate ==
  /\ sim = "ready" /\ prepare.pass = "none"
  /\ control_mode_' = [a \in Arms |-> None]
  /\ spoiled' = spoiled \cup {a \in Arms : control_mode_[a] # None}
  /\ UNCHANGED <<scene, sim, switch_cm_, hw_commands, mujoco, manager, rt>>

-----------------------------------------------------------------------------
(* The real-time thread                                                    *)
Aged(values) == [a \in Arms |-> [k \in Kinds |-> [values[a][k] EXCEPT !.by = Nobody]]]

(* read() fills the states: a cycle begins.                                *)
read ==
  /\ sim = "ready" /\ rt.do = "read" /\ rt' = Cycle("update")
  /\ hw_commands' = Aged(hw_commands) /\ ctrl' = Aged(ctrl) /\ computed' = {}
  /\ UNCHANGED <<scene, sim, control_mode_, switch_cm_, gain, prepare, request,
                 claimed, spoiled>>

(* Every active controller writes its commands through the exported        *)
(* pointers into the arm containers.                                       *)
Authors(a, k) == {c \in claimed : a \in Claim[c].arms /\ Claim[c].kind = k}

Update(wild) ==
  /\ rt.do = "update" /\ rt' = Cycle("switch")
  /\ hw_commands' = [a \in Arms |-> [k \in Kinds |->
       IF Authors(a, k) = {} THEN hw_commands[a][k]
       ELSE LET c == CHOOSE c \in Authors(a, k) : TRUE
            IN  [by |-> c, finite |-> c \notin wild]]]
  /\ computed' = claimed
  /\ UNCHANGED <<scene, sim, control_mode_, switch_cm_, mujoco, prepare, request,
                 claimed, spoiled>>

(* A wrong variant: the actuators of the mode are turned on, and those of  *)
(* the other modes only when the arm is to have none.                      *)
AddedGroup(a) == IF control_mode_[a] = None THEN {} ELSE gain[a] \cup Group(control_mode_[a])

(* perform_command_mode_switch, at the end of the manager's update().      *)
SwitchedGroup(a) == Group(control_mode_[a])

Perform ==
  /\ rt.do = "switch" /\ rt' = Cycle("write") /\ request # NoRequest
  /\ gain' = [a \in Arms |-> IF switch_cm_[a] THEN SwitchedGroup(a) ELSE gain[a]]
  /\ switch_cm_' = [a \in Arms |-> FALSE]
  /\ claimed' = (claimed \ request.stop) \cup request.start
  /\ computed' = computed \ request.stop /\ request' = NoRequest
  /\ UNCHANGED <<scene, sim, control_mode_, hw_commands, ctrl, prepare, spoiled>>

NoSwitch ==
  /\ rt.do = "switch" /\ rt' = Cycle("write") /\ request = NoRequest
  /\ UNCHANGED <<scene, sim, arms_, mujoco, manager, spoiled>>

FiniteArm(a) == \A k \in Kinds : hw_commands[a][k].finite

(* A wrong variant: the positions are not written.                         *)
NotThePositions(a) ==
  IF control_mode_[a] \in {None, "JointPosition"} THEN ctrl[a]
  ELSE [ctrl[a] EXCEPT ![Kind(control_mode_[a])] = hw_commands[a][Kind(control_mode_[a])]]

(* write() hands the commands of the mode to its actuators.                *)
WrittenTo(a) ==
  IF control_mode_[a] = None THEN ctrl[a]
  ELSE [ctrl[a] EXCEPT ![Kind(control_mode_[a])] = hw_commands[a][Kind(control_mode_[a])]]

(* It returns at the first arm with a command that is not finite.          *)
WriteArm ==
  LET a == Order[rt.i]
  IN  /\ rt.do = "write"
      /\ \/ FiniteArm(a) /\ ctrl' = [ctrl EXCEPT ![a] = WrittenTo(a)]
            /\ rt' = IF rt.i < Len(Order) THEN [rt EXCEPT !.i = @ + 1] ELSE Cycle("read")
         \/ ~FiniteArm(a) /\ UNCHANGED ctrl /\ rt' = Cycle("read")
      /\ UNCHANGED <<scene, sim, arms_, gain, manager, spoiled>>

Next ==
  \/ initSim \/ on_activate \/ on_deactivate
  \/ \E start, stop \in SUBSET Controllers : SwitchController(start, stop)
  \/ StopArm \/ StartArm \/ SetMode \/ SetFlag
  \/ read \/ Perform \/ NoSwitch \/ WriteArm
  \/ \E wild \in SUBSET Unstable : Update(wild)

Spec == Init /\ [][Next]_vars

-----------------------------------------------------------------------------
(* Properties                                                              *)

(* An arm that is marked for the switch, or that a pass is changing.       *)
InHand == IF prepare.at = "check" THEN {} ELSE {Here}
Touched(a) == switch_cm_[a] \/ a \in InHand

(* Whatever is asked for, refused, activated or deactivated: an arm is     *)
(* never driven by two groups of actuators, and in a mode whose switch has *)
(* been performed it is driven by the group of that mode.                  *)
OneGroup ==
  sim = "ready" =>
    \A a \in Arms : /\ \A j, k \in gain[a] : j = k
                    /\ ~Touched(a) /\ control_mode_[a] # None =>
                         gain[a] = Group(control_mode_[a])

(* Between switches, an arm that no refused request and no lifecycle       *)
(* transition has touched is driven as the active controller that claims   *)
(* it needs, and not at all if none does.                                  *)
Settled == sim = "ready" /\ prepare.pass = "none" /\ request = NoRequest
ActuatorsMatchClaims ==
  Settled =>
    \A a \in Arms \ spoiled :
      LET claims == {c \in claimed : a \in Claim[c].arms}
      IN  gain[a] = {Claim[c].kind : c \in claims}

(* What an active controller has computed in a cycle is what the actuators *)
(* of its arm get in that cycle, although the service thread may be        *)
(* preparing a switch, wherever it is, unless it has come to this arm.     *)
CommandsReachActuators ==
  [][ \A c \in claimed \cap computed : \A a \in Claim[c].arms \ spoiled :
        rt.do = "write" /\ Order[rt.i] = a /\ ~Touched(a) /\ FiniteArm(a)
        /\ rt' # rt =>
          ctrl'[a][Claim[c].kind] = [by |-> c, finite |-> TRUE] ]_vars

(* No actuator is ever given a value that is not finite.                   *)
OnlyFinite == \A a \in Arms : \A k \in Kinds : ctrl[a][k].finite

=============================================================================
