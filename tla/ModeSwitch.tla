------------------------------ MODULE ModeSwitch ------------------------------
(***************************************************************************)
(* FrankaMultiHardwareInterface: several arms behind one hardware          *)
(* component.  The controller manager asks it, on a service thread, to     *)
(* prepare a switch of controllers, performs the switch on the real-time   *)
(* thread, and in every cycle lets it read the arms, lets the controllers  *)
(* compute, and lets it write the commands to the arms.  The two threads   *)
(* share the containers of the arms without a lock.                        *)
(*                                                                         *)
(* A list of interfaces is the set of controllers that claim it; a command *)
(* is reduced to who computed it in this cycle, or nobody.  Robot is reduced to its running loop,   *)
(* its error flag and the commands it holds (FrankaRobot has the detail).  *)
(***************************************************************************)
EXTENDS ControlMode, Naturals, Sequences, SequencesExt

CONSTANTS
  Order,        (* the arms, in the order of the map arms_                 *)
  NameIn,       (* whose interface names contain the name of an arm        *)
  Controllers,  (* the ros2_control controllers                            *)
  Claim,        (* and what they claim: arms, space, what, complete        *)
  Faulty        (* the arms that may fault                                 *)

Arms == ToSet(Order)
Spaces == {"joint", "cartesian"}
Whats == {"effort", "position", "velocity"}

ASSUME OrderAssumption ==
  /\ Order \in Seq(Arms) /\ Order # <<>>
  /\ \A i, j \in DOMAIN Order : Order[i] = Order[j] => i = j
ASSUME NameInAssumption ==
  NameIn \in [Arms -> SUBSET Arms] /\ \A a \in Arms : a \in NameIn[a]
ASSUME ClaimAssumption ==
  /\ Claim \in [Controllers -> [arms : SUBSET Arms, space : Spaces,
                                what : Whats, complete : BOOLEAN]]
  /\ \A c \in Controllers :
       Claim[c].space = "cartesian" => Claim[c].what # "effort"
ASSUME FaultyAssumption == Faulty \subseteq Arms

VARIABLES
  control_mode_, switch_cm_,
  hw,           (* hw_commands_*: the commands of each arm                 *)
  running,      (* the loop of each Robot                                  *)
  has_error,
  cmd,          (* the commands each Robot holds for its loop              *)
  restarted,    (* arms whose loop was chosen by the recovery service      *)
  active,       (* the hardware component is active                        *)
  claimed,      (* the active controllers                                  *)
  computed,     (* those that were updated in this cycle                   *)
  prepare,      (* how far the service thread is                           *)
  request,      (* the prepared switch that is to be performed             *)
  rt,           (* what the real-time cycle does next                      *)
  spoiled       (* arms changed by a refused request                       *)

robots == <<running, has_error, cmd, restarted>>
arms_ == <<control_mode_, switch_cm_, hw>>
manager == <<claimed, computed, prepare, request>>
vars == <<arms_, robots, active, manager, rt, spoiled>>

Stopped == "stopped"
Nobody == "nobody"
NoRequest == [start |-> {}, stop |-> {}]
Lists == [start : SUBSET Controllers, stop : SUBSET Controllers]
NotPreparing == [pass |-> "none", i |-> 1, at |-> "check", list |-> NoRequest]

Mode(space, what) ==
  IF space = "joint"
  THEN CASE what = "effort" -> "JointTorque" [] what = "position" -> "JointPosition"
         [] what = "velocity" -> "JointVelocity"
  ELSE CASE what = "position" -> "CartesianPose" [] OTHER -> "CartesianVelocity"
ModeOf(c) == Mode(Claim[c].space, Claim[c].what)
Modes == {ModeOf(c) : c \in Controllers}
Commands == [Modes -> Controllers \cup {Nobody}]

TypeOK ==
  /\ control_mode_ \in [Arms -> Modes \cup {None}] /\ switch_cm_ \in [Arms -> BOOLEAN]
  /\ hw \in [Arms -> Commands] /\ cmd \in [Arms -> Commands]
  /\ running \in [Arms -> Modes \cup {None, Stopped}]
  /\ has_error \in [Arms -> BOOLEAN]
  /\ restarted \subseteq Arms
  /\ claimed \subseteq Controllers /\ computed \subseteq Controllers
  /\ active \in BOOLEAN
  /\ prepare \in [pass : {"none", "stop", "start"}, i : 1..Len(Order),
                  at : {"check", "mode", "flag"}, list : Lists]
  /\ request \in Lists /\ spoiled \subseteq Arms
  /\ rt \in {"read", "update", "switch", "write"}

(* on_init                                                                 *)
Init ==
  /\ control_mode_ = [a \in Arms |-> None]
  /\ switch_cm_ = [a \in Arms |-> FALSE]
  /\ hw = [a \in Arms |-> [m \in Modes |-> Nobody]] /\ cmd = hw
  /\ running = [a \in Arms |-> Stopped] /\ has_error = [a \in Arms |-> FALSE]
  /\ restarted = {} /\ active = FALSE /\ claimed = {} /\ computed = {}
  /\ prepare = NotPreparing /\ request = NoRequest /\ rt = "read" /\ spoiled = {}

-----------------------------------------------------------------------------
(* The service thread: prepare_command_mode_switch                         *)

(* The interfaces of the list that are taken for those of arm a, as pairs  *)
(* of a controller and an arm it claims.                                   *)
Matching(a, list) ==
  {p \in list \X Arms : p[2] \in Claim[p[1]].arms /\ p[2] \in NameIn[a]}

Spaced(a, list) == {Claim[p[1]].space : p \in Matching(a, list)}

(* Of is_effort, is_position and is_velocity exactly one is true; they     *)
(* look at the whole list, whatever the arm.                               *)
OneKind(list) == \E w \in Whats : \A c \in list : Claim[c].what = w

(* The list is as long as one complete claim of an arm: 7, 16 or 6.  (That *)
(* two partial claims happen to add up to this is left out.)               *)
OneClaim(pairs) == \E p \in pairs : pairs = {p} /\ Claim[p[1]].complete

(* In the stop pass a Cartesian list is measured with all arms together.   *)
StopValid(a, stop) ==
  \/ Spaced(a, stop) = {}
  \/ /\ Spaced(a, stop) = {"joint"}
     /\ OneKind(stop) /\ OneClaim(Matching(a, stop))
  \/ /\ Spaced(a, stop) = {"cartesian"}
     /\ OneKind(stop) /\ OneClaim(UNION {Matching(b, stop) : b \in Arms})

(* A wrong variant: control_mode_ is not looked at.                        *)
AnyMode(a, start) ==
  /\ \E s \in Spaces : Spaced(a, start) = {s}
  /\ OneKind(start) /\ OneClaim(Matching(a, start))

StartValid(a, start) ==
  /\ \E s \in Spaces : Spaced(a, start) = {s}
  /\ OneKind(start) /\ OneClaim(Matching(a, start))
  /\ control_mode_[a] = None

(* The mode the start list asks of arm a.                                  *)
Starting(a, start) == CHOOSE c \in start : \E b \in Arms : <<c, b>> \in Matching(a, start)
(* A wrong variant: joint interfaces end up in the Cartesian case.         *)
AlwaysCartesian(a, start) == Mode("cartesian", Claim[Starting(a, start)].what)
StartMode(a, start) == ModeOf(Starting(a, start))

(* Stopping resets efforts and velocities, never a position, "since that   *)
(* can be dangerous".                                                      *)
ResetBy(a, stop) ==
  {m \in Modes : \E p \in Matching(a, stop) :
     m = ModeOf(p[1]) /\ Claim[p[1]].what # "position"}
(* A wrong variant: the commands of all arms are reset.                    *)
ResetEverywhere(a, stop) ==
  [b \in Arms |-> [m \in Modes |-> IF m \in ResetBy(a, stop) THEN Nobody ELSE hw[b][m]]]
Reset(a, stop) ==
  [hw EXCEPT ![a] = [m \in Modes |-> IF m \in ResetBy(a, stop) THEN Nobody ELSE @[m]]]

(* The controller manager has checked that what is stopped is active and   *)
(* that no interface is claimed twice.                                     *)
Asked(start, stop) ==
  /\ stop \subseteq claimed /\ start \cap claimed \subseteq stop
  /\ start \cup stop # {}
  /\ \A c \in start : \A d \in (claimed \ stop) \cup start :
       c # d /\ ModeOf(c) = ModeOf(d) => Claim[c].arms \cap Claim[d].arms = {}

SwitchController(start, stop) ==
  /\ active /\ prepare.pass = "none" /\ request = NoRequest /\ Asked(start, stop)
  /\ prepare' = [pass |-> "stop", i |-> 1, at |-> "check",
                 list |-> [start |-> start, stop |-> stop]]
  /\ UNCHANGED <<arms_, robots, active, claimed, computed, request, rt, spoiled>>

(* The arm a pass is at, and the steps it takes there; then on to the next *)
(* arm, from the stop to the start pass, and done.                         *)
Here == Order[prepare.i]
At(pass, step) == prepare.pass = pass /\ prepare.at = step
Goto(step) == prepare' = [prepare EXCEPT !.at = step] /\ UNCHANGED <<request, spoiled>>

NextArm ==
  /\ IF prepare.i < Len(Order)
     THEN prepare' = [prepare EXCEPT !.i = @ + 1, !.at = "check"] /\ UNCHANGED request
     ELSE IF prepare.pass = "stop"
     THEN prepare' = [prepare EXCEPT !.i = 1, !.at = "check", !.pass = "start"]
          /\ UNCHANGED request
     ELSE prepare' = NotPreparing /\ request' = prepare.list
  /\ UNCHANGED spoiled

(* ERROR: the manager forgets the request, the arms before keep what has   *)
(* been changed.                                                           *)
Refuse ==
  /\ prepare' = NotPreparing /\ UNCHANGED request
  /\ spoiled' = spoiled \cup {a \in Arms : switch_cm_[a]}

StopArm ==
  LET stop == prepare.list.stop
  IN  /\ At("stop", "check")
      /\ \/ Spaced(Here, stop) = {} /\ NextArm /\ UNCHANGED hw
         \/ /\ Spaced(Here, stop) # {} /\ StopValid(Here, stop)
            /\ hw' = Reset(Here, stop) /\ Goto("mode")
         \/ ~StopValid(Here, stop) /\ Refuse /\ UNCHANGED hw
      /\ UNCHANGED <<control_mode_, switch_cm_, robots, active, claimed, computed, rt>>

StartArm ==
  LET start == prepare.list.start
  IN  /\ At("start", "check")
      /\ \/ Spaced(Here, start) = {} /\ NextArm
         \/ Spaced(Here, start) # {} /\ StartValid(Here, start) /\ Goto("mode")
         \/ Spaced(Here, start) # {} /\ ~StartValid(Here, start) /\ Refuse
      /\ UNCHANGED <<arms_, robots, active, claimed, computed, rt>>

SetMode ==
  /\ prepare.pass # "none" /\ prepare.at = "mode"
  /\ control_mode_' = [control_mode_ EXCEPT ![Here] =
       IF prepare.pass = "stop" THEN None ELSE StartMode(Here, prepare.list.start)]
  /\ Goto("flag")
  /\ UNCHANGED <<switch_cm_, hw, robots, active, claimed, computed, rt>>

SetFlag ==
  /\ prepare.pass # "none" /\ prepare.at = "flag"
  /\ switch_cm_' = [switch_cm_ EXCEPT ![Here] = TRUE]
  /\ NextArm
  /\ UNCHANGED <<control_mode_, hw, robots, active, claimed, computed, rt>>

-----------------------------------------------------------------------------
(* The real-time cycle                                                     *)

(* A wrong variant: no stop for an arm that returns to mode None.          *)
NoneForgotten ==
  [a \in Arms |-> IF switch_cm_[a] /\ control_mode_[a] # None THEN control_mode_[a]
                  ELSE running[a]]

(* perform_command_mode_switch, at the end of the controller manager's     *)
(* update(): stopRobot() and initialize<Mode>() for every arm that is to   *)
(* switch.                                                                 *)
SwitchedModes == [a \in Arms |-> IF switch_cm_[a] THEN control_mode_[a] ELSE running[a]]
SwitchesKept == [a \in Arms |-> FALSE]

Perform ==
  /\ rt = "switch" /\ rt' = "write"
  /\ request # NoRequest
  /\ running' = SwitchedModes
  /\ restarted' = {a \in restarted : ~switch_cm_[a]}
  /\ switch_cm_' = SwitchesKept
  /\ claimed' = (claimed \ request.stop) \cup request.start
  /\ computed' = computed \ request.stop
  /\ request' = NoRequest
  /\ UNCHANGED <<control_mode_, hw, has_error, cmd, active, prepare, spoiled>>

NoSwitch ==
  /\ rt = "switch" /\ rt' = "write"
  /\ request = NoRequest
  /\ UNCHANGED <<arms_, robots, active, manager, spoiled>>

(* Robot::read() stops the loop of an arm in error.  A cycle begins: the   *)
(* commands are now old.                                                   *)
Aged == [a \in Arms |-> [m \in Modes |-> Nobody]]
Read ==
  /\ rt = "read" /\ rt' = "update"
  /\ running' = [a \in Arms |-> IF has_error[a] THEN Stopped ELSE running[a]]
  /\ hw' = Aged /\ cmd' = Aged
  /\ UNCHANGED <<control_mode_, switch_cm_, has_error, restarted, active, manager,
                 spoiled>>

(* The controllers write through the exported command interfaces.  Those   *)
(* of the joints point into arms_; the Cartesian ones into a copy of the   *)
(* container that is gone, and never reach hw.                             *)
Exported(m) == m \in JointModes
Computed(a, m) ==
  {c \in claimed : a \in Claim[c].arms /\ ModeOf(c) = m /\ Exported(m)}

Compute ==
  /\ rt = "update" /\ rt' = "switch"
  /\ hw' = [a \in Arms |-> [m \in Modes |->
              IF Computed(a, m) # {} THEN CHOOSE c \in Computed(a, m) : TRUE
              ELSE hw[a][m]]]
  /\ computed' = claimed
  /\ UNCHANGED <<control_mode_, switch_cm_, robots, active, claimed, prepare, request,
                 spoiled>>

(* write() goes through the arms in order and returns at the first in      *)
(* error.                                                                  *)
UpTo(a) == {Order[i] : i \in {j \in DOMAIN Order : \E k \in DOMAIN Order :
                                                     Order[k] = a /\ j <= k}}
Reached(a) == \A b \in UpTo(a) : ~has_error[b]

Write ==
  /\ rt = "write" /\ rt' = "read"
  /\ cmd' = [a \in Arms |-> IF Reached(a) THEN hw[a] ELSE cmd[a]]
  /\ computed' = {}
  /\ UNCHANGED <<arms_, running, has_error, restarted, active, claimed, prepare, request,
                 spoiled>>

-----------------------------------------------------------------------------
(* on_activate and on_deactivate, when no controller is active.  The       *)
(* latter resets control_mode_ in copies of the containers only.           *)
Idle ==
  claimed = {} /\ prepare.pass = "none" /\ request = NoRequest /\ rt = "read"

Activate ==
  /\ Idle /\ ~active /\ active' = TRUE
  /\ control_mode_' = [a \in Arms |-> None]
  /\ running' = [a \in Arms |-> IF has_error[a] THEN Stopped ELSE None]
  /\ restarted' = {} /\ spoiled' = {}
  /\ hw' = [a \in Arms |-> [m \in Modes |->
              IF m = "JointTorque" THEN Nobody ELSE hw[a][m]]]
  /\ UNCHANGED <<switch_cm_, has_error, cmd, manager, rt>>

Deactivate ==
  /\ Idle /\ active /\ active' = FALSE
  /\ running' = [a \in Arms |-> Stopped]
  /\ UNCHANGED <<arms_, has_error, cmd, restarted, manager, rt, spoiled>>

(* An arm faults and loses its loop; its recovery restarts some loop.      *)
Fault(a) ==
  /\ running[a] # Stopped /\ ~has_error[a]
  /\ has_error' = [has_error EXCEPT ![a] = TRUE]
  /\ UNCHANGED <<arms_, running, cmd, restarted, active, manager, rt, spoiled>>

Recover(a) ==
  /\ active /\ has_error[a] /\ running[a] = Stopped
  /\ has_error' = [has_error EXCEPT ![a] = FALSE]
  /\ \E m \in Modes \cup {None, Stopped} :
       running' = [running EXCEPT ![a] = m]
  /\ restarted' = restarted \cup {a}
  /\ UNCHANGED <<arms_, cmd, active, manager, rt, spoiled>>

Next ==
  \/ \E start, stop \in SUBSET Controllers : SwitchController(start, stop)
  \/ StopArm \/ StartArm \/ SetMode \/ SetFlag
  \/ Read \/ Compute \/ Perform \/ NoSwitch \/ Write
  \/ Activate \/ Deactivate
  \/ \E a \in Faulty : Fault(a) \/ Recover(a)

Spec == Init /\ [][Next]_vars

-----------------------------------------------------------------------------
(* Properties                                                              *)

(* "It prevents a new controller from being activated if another           *)
(* controller is currently running" (franka_hardware.md:34): no arm is     *)
(* claimed by two active controllers.  TLC refutes it with an arm that a   *)
(* refused request has put into no mode.                                   *)
OneControllerPerArm ==
  \A c, d \in claimed : c # d => Claim[c].arms \cap Claim[d].arms = {}

(* Whatever is requested and refused, two active controllers share no arm  *)
(* but those which a refused request has changed.                          *)
OneControllerUnlessSpoiled ==
  \A c, d \in claimed : c # d => Claim[c].arms \cap Claim[d].arms \subseteq spoiled

(* Between switches, the interface holds an arm that no refused request    *)
(* has changed for the mode of the controller that claims it, and for none *)
(* if nobody does.                                                         *)
Settled == prepare.pass = "none" /\ request = NoRequest
ModeIsClaimed ==
  Settled =>
    \A a \in Arms \ spoiled :
      LET holders == {c \in claimed : a \in Claim[c].arms}
      IN  IF holders = {} THEN control_mode_[a] = None
          ELSE \A c \in holders : control_mode_[a] = ModeOf(c)

(* The loop of a healthy arm is the one its controller needs.              *)
LoopMatchesMode ==
  active /\ Settled =>
    \A a \in Arms \ (restarted \cup spoiled) :
      ~has_error[a] => running[a] = control_mode_[a]

(* So claims, modes and loops of an arm agree, although the passes of the  *)
(* service thread run beside the cycle, faults and recoveries, and may be  *)
(* given up half-way.                                                      *)
ModesAgree == ModeIsClaimed /\ LoopMatchesMode

(* What a controller computed in a cycle reaches its arms in that cycle,   *)
(* as far as the arms before them are healthy, wherever the service thread *)
(* is in preparing a switch: unless it stops this controller and has come  *)
(* to this arm already.                                                    *)
InHand == IF prepare.at = "check" THEN {} ELSE {Here}
Touched(a) == switch_cm_[a] \/ a \in InHand
Stopping == prepare.list.stop \cup request.stop
CommandsArrive ==
  [][ rt = "write" /\ rt' = "read" =>
        \A c \in computed : \A a \in Claim[c].arms \ spoiled :
          ~(c \in Stopping /\ Touched(a)) /\ (\A b \in UpTo(a) : ~has_error[b]) =>
            cmd'[a][ModeOf(c)] = c ]_vars

(* "These values are then passed onto each Robot" (franka_hardware.md:30): *)
(* an arm without an error is written in every cycle.  TLC refutes it with *)
(* an arm in error that comes earlier in the map.                          *)
HealthyArmsWritten ==
  [][ rt = "write" /\ rt' = "read" =>
        \A a \in Arms : ~has_error[a] => cmd'[a] = hw[a] ]_vars

(* "Please stop the running controller first"                              *)
(* (franka_multi_hardware_interface.cpp:448): it can be stopped.  TLC      *)
(* refutes it with a Cartesian claim on two arms.                          *)
ControllersCanStop ==
  Settled => \A c \in claimed : \A a \in Arms : StopValid(a, {c})

=============================================================================
