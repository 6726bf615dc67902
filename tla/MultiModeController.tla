------------------------ MODULE MultiModeController ------------------------
(***************************************************************************)
(* The multi-mode controller (multi_mode_controller_impl): the real-time   *)
(* thread that updates, activates and deactivates it, and the executor     *)
(* thread that runs its services and the goal and parameter callbacks of   *)
(* its controllets, all of them in the node's one callback group.          *)
(*                                                                         *)
(* A controllet is an entry of control_map_: a name with the arms it       *)
(* drives.  What a controllet is told to do is reduced to where it came    *)
(* from: the pose at its start, a goal sent since, or an older goal.       *)
(***************************************************************************)
CONSTANTS
  Arms,         (* arms_                                                   *)
  Controllets,  (* control_map_                                            *)
  Resource,     (* the arms each controllet drives                         *)
  StartSet,     (* start_controllers, from the configuration               *)
  Commanded,    (* the controllets that clients send goals and parameters  *)
  Overlap       (* TRUE: set_controllers may overlap an activation         *)

(* Every arm is driven by exactly one controllet of the set.               *)
ExactCover(set) ==
  \A a \in Arms : \E c \in set :
    a \in Resource[c] /\ \A d \in set : a \in Resource[d] => d = c

ASSUME ResourceAssumption == Resource \in [Controllets -> SUBSET Arms \ {{}}]
(* Nothing checks start_controllers; the configurations in franka_bringup  *)
(* cover every arm once.                                                   *)
ASSUME StartAssumption == StartSet \subseteq Controllets /\ ExactCover(StartSet)
ASSUME CommandedAssumption == Commanded \subseteq Controllets
ASSUME OverlapAssumption == Overlap \in BOOLEAN

VARIABLES
  active_control_set_, control_mtx_, desired_, p_,
  started,          (* controllets started and not stopped since           *)
  listening,        (* controllets with a subscription and a service       *)
  lifecycle,        (* the state of the ros2_control controller            *)
  rt,               (* where the real-time thread is,                      *)
  todo,             (* and the controllets its loop has still to visit     *)
  written,          (* who wrote whose torques in this update              *)
  svc,              (* where setControllersCallback is,                    *)
  new_control,      (* what it was asked to start                          *)
  new_control_set   (* and what it is about to install                     *)

rtVars  == <<lifecycle, rt, todo, written>>
svcVars == <<svc, new_control, new_control_set>>
vars == <<active_control_set_, control_mtx_, desired_, p_, started, listening,
          rtVars, svcVars>>

Poses == {"none", "pose", "goal", "old"}
Parameters == {"none", "default", "custom"}
Buffered(T) == [content : T, buf : T, needs_update : BOOLEAN]

TypeOK ==
  /\ active_control_set_ \subseteq Controllets
  /\ control_mtx_ \in {"free", "shared", "exclusive"}
  /\ desired_ \in [Controllets -> Buffered(Poses)]
  /\ p_ \in [Controllets -> Buffered(Parameters)]
  /\ started \subseteq Controllets /\ listening \subseteq Controllets
  /\ lifecycle \in {"inactive", "active"}
  /\ rt \in {"idle", "lock", "compute", "start"}
  /\ todo \subseteq Controllets
  /\ written \subseteq Arms \X Controllets
  /\ svc \in {"idle", "lock", "stop", "assign", "start"}
  /\ new_control \subseteq Controllets /\ new_control_set \subseteq Controllets
  /\ control_mtx_ = "shared" <=> rt = "compute"
  /\ control_mtx_ = "exclusive" <=> svc \in {"stop", "assign", "start"}

(* utils/buffered.h                                                        *)
SetBuffer(b, v) == [b EXCEPT !.buf = v, !.needs_update = TRUE]
Update(b) ==
  IF b.needs_update THEN [b EXCEPT !.content = b.buf, !.needs_update = FALSE]
  ELSE b

(* A goal outlives the run of the controllet it was sent to.               *)
Aged(b) ==
  [b EXCEPT !.content = IF @ = "goal" THEN "old" ELSE @,
            !.buf     = IF @ = "goal" THEN "old" ELSE @]

(* A wrong start_, one that keeps desired_; see the wrong variants below.  *)
PoseNotReset(set) ==
  /\ started' = started \cup set
  /\ listening' = listening \cup set
  /\ UNCHANGED desired_

(* PandaControllerBase::start_ and startROSCom for the controllets of set: *)
(* hold the current pose; the parameters stay what they were.              *)
Start(set) ==
  /\ desired_' = [c \in Controllets |->
                    IF c \in set THEN Update(SetBuffer(desired_[c], "pose"))
                    ELSE desired_[c]]
  /\ started' = started \cup set
  /\ listening' = listening \cup set

(* stop_: nothing that is kept changes, not even the subscription.         *)
Stop(set) ==
  /\ desired_' = [c \in Controllets |->
                    IF c \in set THEN Aged(desired_[c]) ELSE desired_[c]]
  /\ started' = started \ set
  /\ UNCHANGED listening

(* on_configure: init() gives every controllet its default parameters.     *)
Init ==
  /\ active_control_set_ = StartSet
  /\ control_mtx_ = "free"
  /\ desired_ = [c \in Controllets |->
                   [content |-> "none", buf |-> "none", needs_update |-> FALSE]]
  /\ p_ = [c \in Controllets |->
             [content |-> "none", buf |-> "default", needs_update |-> TRUE]]
  /\ started = {} /\ listening = {}
  /\ lifecycle = "inactive" /\ rt = "idle" /\ todo = {} /\ written = {}
  /\ svc = "idle" /\ new_control = {} /\ new_control_set = {}

-----------------------------------------------------------------------------
(* Wrong variants of some steps below, each a slip this code could have    *)
(* had; a property that matters notices one of them.                       *)

SwapUnlocked ==             (* control_mtx_ not taken by the service       *)
  /\ svc = "lock" /\ svc' = "stop"
  /\ UNCHANGED <<active_control_set_, control_mtx_, desired_, p_, started,
                 listening, rtVars,
                 new_control, new_control_set>>
AtLeastOnce(set) ==         (* resource_usage > 1 is accepted              *)
  \A a \in Arms : \E c \in set : a \in Resource[c]
LockKept ==                 (* update() returns with control_mtx_ held     *)
  /\ rt = "compute" /\ todo = {} /\ rt' = "idle"
  /\ UNCHANGED <<active_control_set_, control_mtx_, desired_, p_, started,
                 listening, lifecycle, todo, written, svcVars>>
GoalNeverTaken(b) == b      (* computeTau_ without desired_.update()       *)

-----------------------------------------------------------------------------
(* setupControlSet: the request, and the active controllets that share no  *)
(* arm with it.  A request that names a controllet twice is refused like   *)
(* any other that drives an arm twice; an empty one is accepted.           *)
Retained(request) ==
  request \cup {old \in active_control_set_ :
                  \A new \in request : Resource[old] \cap Resource[new] = {}}

(* resource_usage is 1 for every arm.                                      *)
UsageIsOne(set) == ExactCover(set)

(* setControllersCallback.  A refused request changes nothing.             *)
SetRequest(request) ==
  /\ svc = "idle"
  /\ Overlap \/ rt # "start"
  /\ UsageIsOne(Retained(request))
  /\ new_control' = request
  /\ new_control_set' = Retained(request)
  /\ svc' = "lock"
  /\ UNCHANGED <<active_control_set_, control_mtx_, desired_, p_, started,
                 listening, rtVars>>

SetLock ==
  /\ svc = "lock" /\ svc' = "stop"
  /\ control_mtx_ = "free" /\ control_mtx_' = "exclusive"
  /\ UNCHANGED <<active_control_set_, desired_, p_, started, listening, rtVars,
                 new_control, new_control_set>>

SetStop ==
  /\ svc = "stop" /\ svc' = "assign"
  /\ Stop(active_control_set_)
  /\ UNCHANGED <<active_control_set_, control_mtx_, p_, rtVars,
                 new_control, new_control_set>>

SetAssign ==
  /\ svc = "assign" /\ svc' = "start"
  /\ active_control_set_' = new_control_set
  /\ UNCHANGED <<control_mtx_, desired_, p_, started, listening, rtVars,
                 new_control, new_control_set>>

SetStart ==
  /\ svc = "start" /\ svc' = "idle"
  /\ Start(active_control_set_)
  /\ control_mtx_' = "free" /\ new_control' = {} /\ new_control_set' = {}
  /\ UNCHANGED <<active_control_set_, p_, rtVars>>

SetControllers == SetLock \/ SetStop \/ SetAssign \/ SetStart

-----------------------------------------------------------------------------
(* The other callbacks of the executor thread; a callback whose message is *)
(* refused only sets error_, which nothing reads.                          *)

(* c has run since it was last started.                                    *)
InRun(c) ==
  /\ c \in started
  /\ lifecycle = "active" \/ (rt = "start" /\ c \notin todo)

DesiredPose(c) ==
  /\ svc = "idle" /\ c \in listening
  /\ desired_' = [desired_ EXCEPT ![c] =
                    SetBuffer(@, IF InRun(c) THEN "goal" ELSE "old")]
  /\ UNCHANGED <<active_control_set_, control_mtx_, p_, started, listening,
                 rtVars, svcVars>>

SetParameters(c) ==
  /\ svc = "idle" /\ c \in listening
  /\ p_' = [p_ EXCEPT ![c] = SetBuffer(@, "custom")]
  /\ UNCHANGED <<active_control_set_, control_mtx_, desired_, started,
                 listening, rtVars, svcVars>>

-----------------------------------------------------------------------------
(* The real-time thread.                                                   *)

(* update(), outside the lock: updateFrankaState().                        *)
UpdateState ==
  /\ rt = "idle" /\ lifecycle = "active"
  /\ rt' = "lock" /\ written' = {}
  /\ UNCHANGED <<active_control_set_, control_mtx_, desired_, p_, started,
                 listening, lifecycle, todo, svcVars>>

UpdateLock ==
  /\ rt = "lock" /\ rt' = "compute"
  /\ control_mtx_ = "free" /\ control_mtx_' = "shared"
  /\ todo' = active_control_set_
  /\ UNCHANGED <<active_control_set_, desired_, p_, started, listening,
                 lifecycle, written, svcVars>>

(* PandaControllerBase::computeTau_                                        *)
TakeGoal(b) == Update(b)

ComputeTau(c) ==
  /\ rt = "compute" /\ c \in todo
  /\ todo' = todo \ {c}
  /\ p_' = [p_ EXCEPT ![c] = Update(@)]
  /\ desired_' = [desired_ EXCEPT ![c] = TakeGoal(@)]
  /\ written' = written \cup (Resource[c] \X {c})
  /\ UNCHANGED <<active_control_set_, control_mtx_, started, listening,
                 lifecycle, rt, svcVars>>

(* tau_ is copied to the command interfaces, and the lock is released.     *)
UpdateWrite ==
  /\ rt = "compute" /\ todo = {} /\ rt' = "idle"
  /\ control_mtx_' = "free"
  /\ UNCHANGED <<active_control_set_, desired_, p_, started, listening,
                 lifecycle, todo, written, svcVars>>

(* on_activate starts the active set without taking control_mtx_.          *)
Activate ==
  /\ rt = "idle" /\ lifecycle = "inactive"
  /\ Overlap \/ svc = "idle"
  /\ rt' = "start" /\ todo' = active_control_set_
  /\ UNCHANGED <<active_control_set_, control_mtx_, desired_, p_, started,
                 listening, lifecycle, written, svcVars>>

(* If the set has been replaced under the loop, visiting the old one is    *)
(* one of the things that can happen.                                      *)
ActivateStart(c) ==
  /\ rt = "start" /\ c \in todo
  /\ todo' = todo \ {c}
  /\ Start({c})
  /\ UNCHANGED <<active_control_set_, control_mtx_, p_, lifecycle, rt, written,
                 svcVars>>

Activated ==
  /\ rt = "start" /\ todo = {}
  /\ rt' = "idle" /\ lifecycle' = "active"
  /\ UNCHANGED <<active_control_set_, control_mtx_, desired_, p_, started,
                 listening, todo, written, svcVars>>

(* on_deactivate stops no controllet.                                      *)
Deactivate ==
  /\ rt = "idle" /\ lifecycle = "active"
  /\ lifecycle' = "inactive"
  /\ desired_' = [c \in Controllets |-> Aged(desired_[c])]
  /\ UNCHANGED <<active_control_set_, control_mtx_, p_, started, listening,
                 rt, todo, written, svcVars>>

RealTime ==
  \/ UpdateState \/ UpdateLock \/ UpdateWrite \/ Activated
  \/ \E c \in Controllets : ComputeTau(c) \/ ActivateStart(c)

Next ==
  \/ \E request \in SUBSET Controllets : SetRequest(request)
  \/ SetControllers
  \/ \E c \in Commanded : DesiredPose(c) \/ SetParameters(c)
  \/ RealTime \/ Activate \/ Deactivate

Safety == Init /\ [][Next]_vars

(***************************************************************************)
(* Both threads run.  update() holds the lock for a fraction of its period *)
(* and the service is one of many calls: each gets the lock in the end.    *)
(***************************************************************************)
Fairness ==
  /\ WF_vars(RealTime) /\ SF_vars(UpdateLock)
  /\ WF_vars(SetControllers) /\ SF_vars(SetLock)

Spec == Safety /\ Fairness

-----------------------------------------------------------------------------
(* Properties                                                              *)

(* While update() computes, every active controllet has been started: a    *)
(* switch is never half done when the real-time thread looks.              *)
NeverHalfSwitched == rt = "compute" => active_control_set_ \subseteq started

(* The torques update() sends were all computed in that update, each arm's *)
(* by one controllet.                                                      *)
EveryArmWrittenOnce ==
  rt = "compute" /\ todo = {} =>
    \A a \in Arms : \E c \in Controllets :
      <<a, c>> \in written /\ \A d \in Controllets : <<a, d>> \in written => d = c

(* A controllet that computes never pursues a goal sent before its start.  *)
NoOldGoal ==
  rt = "compute" => \A c \in active_control_set_ : desired_[c].content # "old"

(* Between calls, what runs is what get_controllers reports: nothing that  *)
(* was unloaded is left running, nothing active was left unstarted.        *)
StartedAreActive ==
  svc = "idle" /\ rt # "start" /\ lifecycle = "active" =>
    started = active_control_set_

(* So a switch is atomic for those who compute and for those who ask.      *)
SwitchesAreAtomic == NeverHalfSwitched /\ StartedAreActive

(* "It first unloads whatever active controller from the affected robots"  *)
(* (franka_multi_mode_controller.md:236): a controllet that stays in the   *)
(* set is not unloaded.  TLC refutes it: all of them are stopped first.    *)
OnlyAffectedUnloaded ==
  [][ \A c \in new_control_set \cap active_control_set_ :
        svc = "stop" => (c \in started => c \in started') ]_vars

(* The controller hands arms over as ArmOwners promises.                   *)
OwnerOf(a) == CHOOSE c \in active_control_set_ : a \in Resource[c]
Owners ==
  INSTANCE ArmOwners WITH
    owner   <- [a \in Arms |-> OwnerOf(a)],
    request <- IF svc \in {"lock", "stop", "assign"} THEN new_control ELSE {}
OwnersSpec == Owners!Spec

(* set_controllers always answers, and an active controller keeps          *)
(* computing: neither side of control_mtx_ starves the other.              *)
SetControllersReturns == svc = "lock" ~> svc = "idle"
KeepsComputing == [](lifecycle = "active" => <>(rt = "compute" \/ lifecycle = "inactive"))
NobodyStarves == SetControllersReturns /\ KeepsComputing

(* A goal a running controllet accepted is taken up, unless a switch or a  *)
(* deactivation intervenes.                                                *)
GoalIsTaken ==
  \A c \in Commanded :
    desired_[c].needs_update /\ desired_[c].buf = "goal" ~>
      ~desired_[c].needs_update \/ desired_[c].buf = "old"

=============================================================================
