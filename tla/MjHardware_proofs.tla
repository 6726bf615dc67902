-------------------------- MODULE MjHardware_proofs --------------------------
(***************************************************************************)
(* For any arms, controllers and scenes: the simulated hardware keeps its  *)
(* types, drives an arm with one group of actuators, never gives one a     *)
(* value that is not finite, between switches drives every arm it has not  *)
(* spoiled as the active controllers claim it, and hands on what they      *)
(* compute in the cycle they computed it in.                               *)
(***************************************************************************)
EXTENDS MjHardware, TLAPS

(* Every arm has a position in Order, and every position an arm.           *)
LEMMA ArmsAreOrdered ==
  /\ Len(Order) \in Nat \ {0} /\ DOMAIN Order = 1..Len(Order)
  /\ \A i \in 1..Len(Order) : Order[i] \in Arms
  /\ \A a \in Arms : \E i \in 1..Len(Order) : Order[i] = a
<1>1. Len(Order) \in Nat \ {0} /\ DOMAIN Order = 1..Len(Order)
  BY OrderAssumption
<1> QED  BY <1>1 DEF Arms, ToSet

LEMMA KindOfList ==
  ASSUME NEW list \in SUBSET Controllers, OneKind(list)
  PROVE  /\ KindOf(list) \in Kinds
         /\ \A c \in list : Claim[c].kind = KindOf(list)
  BY DEF OneKind, KindOf

LEMMA ModesOfKinds ==
  \A k \in Kinds : ModeOf(k) \in JointModes /\ ModeOf(k) # None
                   /\ Group(ModeOf(k)) = {k}
  BY DEF Kinds, ModeOf, JointModes, Group, Kind, None

LEMMA GroupsAreKinds ==
  \A mode \in JointModes \cup {None} :
    /\ Group(mode) \subseteq Kinds
    /\ mode # None => Kind(mode) \in Kinds /\ Group(mode) = {Kind(mode)}
  BY DEF JointModes, Group, Kind, None, Kinds

-----------------------------------------------------------------------------
(* Types                                                                   *)

Positions == [pass : {"none", "stop", "start"}, i : 1..Len(Order),
              at : {"check", "mode", "flag"}, list : Lists]

LEMMA HereIsAnArm ==
  ASSUME TypeOK
  PROVE  Here \in Arms /\ prepare.list.stop \in SUBSET Controllers
                       /\ prepare.list.start \in SUBSET Controllers
  BY ArmsAreOrdered DEF TypeOK, Here, Lists

(* An arm at which a pass has got beyond its checks: the list speaks of    *)
(* it, with one kind, and a start has found it without a mode.             *)
Checked ==
  LET list == prepare.list
  IN  /\ prepare.pass = "none" => prepare.at = "check"
      /\ prepare.pass = "stop" /\ prepare.at # "check" =>
           Concerns(list.stop, Here) /\ Valid(list.stop, Here)
      /\ prepare.pass = "start" /\ prepare.at # "check" =>
           /\ Concerns(list.start, Here) /\ Valid(list.start, Here)
           /\ prepare.at = "mode" => control_mode_[Here] = None

Typed == TypeOK /\ Checked

LEMMA InitTyped == Init => Typed
<1> SUFFICES ASSUME Init PROVE Typed
  OBVIOUS
<1>1. Zero \in Values
  BY DEF Zero, Values
<1>2. NotPreparing \in Positions
  BY ArmsAreOrdered DEF NotPreparing, NoRequest, Lists, Positions
<1>3. NoRequest \in Lists
  BY DEF NoRequest, Lists
<1>4. Cycle("read") \in [do : {"read", "update", "switch", "write"}, i : 1..Len(Order)]
  BY ArmsAreOrdered DEF Cycle
<1>5. hw_commands \in [Arms -> [Kinds -> Values]] /\ ctrl \in [Arms -> [Kinds -> Values]]
  BY <1>1 DEF Init
<1>6. gain \in [Arms -> SUBSET Kinds]
  BY DEF Init
<1>7. Checked
  BY DEF Init, NotPreparing, Checked
<1> QED  BY <1>2, <1>3, <1>4, <1>5, <1>6, <1>7 DEF Init, TypeOK, Typed, Positions

(* Where a pass may go next.                                               *)
LEMMA NextArmTyped ==
  ASSUME TypeOK, NextArm
  PROVE  prepare' \in Positions /\ request' \in Lists /\ prepare'.at = "check"
<1>1. prepare \in Positions /\ Len(Order) \in Nat \ {0}
  BY ArmsAreOrdered DEF TypeOK, Positions
<1>2. CASE prepare.i < Len(Order)
  <2>1. prepare' = [prepare EXCEPT !.i = prepare.i + 1, !.at = "check"] /\ request' = request
    BY <1>2 DEF NextArm
  <2>2. prepare.i + 1 \in 1..Len(Order)
    BY <1>1, <1>2 DEF Positions
  <2>3. prepare' \in Positions /\ prepare'.at = "check"
    BY <1>1, <2>1, <2>2 DEF Positions
  <2> QED  BY <2>1, <2>3 DEF TypeOK
<1>3. CASE ~(prepare.i < Len(Order)) /\ prepare.pass = "stop"
  <2>1. prepare' = [prepare EXCEPT !.i = 1, !.at = "check", !.pass = "start"]
        /\ request' = request
    BY <1>3 DEF NextArm
  <2>2. 1 \in 1..Len(Order)
    BY <1>1
  <2>3. prepare' \in Positions /\ prepare'.at = "check"
    BY <1>1, <2>1, <2>2 DEF Positions
  <2> QED  BY <2>1, <2>3 DEF TypeOK
<1>4. CASE ~(prepare.i < Len(Order)) /\ prepare.pass # "stop"
  BY <1>1, <1>4 DEF NextArm, TypeOK, Positions, NotPreparing, NoRequest, Lists
<1> QED  BY <1>2, <1>3, <1>4

LEMMA GotoTyped ==
  ASSUME TypeOK, NEW step \in {"check", "mode", "flag"}, Goto(step)
  PROVE  /\ prepare' \in Positions /\ prepare'.at = step /\ Here' = Here
         /\ prepare'.pass = prepare.pass /\ prepare'.list = prepare.list
         /\ prepare'.i = prepare.i /\ UNCHANGED <<request, spoiled>>
  BY DEF Goto, TypeOK, Positions, Here

LEMMA RefuseTyped ==
  ASSUME TypeOK, Refuse
  PROVE  /\ prepare' \in Positions /\ prepare'.at = "check" /\ spoiled' \subseteq Arms
         /\ request' \in Lists
  BY ArmsAreOrdered DEF TypeOK, Refuse, NotPreparing, NoRequest, Lists, Positions

LEMMA StopArmTyped == Typed /\ StopArm => Typed'
<1> SUFFICES ASSUME Typed, StopArm PROVE Typed'
  OBVIOUS
<1> DEFINE stop == prepare.list.stop
<1>1. TypeOK /\ Here \in Arms /\ stop \in SUBSET Controllers
  BY HereIsAnArm DEF Typed
<1>2. CASE NextArm /\ UNCHANGED hw_commands
  <2>1. Checked'
    BY <1>1, <1>2, NextArmTyped DEF Checked
  <2> QED  BY <1>1, <1>2, <2>1, NextArmTyped
           DEF Typed, TypeOK, StopArm, NextArm, mujoco, Positions
<1>3. CASE Concerns(stop, Here) /\ Valid(stop, Here)
           /\ hw_commands' = Zeroed(stop, Here) /\ Goto("mode")
  <2>1. Checked'
    BY <1>1, <1>3, GotoTyped
    DEF Checked, StopArm, At, Concerns, Valid, OneKind, SevenJoints
  <2>2. Zero \in Values /\ KindOf(stop) \in Kinds
    BY <1>1, <1>3, KindOfList DEF Zero, Values, Valid
  <2>3. hw_commands' \in [Arms -> [Kinds -> Values]]
    BY <1>1, <1>3, <2>2 DEF TypeOK, Zeroed
  <2> QED  BY <1>1, <1>3, <2>1, <2>3, GotoTyped DEF Typed, TypeOK, StopArm, mujoco, Positions
<1>4. CASE Refuse /\ UNCHANGED hw_commands
  <2>1. Checked'
    BY <1>1, <1>4, RefuseTyped DEF Checked
  <2> QED  BY <1>1, <1>4, <2>1, RefuseTyped DEF Typed, TypeOK, StopArm, mujoco, Positions
<1> QED  BY <1>2, <1>3, <1>4 DEF StopArm

LEMMA StartArmTyped == Typed /\ StartArm => Typed'
<1> SUFFICES ASSUME Typed, StartArm PROVE Typed'
  OBVIOUS
<1> DEFINE start == prepare.list.start
<1>1. TypeOK /\ Here \in Arms
  BY HereIsAnArm DEF Typed
<1>2. CASE NextArm
  <2>1. Checked'
    BY <1>1, <1>2, NextArmTyped DEF Checked
  <2> QED  BY <1>1, <1>2, <2>1, NextArmTyped
           DEF Typed, TypeOK, StartArm, NextArm, arms_, mujoco, Positions
<1>3. CASE Concerns(start, Here) /\ StartValid(start, Here) /\ Goto("mode")
  <2>1. Checked'
    BY <1>1, <1>3, GotoTyped
    DEF Checked, StartArm, At, Concerns, StartValid, Valid, OneKind, SevenJoints, arms_
  <2> QED  BY <1>1, <1>3, <2>1, GotoTyped DEF Typed, TypeOK, StartArm, arms_, mujoco, Positions
<1>4. CASE Refuse
  <2>1. Checked'
    BY <1>1, <1>4, RefuseTyped DEF Checked
  <2> QED  BY <1>1, <1>4, <2>1, RefuseTyped DEF Typed, TypeOK, StartArm, arms_, mujoco, Positions
<1> QED  BY <1>2, <1>3, <1>4 DEF StartArm

LEMMA SetModeTyped == Typed /\ SetMode => Typed'
<1> SUFFICES ASSUME Typed, SetMode PROVE Typed'
  OBVIOUS
<1>1. /\ TypeOK /\ Checked /\ Here \in Arms /\ Goto("flag") /\ prepare.at = "mode"
      /\ prepare.pass \in {"stop", "start"} /\ prepare.list.start \in SUBSET Controllers
  BY HereIsAnArm DEF Typed, SetMode, TypeOK
<1>2. prepare.pass = "start" => ModeOf(KindOf(prepare.list.start)) \in JointModes
  BY <1>1, KindOfList, ModesOfKinds DEF Checked, Valid
<1>3. control_mode_' \in [Arms -> JointModes \cup {None}]
  BY <1>1, <1>2 DEF SetMode, TypeOK
<1>4. Checked'
  BY <1>1, GotoTyped DEF Checked, Concerns, Valid, OneKind, SevenJoints
<1> QED  BY <1>1, <1>3, <1>4, GotoTyped DEF Typed, TypeOK, SetMode, mujoco, Positions

LEMMA SetFlagTyped == Typed /\ SetFlag => Typed'
<1> SUFFICES ASSUME Typed, SetFlag PROVE Typed'
  OBVIOUS
<1>1. TypeOK /\ NextArm
  BY DEF Typed, SetFlag
<1>2. Checked'
  BY <1>1, NextArmTyped DEF Checked
<1> QED  BY <1>1, <1>2, NextArmTyped DEF Typed, TypeOK, SetFlag, NextArm, mujoco, Positions

LEMMA AgedTyped ==
  \A values \in [Arms -> [Kinds -> Values]] : Aged(values) \in [Arms -> [Kinds -> Values]]
  BY DEF Aged, Values

LEMMA UpdateTyped ==
  ASSUME TypeOK, NEW wild \in SUBSET Unstable, Update(wild)
  PROVE  TypeOK'
<1>1. \A a \in Arms, k \in Kinds : hw_commands[a][k] \in Values
                                   /\ Authors(a, k) \subseteq Controllers
  BY DEF TypeOK, Authors
<1>2. \A c \in Controllers : [by |-> c, finite |-> c \notin wild] \in Values
  BY DEF Values
<1>3. hw_commands' \in [Arms -> [Kinds -> Values]]
  BY <1>1, <1>2 DEF Update
<1>4. Cycle("switch") \in [do : {"read", "update", "switch", "write"}, i : 1..Len(Order)]
  BY ArmsAreOrdered DEF Cycle
<1> QED  BY <1>3, <1>4 DEF TypeOK, Update, mujoco

LEMMA CyclesTyped ==
  \A do \in {"read", "update", "switch", "write"} :
    Cycle(do) \in [do : {"read", "update", "switch", "write"}, i : 1..Len(Order)]
  BY ArmsAreOrdered DEF Cycle

LEMMA WriteTyped == TypeOK /\ WriteArm => TypeOK'
<1> SUFFICES ASSUME TypeOK, WriteArm PROVE TypeOK'
  OBVIOUS
<1>1. Order[rt.i] \in Arms
  BY ArmsAreOrdered DEF TypeOK
<1>2. control_mode_[Order[rt.i]] # None => Kind(control_mode_[Order[rt.i]]) \in Kinds
  BY <1>1, GroupsAreKinds DEF TypeOK
<1>3. WrittenTo(Order[rt.i]) \in [Kinds -> Values]
  BY <1>1, <1>2 DEF WrittenTo, TypeOK
<1>4. ctrl' \in [Arms -> [Kinds -> Values]]
  BY <1>3 DEF WriteArm, TypeOK
<1>5. rt' \in [do : {"read", "update", "switch", "write"}, i : 1..Len(Order)]
  BY CyclesTyped, ArmsAreOrdered DEF WriteArm, TypeOK
<1> QED  BY <1>4, <1>5 DEF WriteArm, TypeOK, arms_, manager

LEMMA PerformTyped == TypeOK /\ Perform => TypeOK'
<1> SUFFICES ASSUME TypeOK, Perform PROVE TypeOK'
  OBVIOUS
<1>1. gain' \in [Arms -> SUBSET Kinds]
  BY GroupsAreKinds DEF TypeOK, Perform, SwitchedGroup
<1>2. request' \in Lists
  BY DEF Perform, NoRequest, Lists
<1>3. claimed' \subseteq Controllers /\ computed' \subseteq Controllers
  BY DEF TypeOK, Perform, Lists
<1> QED  BY <1>1, <1>2, <1>3, CyclesTyped DEF TypeOK, Perform

(* Outside the passes nobody writes a mode while one is being prepared.    *)
LEMMA CheckedKept ==
  ASSUME Checked, UNCHANGED prepare, UNCHANGED control_mode_ \/ prepare.pass = "none"
  PROVE  Checked'
  BY DEF Checked, Here, Concerns, Valid, OneKind, SevenJoints

LEMMA StepTyped == Typed /\ [Next]_vars => Typed'
<1> SUFFICES ASSUME Typed, [Next]_vars PROVE Typed'
  OBVIOUS
<1> USE DEF Typed
<1>1. CASE initSim
  BY <1>1, CheckedKept DEF TypeOK, initSim, arms_, manager
<1>2. CASE on_activate
  <2>1. Zero \in Values
    BY DEF Zero, Values
  <2>2. hw_commands' \in [Arms -> [Kinds -> Values]]
    BY <1>2, <2>1 DEF TypeOK, on_activate
  <2> QED  BY <1>2, <2>2, CheckedKept DEF TypeOK, on_activate, mujoco, manager
<1>3. CASE on_deactivate
  BY <1>3, CheckedKept DEF TypeOK, on_deactivate, mujoco, manager
<1>4. ASSUME NEW start \in SUBSET Controllers, NEW stop \in SUBSET Controllers,
             SwitchController(start, stop)
      PROVE  Typed'
  <2>1. prepare' \in Positions /\ prepare'.at = "check"
    BY <1>4, ArmsAreOrdered DEF SwitchController, Positions, Lists
  <2>2. Checked'
    BY <2>1 DEF Checked
  <2> QED  BY <1>4, <2>1, <2>2 DEF TypeOK, SwitchController, arms_, mujoco, Positions
<1>5. CASE StopArm \/ StartArm \/ SetMode \/ SetFlag
  BY <1>5, StopArmTyped, StartArmTyped, SetModeTyped, SetFlagTyped
<1>6. CASE read
  BY <1>6, AgedTyped, CyclesTyped, CheckedKept DEF TypeOK, read
<1>7. CASE Perform
  BY <1>7, PerformTyped, CheckedKept DEF Perform
<1>8. CASE NoSwitch
  BY <1>8, CyclesTyped, CheckedKept DEF TypeOK, NoSwitch, arms_, mujoco, manager
<1>9. CASE WriteArm
  BY <1>9, WriteTyped, CheckedKept DEF WriteArm, arms_, manager
<1>10. ASSUME NEW wild \in SUBSET Unstable, Update(wild)  PROVE Typed'
  BY <1>10, UpdateTyped, CheckedKept DEF Update
<1>11. CASE UNCHANGED vars
  BY <1>11, CheckedKept DEF TypeOK, vars, arms_, mujoco, manager
<1> QED  BY <1>1, <1>2, <1>3, <1>4, <1>5, <1>6, <1>7, <1>8, <1>9, <1>10, <1>11 DEF Next

(* The state of the simulated hardware keeps its types: a mode is always   *)
(* one that some actuators can serve, however lists are mixed.             *)
THEOREM TypeCorrect == Spec => []TypeOK
<1>1. Typed => TypeOK
  BY DEF Typed
<1> QED  BY <1>1, InitTyped, StepTyped, PTL DEF Spec

-----------------------------------------------------------------------------
(* One group of actuators                                                  *)

(* Before initSim has succeeded nothing is prepared, read or switched.     *)
Untouched ==
  sim # "ready" =>
    /\ prepare = NotPreparing /\ request = NoRequest /\ claimed = {}
    /\ rt.do = "read"
    /\ \A a \in Arms : control_mode_[a] = None

(* Before it was called, in addition: there may be gains, and no switch.   *)
Driven == Typed /\ Untouched /\ OneGroup

LEMMA UntouchedKept == TypeOK /\ Untouched /\ [Next]_vars => Untouched'
<1> SUFFICES ASSUME TypeOK, Untouched, [Next]_vars PROVE Untouched'
  OBVIOUS
<1>1. CASE sim = "ready"
  <2>1. sim' = "ready"
    BY <1>1 DEF Next, vars, initSim, on_activate, on_deactivate, SwitchController,
       StopArm, StartArm, SetMode, SetFlag, read, Perform, NoSwitch, WriteArm, Update
  <2> QED  BY <2>1 DEF Untouched
<1>2. CASE sim # "ready"
  <2>1. initSim \/ UNCHANGED vars
    BY <1>2 DEF Untouched, Next, on_activate, on_deactivate, SwitchController,
       StopArm, StartArm, SetMode, SetFlag, At, read, Perform, NoSwitch, WriteArm, Update,
       NotPreparing, NoRequest
  <2> QED  BY <1>2, <2>1 DEF Untouched, initSim, vars, arms_, manager
<1> QED  BY <1>1, <1>2

(* A pass changes the mode of an arm only while it has the arm in hand,    *)
(* and leaves it marked.                                                   *)
LEMMA PassDrives ==
  Driven /\ (StopArm \/ StartArm \/ SetMode \/ SetFlag) => OneGroup'
<1> SUFFICES ASSUME Driven, StopArm \/ StartArm \/ SetMode \/ SetFlag PROVE OneGroup'
  OBVIOUS
<1>1. /\ TypeOK /\ Here \in Arms /\ OneGroup /\ UNCHANGED <<sim, gain>>
      /\ prepare.at = "check" => InHand = {}
      /\ prepare.at # "check" => InHand = {Here}
  BY HereIsAnArm
  DEF Driven, Typed, StopArm, StartArm, SetMode, SetFlag, mujoco, InHand
<1>2. ASSUME UNCHANGED control_mode_, \A b \in Arms : Touched(b) => Touched(b)'
      PROVE  OneGroup'
  BY <1>1, <1>2 DEF OneGroup
<1>3. CASE StopArm \/ StartArm
  BY <1>1, <1>2, <1>3 DEF StopArm, StartArm, At, Touched, arms_
<1>4. CASE SetMode
  <2>1. InHand' = {Here} /\ InHand = {Here} /\ switch_cm_' = switch_cm_
    BY <1>1, <1>4, GotoTyped DEF SetMode, InHand
  <2>2. \A b \in Arms : b # Here => control_mode_'[b] = control_mode_[b]
    BY <1>1, <1>4 DEF SetMode, TypeOK
  <2> QED  BY <1>1, <2>1, <2>2 DEF OneGroup, Touched
<1>5. CASE SetFlag
  BY <1>1, <1>2, <1>5 DEF SetFlag, Touched, TypeOK
<1> QED  BY <1>3, <1>4, <1>5

LEMMA InitSimDrives == Driven /\ initSim => OneGroup'
<1> SUFFICES ASSUME Driven, initSim, sim' = "ready" PROVE OneGroup'
  BY DEF OneGroup
<1>1. \A a \in Arms : populateIndices(a)
  BY DEF initSim
<1>2. \A a \in Arms : UpTo(a) \subseteq Arms
  BY ArmsAreOrdered DEF UpTo
<1>3. \A a \in Arms : gain'[a] = {}
  BY <1>1, <1>2 DEF initSim
<1>4. \A a \in Arms : control_mode_'[a] = None
  BY DEF Driven, Untouched, initSim, arms_
<1> QED  BY <1>3, <1>4 DEF OneGroup

LEMMA PerformDrives == Driven /\ Perform => OneGroup'
<1> SUFFICES ASSUME Driven, Perform PROVE OneGroup'
  OBVIOUS
<1>1. sim = "ready" /\ sim' = "ready"
  BY DEF Perform, Driven, Untouched
<1>2. InHand' = InHand
  BY DEF Perform, InHand, Here
<1>3. ASSUME NEW a \in Arms
      PROVE  /\ \A j, k \in gain'[a] : j = k
             /\ a \notin InHand /\ control_mode_'[a] # None =>
                  gain'[a] = Group(control_mode_'[a])
  <2>1. gain'[a] = IF switch_cm_[a] THEN Group(control_mode_[a]) ELSE gain[a]
    BY DEF Perform, SwitchedGroup
  <2>2. control_mode_'[a] = control_mode_[a]
    BY DEF Perform
  <2>3. \A j, k \in Group(control_mode_[a]) : j = k
    BY DEF Group
  <2>4. CASE switch_cm_[a]
    BY <2>1, <2>2, <2>3, <2>4
  <2>5. CASE ~switch_cm_[a]
    BY <1>1, <2>1, <2>2, <2>5 DEF Driven, OneGroup, Touched
  <2> QED  BY <2>4, <2>5
<1> QED  BY <1>2, <1>3 DEF OneGroup, Touched

LEMMA DrivenKept == Driven /\ [Next]_vars => Driven'
<1> SUFFICES ASSUME Driven, [Next]_vars PROVE OneGroup'
  BY StepTyped, UntouchedKept DEF Driven, Typed
<1>1. CASE initSim
  BY <1>1, InitSimDrives
<1>2. CASE on_activate \/ on_deactivate
  <2>1. \A a \in Arms : control_mode_'[a] = None
    BY <1>2 DEF on_activate, on_deactivate
  <2> QED  BY <1>2, <2>1 DEF Driven, OneGroup, on_activate, on_deactivate, mujoco
<1>3. ASSUME NEW start \in SUBSET Controllers, NEW stop \in SUBSET Controllers,
             SwitchController(start, stop)
      PROVE  OneGroup'
  BY <1>3 DEF Driven, Typed, Checked, OneGroup, SwitchController, arms_, mujoco, Touched,
     InHand
<1>4. CASE StopArm \/ StartArm \/ SetMode \/ SetFlag
  BY <1>4, PassDrives
<1>5. CASE Perform
  BY <1>5, PerformDrives
<1>6. CASE read \/ NoSwitch \/ WriteArm \/ UNCHANGED vars
  BY <1>6 DEF Driven, OneGroup, read, NoSwitch, WriteArm, vars, arms_, mujoco, manager,
     Touched, InHand, Here
<1>7. ASSUME NEW wild \in SUBSET Unstable, Update(wild)  PROVE OneGroup'
  BY <1>7 DEF Driven, OneGroup, Update, mujoco, Touched, InHand, Here
<1> QED  BY <1>1, <1>2, <1>3, <1>4, <1>5, <1>6, <1>7 DEF Next

LEMMA InitDriven == Init => Driven
<1>1. Init => Untouched /\ OneGroup
  BY DEF Init, Untouched, OneGroup, Cycle
<1> QED  BY <1>1, InitTyped DEF Driven

(* An arm is never driven by two groups of actuators, and in a mode whose  *)
(* switch has been performed by the group of that mode, whatever           *)
(* perform_command_mode_switch finds: also when a switch goes from one     *)
(* mode to another without an update in between, and after refusals.       *)
THEOREM ArmsDrivenOnce == Spec => []OneGroup
<1>1. Driven => OneGroup
  BY DEF Driven
<1> QED  BY <1>1, InitDriven, DrivenKept, PTL DEF Spec

-----------------------------------------------------------------------------
(* Finite values                                                           *)

LEMMA FiniteKept == TypeOK /\ OnlyFinite /\ [Next]_vars => OnlyFinite'
<1> SUFFICES ASSUME TypeOK, OnlyFinite, [Next]_vars PROVE OnlyFinite'
  OBVIOUS
<1>1. CASE read
  <2>1. ASSUME NEW a \in Arms, NEW k \in Kinds  PROVE ctrl'[a][k].finite
    <3>1. ctrl'[a][k] = [ctrl[a][k] EXCEPT !.by = Nobody]
      BY <1>1 DEF read, Aged
    <3>2. ctrl[a][k] \in Values
      BY DEF TypeOK
    <3>3. ctrl'[a][k].finite = ctrl[a][k].finite
      BY <3>1, <3>2 DEF Values
    <3> QED  BY <3>3 DEF OnlyFinite
  <2> QED  BY <2>1 DEF OnlyFinite
<1>2. CASE WriteArm
  <2>1. Order[rt.i] \in Arms
    BY ArmsAreOrdered DEF TypeOK
  <2>2. CASE UNCHANGED ctrl
    BY <2>2 DEF OnlyFinite
  <2>3. CASE FiniteArm(Order[rt.i])
             /\ ctrl' = [ctrl EXCEPT ![Order[rt.i]] = WrittenTo(Order[rt.i])]
    <3>1. \A k \in Kinds : WrittenTo(Order[rt.i])[k].finite
      BY <2>1, <2>3 DEF FiniteArm, WrittenTo, OnlyFinite, TypeOK
    <3> QED  BY <2>1, <2>3, <3>1 DEF OnlyFinite, TypeOK
  <2> QED  BY <1>2, <2>2, <2>3 DEF WriteArm
<1>3. CASE ~read /\ ~WriteArm
  <2>1. UNCHANGED ctrl
    BY <1>3 DEF Next, vars, initSim, on_activate, on_deactivate, SwitchController,
       StopArm, StartArm, SetMode, SetFlag, Perform, NoSwitch, Update, mujoco
  <2> QED  BY <2>1 DEF OnlyFinite
<1> QED  BY <1>1, <1>2, <1>3

(* No actuator is ever given a value that is not finite: write() looks at  *)
(* all commands of an arm before it hands over those of its mode.          *)
THEOREM ActuatorsGetFiniteValues == Spec => []OnlyFinite
<1>1. Init => Typed /\ OnlyFinite
  BY InitTyped DEF Init, OnlyFinite, Zero
<1>2. Typed /\ OnlyFinite /\ [Next]_vars => Typed' /\ OnlyFinite'
  BY StepTyped, FiniteKept DEF Typed
<1> QED  BY <1>1, <1>2, PTL DEF Spec

-----------------------------------------------------------------------------
(* Actuators and claims                                                    *)

(* The controllers of a list that claim arm a, and the kinds they need.    *)
Claimers(list, a) == {c \in list : a \in Claim[c].arms}
KindsOn(list, a) == {Claim[c].kind : c \in Claimers(list, a)}

(* What the controller manager checks before it asks.                      *)
Exclusive(list) ==
  \A c, d \in list : c # d /\ Claim[c].kind = Claim[d].kind =>
                       Claim[c].arms \cap Claim[d].arms = {}

(* The controllers that the modes of arm a stand for: as far as the stop   *)
(* and the start pass have come, and then those of the prepared switch.    *)
Passed(a) == \/ \E j \in 1..Len(Order) : Order[j] = a /\ j < prepare.i
             \/ prepare.at = "flag" /\ a = Here
Due(a) ==
  LET list == prepare.list
  IN  CASE prepare.pass = "none" -> (claimed \ request.stop) \cup request.start
        [] prepare.pass = "stop" -> IF Passed(a) THEN claimed \ list.stop ELSE claimed
        [] prepare.pass = "start" -> IF Passed(a) THEN (claimed \ list.stop) \cup list.start
                                     ELSE claimed \ list.stop

(* While a switch is prepared no other one is pending; the controllers,    *)
(* before and after, claim no interface twice.                             *)
OneSwitch ==
  /\ prepare.pass = "none" => prepare = NotPreparing
  /\ prepare.pass # "none" => request = NoRequest /\ prepare.list.stop \subseteq claimed
  /\ Exclusive(claimed)
  /\ Exclusive((claimed \ request.stop) \cup request.start)
  /\ Exclusive((claimed \ prepare.list.stop) \cup prepare.list.start)

(* An arm that is not spoiled has the mode of what is due, the actuators   *)
(* of what is active, and has been touched if the two differ.              *)
ArmAgrees(a) ==
  /\ Group(control_mode_[a]) = KindsOn(Due(a), a)
  /\ sim = "ready" => gain[a] = KindsOn(claimed, a)
  /\ ~Touched(a) => Claimers(Due(a), a) = Claimers(claimed, a)

Agree ==
  /\ Typed /\ Untouched /\ OneSwitch
  /\ \A a \in Arms \ spoiled : ArmAgrees(a)

LEMMA InitAgrees == Init => Agree
<1> SUFFICES ASSUME Init PROVE Agree
  OBVIOUS
<1>1. claimed = {} /\ request = NoRequest /\ prepare = NotPreparing
  BY DEF Init
<1>2. OneSwitch
  BY <1>1 DEF OneSwitch, Exclusive, NotPreparing, NoRequest
<1>3. \A a \in Arms : Due(a) = {} /\ KindsOn({}, a) = {}
  BY <1>1 DEF Due, NotPreparing, NoRequest, KindsOn, Claimers
<1>4. \A a \in Arms : ArmAgrees(a)
  BY <1>1, <1>3 DEF Init, ArmAgrees, Group
<1> QED  BY <1>2, <1>4, InitDriven DEF Agree, Driven

(* The place of an arm in Order, which decides whether it is passed.       *)
LEMMA PlaceOfArm ==
  ASSUME TypeOK, NEW b \in Arms
  PROVE  \E j \in 1..Len(Order) :
           /\ (\E k \in 1..Len(Order) : Order[k] = b /\ k < prepare.i) <=> j < prepare.i
           /\ (\E k \in 1..Len(Order) : Order[k] = b /\ k < prepare'.i) <=> j < prepare'.i
           /\ b = Here <=> j = prepare.i
<1>1. prepare.i \in 1..Len(Order) /\ \E j \in 1..Len(Order) : Order[j] = b
  BY ArmsAreOrdered DEF TypeOK
<1>2. PICK j \in 1..Len(Order) : Order[j] = b
  BY <1>1
<1>3. \A k \in 1..Len(Order) : Order[k] = b <=> k = j
  BY <1>2, ArmsAreOrdered, OrderAssumption
<1> QED  BY <1>1, <1>2, <1>3 DEF Here

(* The end of the step at an arm: it is passed, the others stay as they    *)
(* are, and after the last arm the next pass begins.                       *)
LEMMA PassStep ==
  ASSUME TypeOK, OneSwitch, NextArm, UNCHANGED claimed, prepare.pass # "none",
         NEW b \in Arms
  PROVE  LET list == prepare.list
         IN  /\ prepare.pass = "stop" =>
                  Due(b)' = IF b = Here THEN claimed \ list.stop ELSE Due(b)
             /\ prepare.pass = "start" =>
                  Due(b)' = IF b = Here THEN (claimed \ list.stop) \cup list.start ELSE Due(b)
<1> DEFINE n == Len(Order)
<1>1. n \in Nat \ {0} /\ prepare.i \in 1..n /\ prepare.pass \in {"stop", "start"}
  BY ArmsAreOrdered DEF TypeOK
<1>2. PICK j \in 1..n :
        /\ (\E k \in 1..n : Order[k] = b /\ k < prepare.i) <=> j < prepare.i
        /\ (\E k \in 1..n : Order[k] = b /\ k < prepare'.i) <=> j < prepare'.i
        /\ b = Here <=> j = prepare.i
  BY PlaceOfArm
<1>3. b # Here => (Passed(b) <=> j < prepare.i)
  BY <1>2 DEF Passed
<1>4. prepare'.at = "check"
  BY NextArmTyped
<1>5. CASE prepare.i < n
  <2>1. prepare' = [prepare EXCEPT !.i = prepare.i + 1, !.at = "check"]
    BY <1>5 DEF NextArm
  <2>2. prepare'.i = prepare.i + 1
    BY <2>1 DEF TypeOK
  <2>3. prepare'.pass = prepare.pass
    BY <2>1 DEF TypeOK
  <2>4. prepare'.list = prepare.list
    BY <2>1 DEF TypeOK
  <2>5. Passed(b)' <=> j < prepare.i + 1
    BY <1>2, <1>4, <2>2 DEF Passed
  <2>6. Passed(b)' <=> b = Here \/ Passed(b)
    BY <1>1, <1>2, <1>3, <2>5
  <2> QED  BY <1>1, <2>3, <2>4, <2>6 DEF Due
<1>6. CASE ~(prepare.i < n) /\ prepare.pass = "stop"
  <2>1. prepare' = [prepare EXCEPT !.i = 1, !.at = "check", !.pass = "start"]
    BY <1>6 DEF NextArm
  <2>2. prepare'.i = 1
    BY <2>1 DEF TypeOK
  <2>3. prepare'.pass = "start"
    BY <2>1 DEF TypeOK
  <2>4. prepare'.list = prepare.list
    BY <2>1 DEF TypeOK
  <2>5. ~Passed(b)'
    BY <1>2, <1>4, <2>2 DEF Passed
  <2>6. Due(b)' = claimed \ prepare.list.stop
    BY <2>3, <2>4, <2>5 DEF Due
  <2>7. b # Here => Due(b) = claimed \ prepare.list.stop
    BY <1>1, <1>2, <1>3, <1>6 DEF Due
  <2> QED  BY <1>6, <2>6, <2>7
<1>7. CASE ~(prepare.i < n) /\ prepare.pass = "start"
  <2>1. prepare' = NotPreparing /\ request' = prepare.list
    BY <1>7 DEF NextArm
  <2>2. Due(b)' = (claimed \ prepare.list.stop) \cup prepare.list.start
    BY <2>1 DEF Due, NotPreparing
  <2>3. b # Here => Due(b) = (claimed \ prepare.list.stop) \cup prepare.list.start
    BY <1>1, <1>2, <1>3, <1>7 DEF Due
  <2> QED  BY <1>7, <2>2, <2>3
<1> QED  BY <1>1, <1>5, <1>6, <1>7

(* What stops: in the request, or in the list that is being prepared.      *)
Stopping == request.stop \cup prepare.list.stop

LEMMA PassKeepsOneSwitch ==
  ASSUME TypeOK, OneSwitch, NextArm, UNCHANGED claimed, prepare.pass # "none"
  PROVE  OneSwitch' /\ Stopping' = Stopping /\ UNCHANGED spoiled
<1>1. request = NoRequest /\ UNCHANGED spoiled
  BY DEF OneSwitch, NextArm
<1>2. CASE request' = request /\ prepare'.list = prepare.list /\ prepare'.pass # "none"
  BY <1>1, <1>2 DEF OneSwitch, Exclusive, Stopping
<1>3. CASE prepare' = NotPreparing /\ request' = prepare.list
  <2>1. Stopping' = Stopping
    BY <1>1, <1>3 DEF Stopping, NotPreparing, NoRequest
  <2> QED  BY <1>1, <1>3, <2>1 DEF OneSwitch, Exclusive, NotPreparing, NoRequest
<1>4. CASE prepare.i < Len(Order)
  <2>1. prepare' = [prepare EXCEPT !.i = prepare.i + 1, !.at = "check"] /\ request' = request
    BY <1>4 DEF NextArm
  <2>2. prepare'.pass = prepare.pass
    BY <2>1 DEF TypeOK
  <2>3. prepare'.list = prepare.list
    BY <2>1 DEF TypeOK
  <2> QED  BY <1>2, <2>1, <2>2, <2>3
<1>5. CASE ~(prepare.i < Len(Order)) /\ prepare.pass = "stop"
  <2>1. prepare' = [prepare EXCEPT !.i = 1, !.at = "check", !.pass = "start"]
        /\ request' = request
    BY <1>5 DEF NextArm
  <2>2. prepare'.pass = "start"
    BY <2>1 DEF TypeOK
  <2>3. prepare'.list = prepare.list
    BY <2>1 DEF TypeOK
  <2> QED  BY <1>2, <2>1, <2>2, <2>3
<1> QED  BY <1>3, <1>4, <1>5 DEF NextArm

(* At an arm beyond its checks the pass only moves on.                     *)
LEMMA GotoKeeps ==
  ASSUME TypeOK, OneSwitch, UNCHANGED claimed, prepare.pass # "none",
         NEW step \in {"mode", "flag"}, Goto(step)
  PROVE  /\ OneSwitch' /\ Stopping' = Stopping
         /\ \A b \in Arms : b # Here => Due(b)' = Due(b)
         /\ step = "mode" /\ prepare.at = "check" => \A b \in Arms : Due(b)' = Due(b)
         /\ InHand' = {Here}
<1>1. /\ prepare'.at = step /\ Here' = Here /\ prepare'.pass = prepare.pass
      /\ prepare'.list = prepare.list /\ prepare'.i = prepare.i /\ UNCHANGED request
  BY GotoTyped
<1>2. OneSwitch' /\ Stopping' = Stopping
  BY <1>1 DEF OneSwitch, Exclusive, Stopping
<1>3. ASSUME NEW b \in Arms, b # Here  PROVE Due(b)' = Due(b)
  <2>1. Passed(b)' <=> Passed(b)
    BY <1>1, <1>3 DEF Passed
  <2> QED  BY <1>1, <2>1 DEF Due
<1>4. ASSUME step = "mode", prepare.at = "check", NEW b \in Arms  PROVE Due(b)' = Due(b)
  <2>1. Passed(b)' <=> Passed(b)
    BY <1>1, <1>4 DEF Passed
  <2> QED  BY <1>1, <2>1 DEF Due
<1> QED  BY <1>1, <1>2, <1>3, <1>4 DEF InHand

(* Of an arm with one group of actuators, its only claimer is what stops.  *)
LEMMA StopEmpties ==
  ASSUME TypeOK, Exclusive(claimed), NEW stop \in SUBSET claimed, NEW a \in Arms,
         Concerns(stop, a), Group(control_mode_[a]) = KindsOn(claimed, a)
  PROVE  Claimers(claimed \ stop, a) = {}
<1>1. PICK c \in stop : a \in Claim[c].arms
  BY DEF Concerns
<1>2. \A j, k \in Group(control_mode_[a]) : j = k
  BY DEF Group
<1>3. \A d \in claimed : a \in Claim[d].arms => Claim[d].kind = Claim[c].kind
  BY <1>1, <1>2 DEF KindsOn, Claimers
<1> QED  BY <1>1, <1>3 DEF Exclusive, Claimers

(* A refused request is forgotten; what it has changed is spoiled.         *)
LEMMA RefuseAgrees ==
  ASSUME Agree, Refuse, UNCHANGED <<claimed, sim, gain, control_mode_, switch_cm_>>,
         prepare.pass # "none", prepare.at = "check"
  PROVE  OneSwitch' /\ \A b \in Arms \ spoiled' : ArmAgrees(b)'
<1>1. request = NoRequest /\ request' = NoRequest /\ prepare' = NotPreparing
  BY DEF Agree, OneSwitch, Refuse
<1>2. OneSwitch'
  BY <1>1 DEF Agree, OneSwitch, Exclusive, NotPreparing, NoRequest
<1>3. ASSUME NEW b \in Arms \ spoiled'  PROVE ArmAgrees(b)'
  <2>1. b \notin spoiled /\ ~Touched(b)
    BY <1>3 DEF Refuse, Touched, InHand
  <2>2. Claimers(Due(b), b) = Claimers(claimed, b)
    BY <1>3, <2>1 DEF Agree, ArmAgrees
  <2>3. Due(b)' = claimed
    BY <1>1 DEF Due, NotPreparing, NoRequest
  <2>4. Group(control_mode_[b]) = KindsOn(claimed, b)
    BY <1>3, <2>1, <2>2 DEF Agree, ArmAgrees, KindsOn
  <2> QED  BY <1>3, <2>1, <2>3, <2>4 DEF Agree, ArmAgrees, KindsOn, Claimers
<1> QED  BY <1>2, <1>3

(* A pass over an arm that the list does not name.                         *)
LEMMA SkippedArm ==
  ASSUME Agree, NextArm, UNCHANGED <<claimed, sim, gain, control_mode_, switch_cm_>>,
         prepare.at = "check",
         \/ prepare.pass = "stop" /\ ~Concerns(prepare.list.stop, Here)
         \/ prepare.pass = "start" /\ ~Concerns(prepare.list.start, Here)
  PROVE  OneSwitch' /\ \A b \in Arms \ spoiled' : ArmAgrees(b)'
<1>1. TypeOK /\ OneSwitch /\ Here \in Arms
  BY HereIsAnArm DEF Agree, Typed
<1>2. OneSwitch' /\ spoiled' = spoiled /\ prepare'.at = "check"
  BY <1>1, PassKeepsOneSwitch, NextArmTyped
<1>3. ASSUME NEW b \in Arms \ spoiled  PROVE ArmAgrees(b)'
  <2>1. Claimers(Due(b)', b) = Claimers(Due(b), b)
    <3>1. CASE b # Here
      BY <1>1, <3>1, PassStep
    <3>2. CASE b = Here /\ prepare.pass = "stop"
      <4>1. Due(b)' = claimed \ prepare.list.stop
        BY <1>1, <3>2, PassStep
      <4>2. Due(b) = claimed \/ Due(b) = claimed \ prepare.list.stop
        BY <3>2 DEF Due
      <4> QED  BY <3>2, <4>1, <4>2 DEF Claimers, Concerns
    <3>3. CASE b = Here /\ prepare.pass = "start"
      <4>1. Due(b)' = (claimed \ prepare.list.stop) \cup prepare.list.start
        BY <1>1, <3>3, PassStep
      <4>2. \/ Due(b) = claimed \ prepare.list.stop
            \/ Due(b) = (claimed \ prepare.list.stop) \cup prepare.list.start
        BY <3>3 DEF Due
      <4> QED  BY <3>3, <4>1, <4>2 DEF Claimers, Concerns
    <3> QED  BY <3>1, <3>2, <3>3
  <2>2. Touched(b)' <=> Touched(b)
    BY <1>2 DEF Touched, InHand
  <2>3. ArmAgrees(b)
    BY <1>3 DEF Agree
  <2> QED  BY <2>1, <2>2, <2>3 DEF ArmAgrees, KindsOn, Claimers
<1> QED  BY <1>2, <1>3

(* A pass that has checked an arm of the list.                             *)
LEMMA CheckedArm ==
  ASSUME Agree, Goto("mode"), UNCHANGED <<claimed, sim, gain, control_mode_, switch_cm_>>,
         prepare.pass # "none", prepare.at = "check"
  PROVE  OneSwitch' /\ \A b \in Arms \ spoiled' : ArmAgrees(b)'
<1>1. /\ OneSwitch' /\ InHand' = {Here} /\ spoiled' = spoiled
      /\ \A b \in Arms : Due(b)' = Due(b)
  BY GotoKeeps, GotoTyped DEF Agree, Typed
<1>2. \A b \in Arms : Touched(b) => Touched(b)'
  BY <1>1 DEF Touched, InHand
<1> QED  BY <1>1, <1>2 DEF Agree, ArmAgrees, KindsOn, Claimers

LEMMA SetModeAgrees ==
  Agree /\ SetMode => OneSwitch' /\ \A b \in Arms \ spoiled' : ArmAgrees(b)'
<1> SUFFICES ASSUME Agree, SetMode
             PROVE  OneSwitch' /\ \A b \in Arms \ spoiled' : ArmAgrees(b)'
  OBVIOUS
<1> DEFINE stop == prepare.list.stop
           start == prepare.list.start
           left == claimed \ prepare.list.stop
<1>1. /\ TypeOK /\ OneSwitch /\ Checked /\ Here \in Arms /\ Goto("flag")
      /\ stop \in SUBSET Controllers /\ start \in SUBSET Controllers
      /\ prepare.pass \in {"stop", "start"} /\ prepare.at = "mode"
      /\ UNCHANGED <<claimed, switch_cm_, sim, gain>>
  BY HereIsAnArm DEF Agree, Typed, SetMode, TypeOK, mujoco
<1>2. /\ OneSwitch' /\ InHand' = {Here} /\ spoiled' = spoiled /\ Here' = Here
      /\ \A b \in Arms : b # Here => Due(b)' = Due(b)
      /\ prepare'.at = "flag" /\ prepare'.pass = prepare.pass /\ prepare'.list = prepare.list
  <2>1. /\ prepare'.at = "flag" /\ prepare'.pass = prepare.pass /\ prepare'.list = prepare.list
        /\ spoiled' = spoiled /\ Here' = Here
    BY <1>1, GotoTyped
  <2>2. OneSwitch' /\ InHand' = {Here}
    BY <1>1, GotoKeeps
  <2>3. \A b \in Arms : b # Here => Due(b)' = Due(b)
    BY <1>1, GotoKeeps
  <2> QED  BY <2>1, <2>2, <2>3
<1>3. ASSUME NEW b \in Arms \ spoiled, b # Here  PROVE ArmAgrees(b)'
  <2>1. control_mode_'[b] = control_mode_[b]
    BY <1>1, <1>3 DEF SetMode, TypeOK
  <2>2. Touched(b) => Touched(b)'
    BY <1>1, <1>3 DEF Touched, InHand
  <2> QED  BY <1>1, <1>2, <1>3, <2>1, <2>2 DEF Agree, ArmAgrees, KindsOn, Claimers
<1>4. ASSUME Here \notin spoiled  PROVE ArmAgrees(Here)'
  <2>1. ~Passed(Here) /\ Passed(Here)' /\ Touched(Here)'
    <3>1. \E j \in 1..Len(Order) :
            /\ (\E k \in 1..Len(Order) : Order[k] = Here /\ k < prepare.i) <=> j < prepare.i
            /\ Here = Here <=> j = prepare.i
      BY <1>1, PlaceOfArm
    <3>2. ~Passed(Here)
      BY <1>1, <3>1 DEF Passed, TypeOK
    <3> QED  BY <1>2, <3>2 DEF Passed, Touched
  <2>2. ArmAgrees(Here)
    BY <1>1, <1>4 DEF Agree
  <2>3. CASE prepare.pass = "stop"
    <3>1. Due(Here) = claimed /\ Due(Here)' = left
      BY <1>1, <1>2, <2>1, <2>3 DEF Due
    <3>2. Claimers(left, Here) = {}
      BY <1>1, <2>2, <2>3, <3>1, StopEmpties DEF OneSwitch, ArmAgrees, Checked
    <3>3. control_mode_'[Here] = None
      BY <1>1, <2>3 DEF SetMode, TypeOK
    <3> QED  BY <1>1, <1>2, <2>1, <2>2, <3>1, <3>2, <3>3
             DEF ArmAgrees, KindsOn, Group, Claimers
  <2>4. CASE prepare.pass = "start"
    <3>1. Due(Here) = left /\ Due(Here)' = left \cup start
      BY <1>1, <1>2, <2>1, <2>4 DEF Due
    <3>2. KindOf(start) \in Kinds /\ \A c \in start : Claim[c].kind = KindOf(start)
      BY <1>1, <2>4, KindOfList DEF Checked, Valid
    <3>3. Claimers(left, Here) = {}
      <4>1. Group(control_mode_[Here]) = {}
        BY <1>1, <2>4 DEF Checked, Group
      <4>2. KindsOn(left, Here) = {}
        BY <2>2, <3>1, <4>1 DEF ArmAgrees
      <4> QED  BY <4>2 DEF KindsOn
    <3>4. KindsOn(left \cup start, Here) = {KindOf(start)}
      <4>1. \A c \in Claimers(left \cup start, Here) : c \in start
        BY <3>3 DEF Claimers
      <4>2. \E c \in start : c \in Claimers(left \cup start, Here)
        BY <1>1, <2>4 DEF Checked, Concerns, Claimers
      <4> QED  BY <3>2, <4>1, <4>2 DEF KindsOn
    <3>5. control_mode_'[Here] = ModeOf(KindOf(start))
      BY <1>1, <2>4 DEF SetMode, TypeOK
    <3>6. Group(control_mode_'[Here]) = {KindOf(start)}
      BY <3>2, <3>5, ModesOfKinds
    <3> QED  BY <1>1, <1>2, <2>1, <2>2, <3>1, <3>4, <3>5, <3>6
             DEF ArmAgrees, KindsOn, Claimers
  <2> QED  BY <1>1, <2>3, <2>4
<1> QED  BY <1>2, <1>3, <1>4

LEMMA SetFlagAgrees ==
  Agree /\ SetFlag => OneSwitch' /\ \A b \in Arms \ spoiled' : ArmAgrees(b)'
<1> SUFFICES ASSUME Agree, SetFlag
             PROVE  OneSwitch' /\ \A b \in Arms \ spoiled' : ArmAgrees(b)'
  OBVIOUS
<1>1. /\ TypeOK /\ OneSwitch /\ Here \in Arms /\ NextArm
      /\ prepare.pass \in {"stop", "start"} /\ prepare.at = "flag"
      /\ UNCHANGED <<claimed, control_mode_, sim, gain>>
  BY HereIsAnArm DEF Agree, Typed, SetFlag, TypeOK, mujoco
<1>2. OneSwitch' /\ spoiled' = spoiled /\ prepare'.at = "check"
  BY <1>1, PassKeepsOneSwitch, NextArmTyped
<1>3. Passed(Here)
  BY <1>1 DEF Passed
<1>4. \A b \in Arms : Due(b)' = Due(b)
  <2>1. CASE prepare.pass = "stop"
    <3>1. Due(Here) = claimed \ prepare.list.stop
      BY <1>3, <2>1 DEF Due
    <3> QED  BY <1>1, <2>1, <3>1, PassStep
  <2>2. CASE prepare.pass = "start"
    <3>1. Due(Here) = (claimed \ prepare.list.stop) \cup prepare.list.start
      BY <1>3, <2>2 DEF Due
    <3> QED  BY <1>1, <2>2, <3>1, PassStep
  <2> QED  BY <1>1, <2>1, <2>2
<1>5. \A b \in Arms : Touched(b) => Touched(b)'
  BY <1>1 DEF SetFlag, Touched, InHand, TypeOK
<1> QED  BY <1>1, <1>2, <1>4, <1>5 DEF Agree, ArmAgrees, KindsOn, Claimers

LEMMA PassAgrees ==
  ASSUME Agree, StopArm \/ StartArm \/ SetMode \/ SetFlag
  PROVE  OneSwitch' /\ \A b \in Arms \ spoiled' : ArmAgrees(b)'
<1>1. CASE StopArm
  BY <1>1, SkippedArm, CheckedArm, RefuseAgrees DEF StopArm, At, mujoco
<1>2. CASE StartArm
  BY <1>2, SkippedArm, CheckedArm, RefuseAgrees DEF StartArm, At, mujoco, arms_
<1> QED  BY <1>1, <1>2, SetModeAgrees, SetFlagAgrees

LEMMA SwitchControllerAgrees ==
  ASSUME Agree, NEW start \in SUBSET Controllers, NEW stop \in SUBSET Controllers,
         SwitchController(start, stop)
  PROVE  OneSwitch' /\ \A b \in Arms \ spoiled' : ArmAgrees(b)'
<1>1. /\ prepare = NotPreparing /\ request = NoRequest /\ stop \subseteq claimed
      /\ prepare' = [pass |-> "stop", i |-> 1, at |-> "check",
                     list |-> [start |-> start, stop |-> stop]]
      /\ UNCHANGED <<claimed, request, gain, sim, spoiled, control_mode_, switch_cm_>>
  BY DEF SwitchController, Asked, arms_, mujoco, Agree, OneSwitch
<1>2. Exclusive((claimed \ stop) \cup start)
  <2>1. \A c \in start : \A d \in (claimed \ stop) \cup start :
          c # d /\ Claim[c].kind = Claim[d].kind => Claim[c].arms \cap Claim[d].arms = {}
    BY DEF SwitchController, Asked
  <2>2. Exclusive(claimed)
    BY DEF Agree, OneSwitch
  <2> QED  BY <2>1, <2>2 DEF Exclusive
<1>3. OneSwitch'
  BY <1>1, <1>2 DEF Agree, OneSwitch, Exclusive, NoRequest
<1>4. \A b \in Arms : Due(b)' = claimed /\ Due(b) = claimed
  <2>1. \A b \in Arms : ~Passed(b)'
    BY <1>1 DEF Passed
  <2> QED  BY <1>1, <2>1 DEF Due, NoRequest, NotPreparing
<1>5. ASSUME NEW b \in Arms \ spoiled'  PROVE ArmAgrees(b)'
  <2>1. Touched(b)' <=> Touched(b)
    BY <1>1 DEF Touched, InHand, NotPreparing
  <2> QED  BY <1>1, <1>4, <1>5, <2>1 DEF Agree, ArmAgrees, KindsOn, Claimers
<1> QED  BY <1>3, <1>5

LEMMA PerformAgrees ==
  Agree /\ Perform => OneSwitch' /\ \A b \in Arms \ spoiled' : ArmAgrees(b)'
<1> SUFFICES ASSUME Agree, Perform
             PROVE  OneSwitch' /\ \A b \in Arms \ spoiled' : ArmAgrees(b)'
  OBVIOUS
<1>1. /\ prepare = NotPreparing /\ prepare.pass = "none" /\ sim = "ready"
      /\ request' = NoRequest
      /\ claimed' = (claimed \ request.stop) \cup request.start
      /\ UNCHANGED <<prepare, spoiled, control_mode_, sim>>
  BY DEF Perform, Agree, Untouched, OneSwitch, Typed, TypeOK
<1>2. \A b \in Arms : Due(b) = claimed' /\ Due(b)' = claimed'
  BY <1>1 DEF Due, NoRequest
<1>3. OneSwitch'
  <2>1. Exclusive(claimed)' /\ Exclusive((claimed \ request.stop) \cup request.start)'
    BY <1>1 DEF Agree, OneSwitch, Exclusive, NoRequest
  <2>2. prepare.list = NoRequest
    BY <1>1 DEF NotPreparing
  <2> QED  BY <1>1, <2>1, <2>2 DEF OneSwitch, Exclusive, NoRequest
<1>4. ASSUME NEW b \in Arms \ spoiled'  PROVE ArmAgrees(b)'
  <2>1. ArmAgrees(b)
    BY <1>1, <1>4 DEF Agree
  <2>2. gain'[b] = IF switch_cm_[b] THEN Group(control_mode_[b]) ELSE gain[b]
    BY DEF Perform, SwitchedGroup
  <2>3. ~switch_cm_[b] => KindsOn(Due(b), b) = KindsOn(claimed, b)
    BY <1>1, <2>1 DEF ArmAgrees, KindsOn, Touched, InHand, NotPreparing
  <2>4. gain'[b] = KindsOn(claimed', b)
    BY <1>1, <1>2, <2>1, <2>2, <2>3 DEF ArmAgrees
  <2> QED  BY <1>1, <1>2, <2>1, <2>4 DEF ArmAgrees, KindsOn, Claimers
<1> QED  BY <1>3, <1>4

LEMMA AgreeKept == Agree /\ [Next]_vars => Agree'
<1> SUFFICES ASSUME Agree, [Next]_vars
             PROVE  OneSwitch' /\ \A b \in Arms \ spoiled' : ArmAgrees(b)'
  BY StepTyped, UntouchedKept DEF Agree, Typed
<1> DEFINE Still == UNCHANGED <<prepare, request, claimed>>
<1>1. Still => OneSwitch' /\ InHand' = InHand /\ \A b \in Arms : Due(b)' = Due(b)
  <2> SUFFICES ASSUME Still
               PROVE  OneSwitch' /\ InHand' = InHand /\ \A b \in Arms : Due(b)' = Due(b)
    OBVIOUS
  <2>1. OneSwitch'
    BY DEF Agree, OneSwitch, Exclusive
  <2>2. \A b \in Arms : Due(b)' = Due(b)
    BY DEF Due, Passed, Here
  <2> QED  BY <2>1, <2>2 DEF InHand, Here
<1>2. CASE initSim
  <2>1. Still /\ UNCHANGED <<spoiled, control_mode_, switch_cm_>> /\ claimed = {}
    BY <1>2 DEF initSim, manager, arms_, Agree, Untouched
  <2>2. sim' = "ready" => \A b \in Arms : gain'[b] = {}
    <3> SUFFICES ASSUME sim' = "ready" PROVE \A b \in Arms : gain'[b] = {}
      OBVIOUS
    <3>1. \A b \in Arms : populateIndices(b) /\ UpTo(b) \subseteq Arms
      BY <1>2, ArmsAreOrdered DEF initSim, UpTo
    <3> QED  BY <1>2, <3>1 DEF initSim
  <2>3. ASSUME NEW b \in Arms \ spoiled'  PROVE ArmAgrees(b)'
    BY <1>1, <2>1, <2>2, <2>3 DEF Agree, ArmAgrees, KindsOn, Claimers, Touched
  <2> QED  BY <1>1, <2>1, <2>3
<1>3. CASE on_activate \/ on_deactivate
  <2>1. Still /\ UNCHANGED <<sim, gain, switch_cm_>>
        /\ control_mode_' = [a \in Arms |-> None]
        /\ spoiled' = spoiled \cup {a \in Arms : control_mode_[a] # None}
    BY <1>3 DEF on_activate, on_deactivate, manager, mujoco
  <2>2. ASSUME NEW b \in Arms \ spoiled'  PROVE ArmAgrees(b)'
    <3>1. control_mode_'[b] = control_mode_[b] /\ b \in Arms \ spoiled
      BY <2>1, <2>2
    <3> QED  BY <1>1, <2>1, <3>1 DEF Agree, ArmAgrees, KindsOn, Claimers, Touched
  <2> QED  BY <1>1, <2>1, <2>2
<1>4. ASSUME NEW start \in SUBSET Controllers, NEW stop \in SUBSET Controllers,
             SwitchController(start, stop)
      PROVE  OneSwitch' /\ \A b \in Arms \ spoiled' : ArmAgrees(b)'
  BY <1>4, SwitchControllerAgrees
<1>5. CASE StopArm \/ StartArm \/ SetMode \/ SetFlag
  BY <1>5, PassAgrees
<1>7. CASE Perform
  BY <1>7, PerformAgrees
<1>8. ASSUME UNCHANGED <<prepare, request, claimed, spoiled, control_mode_, switch_cm_,
                         gain, sim>>
      PROVE  OneSwitch' /\ \A b \in Arms \ spoiled' : ArmAgrees(b)'
  <2>1. ASSUME NEW b \in Arms \ spoiled'  PROVE ArmAgrees(b)'
    BY <1>1, <1>8, <2>1 DEF Agree, ArmAgrees, KindsOn, Claimers, Touched
  <2> QED  BY <1>1, <1>8, <2>1
<1>9. CASE read \/ NoSwitch \/ WriteArm \/ UNCHANGED vars
  BY <1>8, <1>9 DEF read, NoSwitch, WriteArm, vars, arms_, mujoco, manager
<1>10. ASSUME NEW wild \in SUBSET Unstable, Update(wild)
       PROVE  OneSwitch' /\ \A b \in Arms \ spoiled' : ArmAgrees(b)'
  BY <1>8, <1>10 DEF Update, mujoco
<1> QED  BY <1>2, <1>3, <1>4, <1>5, <1>7, <1>9, <1>10 DEF Next

(* Between switches, every arm that no refused request and no lifecycle    *)
(* transition has touched is driven by the actuators of the controllers    *)
(* that claim it, for any arms, claims and requests, although the passes   *)
(* of prepare_command_mode_switch run arm by arm beside the cycle.         *)
THEOREM ActuatorsFollowClaims == Spec => []ActuatorsMatchClaims
<1>1. Agree => ActuatorsMatchClaims
  <2> SUFFICES ASSUME Agree, Settled, NEW a \in Arms \ spoiled
               PROVE  gain[a] = {Claim[c].kind : c \in {c \in claimed : a \in Claim[c].arms}}
    BY DEF ActuatorsMatchClaims
  <2> QED  BY DEF Agree, ArmAgrees, Settled, KindsOn, Claimers
<1> QED  BY <1>1, InitAgrees, AgreeKept, PTL DEF Spec

-----------------------------------------------------------------------------
(* The commands                                                            *)

(* Between the controllers' update and the end of the write, the command   *)
(* of whoever was updated lies ready for its arms, unless a pass stops it  *)
(* and has come to the arm.                                                *)
Ready(c, a) ==
  \/ hw_commands[a][Claim[c].kind].by = c
  \/ Touched(a) /\ c \in Stopping

CommandsReady ==
  /\ computed \subseteq claimed
  /\ rt.do \in {"switch", "write"} =>
       \A c \in computed : \A a \in Claim[c].arms \ spoiled : Ready(c, a)

(* A step that leaves the commands alone.                                  *)
LEMMA ReadyKept ==
  ASSUME TypeOK, CommandsReady, UNCHANGED <<hw_commands, claimed, computed, rt, spoiled>>,
         Stopping \subseteq Stopping', \A a \in Arms : Touched(a) => Touched(a)'
  PROVE  CommandsReady'
<1>1. \A c \in computed : Claim[c].arms \subseteq Arms
  BY ClaimAssumption DEF CommandsReady, TypeOK
<1> QED  BY <1>1 DEF CommandsReady, Ready

(* Refused requests spoil the arms that are marked.                        *)
LEMMA RefuseReady ==
  ASSUME CommandsReady, TypeOK, Refuse, prepare.at = "check",
         UNCHANGED <<claimed, computed, rt, hw_commands>>
  PROVE  CommandsReady'
<1>1. ASSUME rt.do \in {"switch", "write"},
             NEW c \in computed, NEW a \in Claim[c].arms \ spoiled', a \in Arms
      PROVE  Ready(c, a)'
  <2>1. ~Touched(a) /\ a \notin spoiled
    BY <1>1 DEF Refuse, Touched, InHand
  <2> QED  BY <1>1, <2>1 DEF CommandsReady, Ready
<1>2. \A c \in computed : Claim[c].arms \subseteq Arms
  BY ClaimAssumption DEF CommandsReady, TypeOK
<1> QED  BY <1>1, <1>2 DEF CommandsReady

(* A stop resets the commands of what it stops only: two controllers of    *)
(* one kind do not share an arm.                                           *)
LEMMA ResetReady ==
  ASSUME Agree, CommandsReady, StopArm, Goto("mode"),
         Concerns(prepare.list.stop, Here), Valid(prepare.list.stop, Here),
         hw_commands' = Zeroed(prepare.list.stop, Here)
  PROVE  CommandsReady'
<1> DEFINE stop == prepare.list.stop
<1>1. /\ TypeOK /\ OneSwitch /\ prepare.pass # "none" /\ Here \in Arms /\ InHand = {}
      /\ stop \subseteq claimed /\ claimed \subseteq Controllers /\ Exclusive(claimed)
      /\ UNCHANGED <<claimed, computed, rt, switch_cm_>>
  BY HereIsAnArm DEF Agree, Typed, TypeOK, OneSwitch, StopArm, At, InHand
<1>2. InHand' = {Here} /\ spoiled' = spoiled /\ Stopping' = Stopping
  BY <1>1, GotoKeeps, GotoTyped
<1> SUFFICES ASSUME rt.do \in {"switch", "write"}, NEW c \in computed,
                    NEW a \in Claim[c].arms \ spoiled
             PROVE  Ready(c, a)'
  BY <1>1, <1>2 DEF CommandsReady
<1>3. c \in claimed /\ c \in Controllers /\ a \in Arms /\ Claim[c].kind \in Kinds
  BY <1>1, ClaimAssumption DEF CommandsReady
<1>4. Ready(c, a)
  BY DEF CommandsReady
<1>5. CASE a # Here \/ Claim[c].kind # KindOf(stop)
  <2>1. hw_commands'[a][Claim[c].kind] = hw_commands[a][Claim[c].kind]
    BY <1>1, <1>3, <1>5 DEF Zeroed, TypeOK
  <2> QED  BY <1>1, <1>2, <1>4, <2>1 DEF Ready, Touched
<1>6. CASE a = Here /\ Claim[c].kind = KindOf(stop)
  <2>1. PICK e \in stop : a \in Claim[e].arms
    BY <1>6 DEF Concerns
  <2>2. Claim[e].kind = KindOf(stop)
    BY <1>1, <2>1, KindOfList DEF Valid
  <2>3. c = e
    BY <1>1, <1>3, <1>6, <2>1, <2>2 DEF Exclusive
  <2> QED  BY <1>2, <1>6, <2>1, <2>3 DEF Ready, Stopping, Touched
<1> QED  BY <1>5, <1>6

LEMMA PassReady ==
  ASSUME Agree, CommandsReady, StopArm \/ StartArm \/ SetMode \/ SetFlag
  PROVE  CommandsReady'
<1>1. /\ TypeOK /\ OneSwitch /\ Here \in Arms /\ prepare.pass # "none"
      /\ prepare.at = "check" => InHand = {}
      /\ prepare.at # "check" => InHand = {Here}
      /\ UNCHANGED <<computed, claimed, rt>>
  BY HereIsAnArm
  DEF StopArm, StartArm, SetMode, SetFlag, At, Agree, Typed, OneSwitch, InHand, TypeOK
<1>2. CASE (StopArm \/ StartArm) /\ Refuse /\ UNCHANGED hw_commands
  BY <1>1, <1>2, RefuseReady DEF StopArm, StartArm, At
<1>3. CASE NextArm /\ UNCHANGED hw_commands /\ (\A b \in Arms : Touched(b) => switch_cm_'[b])
  <2>1. Stopping' = Stopping /\ spoiled' = spoiled
    BY <1>1, <1>3, PassKeepsOneSwitch
  <2>2. \A b \in Arms : Touched(b) => Touched(b)'
    BY <1>3 DEF Touched
  <2> QED  BY <1>1, <1>3, <2>1, <2>2, ReadyKept
<1>4. CASE (StopArm \/ StartArm) /\ NextArm /\ UNCHANGED hw_commands
  BY <1>1, <1>3, <1>4 DEF StopArm, StartArm, At, arms_, Touched
<1>5. CASE (StartArm \/ SetMode) /\ (Goto("mode") \/ Goto("flag")) /\ UNCHANGED hw_commands
  <2>1. InHand' = {Here} /\ Stopping' = Stopping /\ UNCHANGED <<switch_cm_, spoiled>>
    BY <1>1, <1>5, GotoKeeps, GotoTyped DEF StartArm, SetMode, arms_
  <2>2. \A b \in Arms : Touched(b) => Touched(b)'
    BY <1>1, <2>1 DEF Touched
  <2> QED  BY <1>1, <1>5, <2>1, <2>2, ReadyKept
<1>6. CASE SetFlag
  <2>1. \A b \in Arms : Touched(b) => switch_cm_'[b]
    BY <1>1, <1>6 DEF SetFlag, Touched, TypeOK
  <2> QED  BY <1>3, <1>6, <2>1 DEF SetFlag
<1>7. CASE /\ StopArm /\ Concerns(prepare.list.stop, Here) /\ Valid(prepare.list.stop, Here)
           /\ hw_commands' = Zeroed(prepare.list.stop, Here) /\ Goto("mode")
  BY <1>7, ResetReady
<1> QED  BY <1>2, <1>4, <1>5, <1>6, <1>7 DEF StopArm, StartArm, SetMode, arms_

(* on_activate resets efforts: of an arm without a mode only where the     *)
(* controller is about to be stopped, and the others it spoils.            *)
LEMMA ActivateReady == Agree /\ CommandsReady /\ on_activate => CommandsReady'
<1> SUFFICES ASSUME Agree, CommandsReady, on_activate PROVE CommandsReady'
  OBVIOUS
<1>1. /\ TypeOK /\ prepare.pass = "none" /\ InHand = {}
      /\ UNCHANGED <<manager, rt, switch_cm_>>
  BY DEF Agree, Typed, on_activate, OneSwitch, InHand, NotPreparing
<1>2. Stopping' = Stopping /\ InHand' = {}
  BY <1>1 DEF Stopping, manager, InHand
<1>3. ASSUME rt.do \in {"switch", "write"},
             NEW c \in computed, NEW a \in Claim[c].arms \ spoiled'
      PROVE  Ready(c, a)'
  <2>1. c \in claimed /\ c \in Controllers /\ a \in Arms /\ Claim[c].kind \in Kinds
    BY <1>1, ClaimAssumption DEF CommandsReady, TypeOK
  <2>2. control_mode_[a] = None /\ a \in Arms \ spoiled
    BY <2>1, <1>3 DEF on_activate
  <2>3. KindsOn(Due(a), a) = {} /\ (~switch_cm_[a] => Claimers(Due(a), a) = Claimers(claimed, a))
    BY <1>1, <2>2 DEF Agree, ArmAgrees, Group, Touched
  <2>4. c \in Claimers(claimed, a) /\ c \notin Claimers(Due(a), a)
    BY <1>3, <2>1, <2>3 DEF Claimers, KindsOn
  <2>5. Due(a) = (claimed \ request.stop) \cup request.start
    BY <1>1 DEF Due
  <2>6. switch_cm_[a] /\ c \in request.stop
    BY <1>3, <2>1, <2>3, <2>4, <2>5 DEF Claimers
  <2> QED  BY <1>1, <1>2, <2>6 DEF Ready, Stopping, Touched
<1> QED  BY <1>1, <1>3 DEF CommandsReady, manager

(* Perform takes the stopped controllers out and the marks off.            *)
LEMMA PerformReady == Agree /\ CommandsReady /\ Perform => CommandsReady'
<1> SUFFICES ASSUME Agree, CommandsReady, Perform PROVE CommandsReady'
  OBVIOUS
<1>1. prepare.list = NoRequest
  BY DEF Agree, OneSwitch, Perform, Typed, TypeOK, NotPreparing
<1>2. Stopping = request.stop
  BY <1>1 DEF Stopping, NoRequest
<1>3. \A c \in computed \ request.stop : \A a \in Claim[c].arms \ spoiled :
        hw_commands[a][Claim[c].kind].by = c
  BY <1>2 DEF CommandsReady, Ready, Perform
<1>4. computed' \subseteq claimed'
  BY DEF Perform, CommandsReady
<1> QED  BY <1>3, <1>4 DEF Perform, CommandsReady, Ready

LEMMA UpdateReady ==
  ASSUME Agree, CommandsReady, NEW wild \in SUBSET Unstable, Update(wild)
  PROVE  CommandsReady'
<1>1. ASSUME NEW c \in claimed, NEW a \in Claim[c].arms
      PROVE  hw_commands'[a][Claim[c].kind].by = c
  <2>1. a \in Arms /\ Claim[c].kind \in Kinds /\ Exclusive(claimed)
    BY ClaimAssumption DEF Agree, Typed, TypeOK, OneSwitch
  <2>2. Authors(a, Claim[c].kind) = {c}
    BY <1>1, <2>1 DEF Authors, Exclusive
  <2>3. (CHOOSE d \in Authors(a, Claim[c].kind) : TRUE) = c
    BY <2>2
  <2> QED  BY <2>1, <2>2, <2>3 DEF Update
<1> QED  BY <1>1 DEF Update, CommandsReady, Ready

LEMMA CommandsReadyKept ==
  Agree /\ CommandsReady /\ [Next]_vars => CommandsReady'
<1> SUFFICES ASSUME Agree, CommandsReady, [Next]_vars PROVE CommandsReady'
  OBVIOUS
<1> USE DEF Agree, Typed
<1>0. ASSUME UNCHANGED <<hw_commands, switch_cm_, manager, rt, spoiled>>
      PROVE  CommandsReady'
  BY <1>0, ReadyKept DEF manager, Stopping, Touched, InHand, Here
<1>1. CASE initSim
  BY <1>0, <1>1 DEF initSim, arms_
<1>2. CASE on_deactivate
  BY <1>2 DEF on_deactivate, manager, CommandsReady, Ready, Stopping, Touched, InHand, Here
<1>3. CASE on_activate
  BY <1>3, ActivateReady
<1>4. ASSUME NEW start \in SUBSET Controllers, NEW stop \in SUBSET Controllers,
             SwitchController(start, stop)
      PROVE  CommandsReady'
  <2>1. Stopping = {}
    BY <1>4 DEF SwitchController, OneSwitch, Stopping, NoRequest, NotPreparing
  <2>2. InHand = {} /\ InHand' = {}
    BY <1>4 DEF SwitchController, OneSwitch, NotPreparing, InHand
  <2> QED  BY <1>4, <2>1, <2>2, ReadyKept DEF SwitchController, arms_, Touched
<1>5. CASE StopArm \/ StartArm \/ SetMode \/ SetFlag
  BY <1>5, PassReady
<1>6. CASE read
  BY <1>6 DEF read, CommandsReady, Cycle
<1>7. CASE Perform
  BY <1>7, PerformReady
<1>8. CASE NoSwitch
  BY <1>8 DEF NoSwitch, CommandsReady, Ready, Stopping, arms_, manager, Cycle, Touched,
     InHand, Here
<1>9. CASE WriteArm
  BY <1>9 DEF WriteArm, CommandsReady, Ready, Stopping, arms_, manager, Touched, InHand, Here
<1>10. ASSUME NEW wild \in SUBSET Unstable, Update(wild)  PROVE CommandsReady'
  BY <1>10, UpdateReady
<1>11. CASE UNCHANGED vars
  BY <1>0, <1>11 DEF vars, arms_
<1> QED  BY <1>1, <1>2, <1>3, <1>4, <1>5, <1>6, <1>7, <1>8, <1>9, <1>10, <1>11 DEF Next

(* What an active controller has computed in a cycle is what the actuators *)
(* of its arm get in that cycle, for any arms, claims and requests: a      *)
(* switch that is prepared meanwhile, arm by arm, resets nobody's command  *)
(* but those of what it stops.                                             *)
THEOREM ComputedCommandsReachActuators == Spec => CommandsReachActuators
<1>1. Init => CommandsReady
  BY DEF Init, CommandsReady, Cycle
<1> DEFINE Reach ==
      \A c \in claimed \cap computed : \A a \in Claim[c].arms \ spoiled :
        rt.do = "write" /\ Order[rt.i] = a /\ ~Touched(a) /\ FiniteArm(a)
        /\ rt' # rt =>
          ctrl'[a][Claim[c].kind] = [by |-> c, finite |-> TRUE]
<1>2. Agree /\ CommandsReady /\ [Next]_vars => [Reach]_vars
  <2> SUFFICES ASSUME Agree, CommandsReady, [Next]_vars,
                      NEW c \in claimed \cap computed, NEW a \in Claim[c].arms \ spoiled,
                      rt.do = "write", Order[rt.i] = a, ~Touched(a), FiniteArm(a),
                      rt' # rt
               PROVE  ctrl'[a][Claim[c].kind] = [by |-> c, finite |-> TRUE]
    OBVIOUS
  <2>1. WriteArm
    BY DEF Next, vars, initSim, on_activate, on_deactivate, SwitchController,
       StopArm, StartArm, SetMode, SetFlag, read, Perform, NoSwitch, Update
  <2>2. c \in Controllers /\ a \in Arms /\ Claim[c].kind \in Kinds /\ TypeOK
    BY ClaimAssumption DEF Agree, Typed, TypeOK
  <2>3. ctrl'[a] = WrittenTo(a)
    BY <2>1, <2>2 DEF WriteArm, TypeOK
  <2>4. Claim[c].kind \in Group(control_mode_[a])
    <3>1. Claimers(Due(a), a) = Claimers(claimed, a) /\ Group(control_mode_[a]) = KindsOn(Due(a), a)
      BY <2>2 DEF Agree, ArmAgrees
    <3> QED  BY <3>1 DEF Claimers, KindsOn
  <2>5. control_mode_[a] # None /\ Kind(control_mode_[a]) = Claim[c].kind
    BY <2>4 DEF Group
  <2>6. ctrl'[a][Claim[c].kind] = hw_commands[a][Claim[c].kind]
    BY <2>2, <2>3, <2>5 DEF WrittenTo, TypeOK
  <2>7. hw_commands[a][Claim[c].kind].by = c /\ hw_commands[a][Claim[c].kind].finite
    BY <2>2 DEF CommandsReady, Ready, FiniteArm
  <2>8. hw_commands[a][Claim[c].kind] \in Values
    BY <2>2 DEF TypeOK
  <2> QED  BY <2>6, <2>7, <2>8 DEF Values
<1> QED
  BY <1>1, <1>2, InitAgrees, AgreeKept, CommandsReadyKept, PTL
  DEF Spec, CommandsReachActuators

=============================================================================
