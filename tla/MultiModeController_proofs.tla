---------------------- MODULE MultiModeController_proofs ----------------------
(***************************************************************************)
(* For every set of arms and controllets: the multi-mode controller hands  *)
(* arms over as ArmOwners promises, every update writes every arm once,    *)
(* and update() never sees a half-done switch if activations and service   *)
(* calls do not overlap.                                                   *)
(***************************************************************************)
EXTENDS MultiModeController, TLAPS

LEMMA BufferTyped ==
  ASSUME NEW T, NEW b \in Buffered(T), NEW v \in T
  PROVE  SetBuffer(b, v) \in Buffered(T) /\ Update(b) \in Buffered(T)
BY DEF Buffered, SetBuffer, Update

LEMMA AgedTyped ==
  ASSUME NEW b \in Buffered(Poses)
  PROVE  Aged(b) \in Buffered(Poses)
<1>1. "old" \in Poses
  BY DEF Poses
<1> QED BY <1>1 DEF Buffered, Aged

LEMMA StartTyped ==
  ASSUME TypeOK, NEW set \in SUBSET Controllets, Start(set)
  PROVE  /\ desired_' \in [Controllets -> Buffered(Poses)]
         /\ started' \subseteq Controllets /\ listening' \subseteq Controllets
<1>1. \A c \in Controllets : Update(SetBuffer(desired_[c], "pose")) \in Buffered(Poses)
  <2> TAKE c \in Controllets
  <2>1. desired_[c] \in Buffered(Poses) /\ "pose" \in Poses
    BY DEF TypeOK, Poses
  <2>2. SetBuffer(desired_[c], "pose") \in Buffered(Poses)
    BY <2>1, BufferTyped
  <2> QED BY <2>1, <2>2, BufferTyped
<1> QED BY <1>1 DEF Start, TypeOK

LEMMA AgingTyped ==
  ASSUME TypeOK, NEW set
  PROVE  [c \in Controllets |-> IF c \in set THEN Aged(desired_[c])
                                ELSE desired_[c]]
           \in [Controllets -> Buffered(Poses)]
BY AgedTyped DEF TypeOK

LEMMA InitTyped == Init => TypeOK
<1> SUFFICES ASSUME Init PROVE TypeOK OBVIOUS
<1>1. desired_ \in [Controllets -> Buffered(Poses)]
  BY DEF Init, Buffered, Poses
<1>2. p_ \in [Controllets -> Buffered(Parameters)]
  BY DEF Init, Buffered, Parameters
<1> QED BY <1>1, <1>2, StartAssumption DEF Init, TypeOK

LEMMA StepTyped == TypeOK /\ [Next]_vars => TypeOK'
<1> SUFFICES ASSUME TypeOK, [Next]_vars PROVE TypeOK' OBVIOUS
<1>1. ASSUME NEW request \in SUBSET Controllets, SetRequest(request)
      PROVE  TypeOK'
  BY <1>1 DEF SetRequest, Retained, TypeOK, rtVars
<1>2. CASE SetControllers
  <2>1. CASE SetLock   BY <2>1 DEF SetLock, TypeOK, rtVars
  <2>2. CASE SetStop
    <3>1. desired_' \in [Controllets -> Buffered(Poses)]
      BY <2>2, AgingTyped DEF SetStop, Stop
    <3> QED BY <2>2, <3>1 DEF SetStop, Stop, TypeOK, rtVars
  <2>3. CASE SetAssign BY <2>3 DEF SetAssign, TypeOK, rtVars
  <2>4. CASE SetStart
    <3>1. active_control_set_ \in SUBSET Controllets
      BY DEF TypeOK
    <3>2. /\ desired_' \in [Controllets -> Buffered(Poses)]
          /\ started' \subseteq Controllets /\ listening' \subseteq Controllets
      BY <2>4, <3>1, StartTyped DEF SetStart
    <3> QED BY <2>4, <3>2 DEF SetStart, TypeOK, rtVars
  <2> QED BY <1>2, <2>1, <2>2, <2>3, <2>4 DEF SetControllers
<1>3. ASSUME NEW c \in Commanded, DesiredPose(c) \/ SetParameters(c)
      PROVE  TypeOK'
  <2> c \in Controllets
    BY CommandedAssumption
  <2>1. CASE DesiredPose(c)
    <3>1. \A v \in {"goal", "old"} : SetBuffer(desired_[c], v) \in Buffered(Poses)
      BY BufferTyped DEF TypeOK, Poses
    <3>2. desired_' \in [Controllets -> Buffered(Poses)]
      BY <2>1, <3>1 DEF DesiredPose, TypeOK
    <3> QED BY <2>1, <3>2 DEF DesiredPose, TypeOK, rtVars, svcVars
  <2>2. CASE SetParameters(c)
    <3>1. SetBuffer(p_[c], "custom") \in Buffered(Parameters)
      BY BufferTyped DEF TypeOK, Parameters
    <3>2. p_' \in [Controllets -> Buffered(Parameters)]
      BY <2>2, <3>1 DEF SetParameters, TypeOK
    <3> QED BY <2>2, <3>2 DEF SetParameters, TypeOK, rtVars, svcVars
  <2> QED BY <1>3, <2>1, <2>2
<1>4. CASE RealTime
  <2>1. CASE UpdateState \/ UpdateLock \/ UpdateWrite \/ Activated
    BY <2>1 DEF UpdateState, UpdateLock, UpdateWrite, Activated, TypeOK, svcVars
  <2>2. ASSUME NEW c \in Controllets, ComputeTau(c)
        PROVE  TypeOK'
    <3>1. /\ Update(p_[c]) \in Buffered(Parameters)
          /\ TakeGoal(desired_[c]) \in Buffered(Poses)
      BY BufferTyped DEF TypeOK, TakeGoal, Parameters, Poses
    <3>2. /\ p_' \in [Controllets -> Buffered(Parameters)]
          /\ desired_' \in [Controllets -> Buffered(Poses)]
      BY <2>2, <3>1 DEF ComputeTau, TypeOK
    <3>3. Resource[c] \subseteq Arms
      BY ResourceAssumption
    <3> QED BY <2>2, <3>2, <3>3 DEF ComputeTau, TypeOK, svcVars
  <2>3. ASSUME NEW c \in Controllets, ActivateStart(c)
        PROVE  TypeOK'
    <3>1. /\ desired_' \in [Controllets -> Buffered(Poses)]
          /\ started' \subseteq Controllets /\ listening' \subseteq Controllets
      BY <2>3, StartTyped DEF ActivateStart
    <3> QED BY <2>3, <3>1 DEF ActivateStart, TypeOK, svcVars
  <2> QED BY <1>4, <2>1, <2>2, <2>3 DEF RealTime
<1>5. CASE Activate
  BY <1>5 DEF Activate, TypeOK, svcVars
<1>6. CASE Deactivate
  <2>1. desired_' \in [Controllets -> Buffered(Poses)]
    BY <1>6, AgedTyped DEF Deactivate, TypeOK
  <2> QED BY <1>6, <2>1 DEF Deactivate, TypeOK, svcVars
<1>7. CASE UNCHANGED vars
  BY <1>7 DEF vars, rtVars, svcVars, TypeOK
<1> QED BY <1>1, <1>2, <1>3, <1>4, <1>5, <1>6, <1>7 DEF Next

(* The sets, buffers and labels stay within their types, and the lock is   *)
(* held by update() while it computes and by a switch from its first stop  *)
(* to its last start, by nobody else.                                      *)
THEOREM TypeCorrect == Safety => []TypeOK
BY InitTyped, StepTyped, PTL DEF Safety

-----------------------------------------------------------------------------
(* Both the active set and the set about to replace it drive every arm     *)
(* once, and update() has visited exactly the controllets not in todo.     *)
Driven ==
  /\ ExactCover(active_control_set_)
  /\ svc # "idle" => ExactCover(new_control_set)
  /\ rt = "lock" => written = {}
  /\ rt = "compute" =>
       /\ todo \subseteq active_control_set_
       /\ \A a \in Arms : \A c \in Controllets :
            <<a, c>> \in written <=>
              c \in active_control_set_ \ todo /\ a \in Resource[c]

(* A step that leaves the sets and the update alone.                       *)
LEMMA DrivenFrame ==
  ASSUME Driven,
         UNCHANGED <<active_control_set_, new_control_set, svc, rt, todo, written>>
  PROVE  Driven'
BY DEF Driven, ExactCover

LEMMA StepDriven == TypeOK /\ Driven /\ [Next]_vars => Driven'
<1> SUFFICES ASSUME TypeOK, Driven, [Next]_vars PROVE Driven' OBVIOUS
<1>1. ASSUME NEW request \in SUBSET Controllets, SetRequest(request)
      PROVE  Driven'
  <2>1. ExactCover(new_control_set)'
    BY <1>1 DEF SetRequest, UsageIsOne, ExactCover
  <2>2. UNCHANGED <<active_control_set_, rt, todo, written>>
    BY <1>1 DEF SetRequest, rtVars
  <2> QED BY <2>1, <2>2 DEF Driven, ExactCover
<1>2. CASE SetControllers
  <2>1. CASE SetLock
    BY <1>2, <2>1 DEF SetLock, Driven, ExactCover, rtVars
  <2>2. CASE SetStop
    BY <1>2, <2>2 DEF SetStop, Driven, ExactCover, rtVars
  <2>3. CASE SetAssign
    <3>1. rt # "compute"
      BY <2>3 DEF SetAssign, TypeOK
    <3>2. ExactCover(active_control_set_)' /\ ExactCover(new_control_set)'
      BY <2>3 DEF SetAssign, Driven, ExactCover
    <3> QED BY <2>3, <3>1, <3>2 DEF SetAssign, Driven, rtVars
  <2>4. CASE SetStart
    BY <1>2, <2>4 DEF SetStart, Driven, ExactCover, rtVars
  <2> QED BY <1>2, <2>1, <2>2, <2>3, <2>4 DEF SetControllers
<1>3. ASSUME NEW c \in Commanded, DesiredPose(c) \/ SetParameters(c)
      PROVE  Driven'
  BY <1>3, DrivenFrame DEF DesiredPose, SetParameters, rtVars, svcVars
<1>4. CASE RealTime
  <2>1. CASE UpdateState
    BY <2>1 DEF UpdateState, Driven, ExactCover, svcVars
  <2>2. CASE UpdateLock
    BY <2>2 DEF UpdateLock, Driven, ExactCover, svcVars
  <2>3. CASE UpdateWrite \/ Activated
    BY <2>3 DEF UpdateWrite, Activated, Driven, ExactCover, svcVars
  <2>4. ASSUME NEW c \in Controllets, ComputeTau(c)
        PROVE  Driven'
    <3>1. rt = "compute" /\ c \in todo /\ c \in active_control_set_
      BY <2>4 DEF ComputeTau, Driven
    <3>2. /\ UNCHANGED <<active_control_set_, new_control_set, svc, rt>>
          /\ todo' = todo \ {c} /\ written' = written \cup (Resource[c] \X {c})
      BY <2>4 DEF ComputeTau, svcVars
    <3>3. ASSUME NEW a \in Arms, NEW d \in Controllets
          PROVE  <<a, d>> \in written' <=>
                   d \in active_control_set_' \ todo' /\ a \in Resource[d]
      <4>1. <<a, d>> \in Resource[c] \X {c} <=> d = c /\ a \in Resource[c]
        OBVIOUS
      <4>2. <<a, d>> \in written <=>
              d \in active_control_set_ \ todo /\ a \in Resource[d]
        BY <3>1 DEF Driven
      <4> QED BY <3>1, <3>2, <4>1, <4>2
    <3> QED BY <3>1, <3>2, <3>3 DEF Driven, ExactCover
  <2>5. ASSUME NEW c \in Controllets, ActivateStart(c)
        PROVE  Driven'
    BY <2>5 DEF ActivateStart, Driven, ExactCover, svcVars
  <2> QED BY <1>4, <2>1, <2>2, <2>3, <2>4, <2>5 DEF RealTime
<1>5. CASE Activate \/ Deactivate
  BY <1>5 DEF Activate, Deactivate, Driven, ExactCover, svcVars
<1>6. CASE UNCHANGED vars
  BY <1>6, DrivenFrame DEF vars, rtVars, svcVars
<1> QED BY <1>1, <1>2, <1>3, <1>4, <1>5, <1>6 DEF Next

(* The command interfaces get, for every arm, torques that exactly one     *)
(* controllet computed in the same update, whatever set_controllers does   *)
(* meanwhile.                                                              *)
THEOREM ArmsWrittenOnce == Safety => []EveryArmWrittenOnce
<1>1. Init => Driven
  BY StartAssumption DEF Init, Driven
<1>2. TypeOK /\ Driven => EveryArmWrittenOnce
  <2> SUFFICES ASSUME TypeOK, Driven, rt = "compute", todo = {}, NEW a \in Arms
               PROVE  \E c \in Controllets :
                        /\ <<a, c>> \in written
                        /\ \A d \in Controllets : <<a, d>> \in written => d = c
    BY DEF EveryArmWrittenOnce
  <2>1. PICK c \in active_control_set_ :
          /\ a \in Resource[c]
          /\ \A d \in active_control_set_ : a \in Resource[d] => d = c
    BY DEF Driven, ExactCover
  <2>2. c \in Controllets
    BY DEF TypeOK
  <2> QED BY <2>1, <2>2 DEF Driven
<1> QED BY <1>1, <1>2, InitTyped, StepTyped, StepDriven, PTL DEF Safety

-----------------------------------------------------------------------------
(* Without overlap, the active set is started from the moment an           *)
(* activation ends, except between the stops and the starts of a switch.   *)
Running ==
  /\ rt \in {"lock", "compute"} => lifecycle = "active"
  /\ rt = "start" =>
       svc = "idle" /\ lifecycle = "inactive" /\ active_control_set_ \ todo \subseteq started
  /\ lifecycle = "active" /\ svc \notin {"assign", "start"} =>
       active_control_set_ \subseteq started

LEMMA StepRunning ==
  ASSUME ~Overlap, TypeOK, Running, [Next]_vars
  PROVE  Running'
<1> USE DEF Running, rtVars, svcVars
<1>1. ASSUME NEW request \in SUBSET Controllets, SetRequest(request)
      PROVE  Running'
  BY <1>1 DEF SetRequest
<1>2. CASE SetControllers
  BY <1>2 DEF SetControllers, SetLock, SetStop, SetAssign, SetStart, Start
<1>3. ASSUME NEW c \in Commanded, DesiredPose(c) \/ SetParameters(c)
      PROVE  Running'
  BY <1>3 DEF DesiredPose, SetParameters
<1>4. CASE RealTime
  <2>1. CASE UpdateState \/ UpdateLock \/ UpdateWrite \/ Activated
    BY <2>1 DEF UpdateState, UpdateLock, UpdateWrite, Activated
  <2>2. ASSUME NEW c \in Controllets, ComputeTau(c)
        PROVE  Running'
    BY <2>2 DEF ComputeTau
  <2>3. ASSUME NEW c \in Controllets, ActivateStart(c)
        PROVE  Running'
    BY <2>3 DEF ActivateStart, Start
  <2> QED BY <1>4, <2>1, <2>2, <2>3 DEF RealTime
<1>5. CASE Activate \/ Deactivate
  BY <1>5 DEF Activate, Deactivate
<1>6. CASE UNCHANGED vars
  BY <1>6 DEF vars
<1> QED BY <1>1, <1>2, <1>3, <1>4, <1>5, <1>6 DEF Next

(* If service calls and activations do not overlap, update() only ever     *)
(* computes with controllets that have been started: control_mtx_ hides    *)
(* every intermediate state of a switch.                                   *)
THEOREM SwitchIsAtomic ==
  ASSUME ~Overlap
  PROVE  Safety => []NeverHalfSwitched
<1>1. Init => Running
  BY DEF Init, Running
<1>2. TypeOK /\ Running => NeverHalfSwitched
  BY DEF TypeOK, Running, NeverHalfSwitched
<1>3. TypeOK /\ Running /\ [Next]_vars => Running'
  BY StepRunning
<1> QED BY <1>1, <1>2, <1>3, InitTyped, StepTyped, PTL DEF Safety

-----------------------------------------------------------------------------
(* What has been started is active, except in the middle of a switch, when *)
(* nothing is; an activation only starts what is active.                   *)
Matched ==
  /\ rt = "start" => todo \subseteq active_control_set_
  /\ svc \in {"assign", "start"} => started = {}
  /\ svc \notin {"assign", "start"} => started \subseteq active_control_set_

LEMMA StepMatched ==
  ASSUME ~Overlap, TypeOK, Running, Matched, [Next]_vars
  PROVE  Matched'
<1> USE DEF Matched, rtVars, svcVars
<1>1. ASSUME NEW request \in SUBSET Controllets, SetRequest(request)
      PROVE  Matched'
  BY <1>1 DEF SetRequest
<1>2. CASE SetControllers
  <2>1. rt # "start"
    BY <1>2 DEF SetControllers, SetLock, SetStop, SetAssign, SetStart, Running
  <2> QED
    BY <1>2, <2>1 DEF SetControllers, SetLock, SetStop, SetAssign, SetStart, Start, Stop
<1>3. ASSUME NEW c \in Commanded, DesiredPose(c) \/ SetParameters(c)
      PROVE  Matched'
  BY <1>3 DEF DesiredPose, SetParameters
<1>4. CASE RealTime
  <2>1. CASE UpdateState \/ UpdateLock \/ UpdateWrite \/ Activated
    BY <2>1 DEF UpdateState, UpdateLock, UpdateWrite, Activated
  <2>2. ASSUME NEW c \in Controllets, ComputeTau(c)
        PROVE  Matched'
    BY <2>2 DEF ComputeTau
  <2>3. ASSUME NEW c \in Controllets, ActivateStart(c)
        PROVE  Matched'
    <3>1. svc = "idle" /\ c \in active_control_set_
      BY <2>3 DEF ActivateStart, Running
    <3> QED BY <2>3, <3>1 DEF ActivateStart, Start
  <2> QED BY <1>4, <2>1, <2>2, <2>3 DEF RealTime
<1>5. CASE Activate \/ Deactivate
  BY <1>5 DEF Activate, Deactivate
<1>6. CASE UNCHANGED vars
  BY <1>6 DEF vars
<1> QED BY <1>1, <1>2, <1>3, <1>4, <1>5, <1>6 DEF Next

(* Without overlap, what runs between two calls is what get_controllers    *)
(* reports: no controllet that was unloaded is left running and none that  *)
(* is active was left unstarted.                                           *)
THEOREM ActiveOnesRun ==
  ASSUME ~Overlap
  PROVE  Safety => []StartedAreActive
<1> DEFINE IInv == TypeOK /\ Running /\ Matched
<1>1. Init => IInv
  BY InitTyped DEF Init, Running, Matched
<1>2. IInv /\ [Next]_vars => IInv'
  BY StepTyped, StepRunning, StepMatched
<1>3. IInv => StartedAreActive
  BY DEF Running, Matched, StartedAreActive
<1> QED BY <1>1, <1>2, <1>3, PTL DEF Safety

(* Both together: without overlap a switch is atomic for update() and for  *)
(* whoever looks between two calls.                                        *)
THEOREM SwitchesHappenAtOnce ==
  ASSUME ~Overlap
  PROVE  Safety => []SwitchesAreAtomic
<1>1. NeverHalfSwitched /\ StartedAreActive => SwitchesAreAtomic
  BY DEF SwitchesAreAtomic
<1> QED BY <1>1, SwitchIsAtomic, ActiveOnesRun, PTL

-----------------------------------------------------------------------------
(* A controllet in its run holds no goal from before, neither as what it   *)
(* pursues nor in the buffer it takes its next goal from.                  *)
New(b) == b.content # "old" /\ b.buf # "old"
Fresh == \A c \in Controllets : InRun(c) => New(desired_[c])

LEMMA BufferNew ==
  ASSUME NEW b \in Buffered(Poses)
  PROVE  /\ New(b) => New(SetBuffer(b, "goal")) /\ New(Update(b))
         /\ New(Update(SetBuffer(b, "pose")))
BY DEF Buffered, SetBuffer, Update, New

LEMMA StepFresh ==
  ASSUME TypeOK, Matched, Fresh, [Next]_vars
  PROVE  Fresh'
<1> SUFFICES ASSUME NEW c \in Controllets, InRun(c)'
             PROVE  New(desired_[c])'
  BY DEF Fresh
<1> USE DEF rtVars, svcVars
<1>a. desired_[c] \in Buffered(Poses)
  BY DEF TypeOK
<1>b. InRun(c) => New(desired_[c])
  BY DEF Fresh
<1>c. CASE UNCHANGED <<desired_, started, rt, todo, lifecycle>>
  BY <1>b, <1>c DEF InRun, New
<1>1. ASSUME NEW request \in SUBSET Controllets, SetRequest(request)
      PROVE  New(desired_[c])'
  BY <1>1, <1>c DEF SetRequest
<1>2. CASE SetControllers
  <2>1. CASE SetLock \/ SetAssign
    BY <2>1, <1>c DEF SetLock, SetAssign
  <2>2. CASE SetStop
    <3>1. c \notin active_control_set_ /\ InRun(c)
      BY <2>2 DEF SetStop, Stop, InRun
    <3>2. desired_'[c] = desired_[c]
      BY <2>2, <3>1 DEF SetStop, Stop
    <3> QED BY <1>b, <3>1, <3>2 DEF New
  <2>3. CASE SetStart
    <3>1. CASE c \in active_control_set_
      BY <1>a, <2>3, <3>1, BufferNew DEF SetStart, Start, New
    <3>2. CASE c \notin active_control_set_
      BY <1>b, <2>3, <3>2 DEF SetStart, Start, InRun, New
    <3> QED BY <3>1, <3>2
  <2> QED BY <1>2, <2>1, <2>2, <2>3 DEF SetControllers
<1>3. ASSUME NEW d \in Commanded, DesiredPose(d) \/ SetParameters(d)
      PROVE  New(desired_[c])'
  <2>1. CASE DesiredPose(d)
    <3>1. InRun(c)
      BY <2>1 DEF DesiredPose, InRun
    <3>2. desired_'[c] = IF c = d THEN SetBuffer(desired_[c], "goal") ELSE desired_[c]
      BY <2>1, <3>1 DEF DesiredPose, TypeOK
    <3> QED BY <1>a, <1>b, <3>1, <3>2, BufferNew DEF New
  <2>2. CASE SetParameters(d)
    BY <2>2, <1>c DEF SetParameters
  <2> QED BY <1>3, <2>1, <2>2
<1>4. CASE RealTime
  <2>1. CASE UpdateState \/ UpdateLock \/ UpdateWrite \/ Activated
    <3>1. InRun(c) /\ desired_' = desired_
      BY <2>1 DEF UpdateState, UpdateLock, UpdateWrite, Activated, InRun
    <3> QED BY <1>b, <3>1 DEF New
  <2>2. ASSUME NEW d \in Controllets, ComputeTau(d)
        PROVE  New(desired_[c])'
    <3>1. InRun(c)
      BY <2>2 DEF ComputeTau, InRun
    <3>2. desired_'[c] = IF c = d THEN Update(desired_[c]) ELSE desired_[c]
      BY <2>2 DEF ComputeTau, TakeGoal, TypeOK
    <3> QED BY <1>a, <1>b, <3>1, <3>2, BufferNew DEF New
  <2>3. ASSUME NEW d \in Controllets, ActivateStart(d)
        PROVE  New(desired_[c])'
    <3>1. CASE c = d
      BY <1>a, <2>3, <3>1, BufferNew DEF ActivateStart, Start, New
    <3>2. CASE c # d
      BY <1>b, <2>3, <3>2 DEF ActivateStart, Start, InRun, New
    <3> QED BY <3>1, <3>2
  <2> QED BY <1>4, <2>1, <2>2, <2>3 DEF RealTime
<1>5. CASE Activate
  <2>1. c \notin active_control_set_ /\ c \in started
    BY <1>5 DEF Activate, InRun
  <2>2. svc \in {"assign", "start"} \/ started \subseteq active_control_set_
    BY DEF Matched
  <2> QED BY <2>1, <2>2 DEF Matched
<1>6. CASE Deactivate
  BY <1>6 DEF Deactivate, InRun
<1>7. CASE UNCHANGED vars
  BY <1>7, <1>c DEF vars
<1> QED BY <1>1, <1>2, <1>3, <1>4, <1>5, <1>6, <1>7 DEF Next

(* Without overlap, no controllet that computes pursues a goal from before *)
(* its start, though stopped controllets go on receiving goals.            *)
THEOREM NoOldGoalPursued ==
  ASSUME ~Overlap
  PROVE  Safety => []NoOldGoal
<1> DEFINE IInv == TypeOK /\ Running /\ Matched /\ Fresh
<1>1. Init => IInv
  BY InitTyped DEF Init, Running, Matched, Fresh, InRun
<1>2. IInv /\ [Next]_vars => IInv'
  BY StepTyped, StepRunning, StepMatched, StepFresh
<1>3. IInv => NoOldGoal
  <2> SUFFICES ASSUME IInv, rt = "compute", NEW c \in active_control_set_
               PROVE  desired_[c].content # "old"
    BY DEF NoOldGoal
  <2>1. c \in Controllets /\ InRun(c)
    BY DEF TypeOK, Running, InRun
  <2> QED BY <2>1 DEF Fresh, New
<1> QED BY <1>1, <1>2, <1>3, PTL DEF Safety

-----------------------------------------------------------------------------
(* The one controllet of an exact cover that drives a given arm.           *)
LEMMA OwnerUnique ==
  ASSUME ExactCover(active_control_set_), NEW a \in Arms,
         NEW c \in active_control_set_, a \in Resource[c]
  PROVE  OwnerOf(a) = c
BY DEF ExactCover, OwnerOf

LEMMA OwnerDrives ==
  ASSUME ExactCover(active_control_set_), NEW a \in Arms
  PROVE  OwnerOf(a) \in active_control_set_ /\ a \in Resource[OwnerOf(a)]
BY DEF ExactCover, OwnerOf

LEMMA CoverIsWhole ==
  ASSUME TypeOK, ExactCover(active_control_set_),
         NEW o, o = [a \in Arms |-> OwnerOf(a)]
  PROVE  /\ o \in [Arms -> Controllets]
         /\ \A a \in Arms : a \in Resource[o[a]]
         /\ Owners!Whole(o)
<1>1. \A a \in Arms : OwnerOf(a) \in Controllets /\ a \in Resource[OwnerOf(a)]
  BY OwnerDrives DEF TypeOK
<1>2. ASSUME NEW a \in Arms, NEW b \in Arms, b \in Resource[OwnerOf(a)]
      PROVE  OwnerOf(b) = OwnerOf(a)
  BY <1>2, OwnerDrives, OwnerUnique
<1> QED BY <1>1, <1>2 DEF Owners!Whole

(* What is about to be installed was computed from the set it replaces.    *)
Prepared ==
  svc \in {"lock", "stop", "assign"} => new_control_set = Retained(new_control)

LEMMA StepPrepared == Prepared /\ [Next]_vars => Prepared'
<1> SUFFICES ASSUME Prepared, [Next]_vars PROVE Prepared' OBVIOUS
<1>1. ASSUME NEW request \in SUBSET Controllets, SetRequest(request)
      PROVE  Prepared'
  BY <1>1 DEF SetRequest, Prepared, Retained
<1>2. CASE SetControllers
  BY <1>2 DEF SetControllers, SetLock, SetStop, SetAssign, SetStart, Prepared,
              Retained
<1>3. ASSUME NEW c \in Commanded, DesiredPose(c) \/ SetParameters(c)
      PROVE  Prepared'
  BY <1>3 DEF DesiredPose, SetParameters, svcVars, Prepared, Retained
<1>4. CASE RealTime
  BY <1>4 DEF RealTime, UpdateState, UpdateLock, UpdateWrite, Activated,
              ComputeTau, ActivateStart, svcVars, Prepared, Retained
<1>5. CASE Activate \/ Deactivate \/ UNCHANGED vars
  BY <1>5 DEF Activate, Deactivate, vars, svcVars, Prepared, Retained
<1> QED BY <1>1, <1>2, <1>3, <1>4, <1>5 DEF Next

(* The step that installs the new set hands the requested arms over and    *)
(* leaves every other arm to its owner.                                    *)
LEMMA AssignGrants ==
  ASSUME TypeOK, TypeOK', Driven, Driven', Prepared, SetAssign
  PROVE  Owners!Grant
<1> DEFINE old == [a \in Arms |-> OwnerOf(a)]
           new == [a \in Arms |-> OwnerOf(a)']
<1>1. /\ svc = "assign" /\ svc' = "start"
      /\ active_control_set_' = Retained(new_control)
  BY DEF SetAssign, Prepared
<1>2. /\ ExactCover(active_control_set_)
      /\ ExactCover(Retained(new_control))
      /\ ExactCover(active_control_set_)'
  BY <1>1 DEF Driven, Prepared
<1>3. new \in [Arms -> Controllets] /\ Owners!Whole(new)
  <2>1. \A a \in Arms : /\ OwnerOf(a)' \in active_control_set_'
                       /\ a \in Resource[OwnerOf(a)']
    BY <1>2 DEF ExactCover, OwnerOf
  <2>2. active_control_set_' \subseteq Controllets
    BY DEF TypeOK
  <2>3. ASSUME NEW a \in Arms, NEW b \in Arms, b \in Resource[OwnerOf(a)']
        PROVE  OwnerOf(b)' = OwnerOf(a)'
    BY <1>2, <2>1, <2>3 DEF ExactCover
  <2> QED BY <2>1, <2>2, <2>3 DEF Owners!Whole
<1>4. ASSUME NEW c \in new_control, NEW a \in Resource[c]
      PROVE  new[a] = c
  <2>1. c \in Controllets /\ a \in Arms
    BY ResourceAssumption DEF TypeOK
  <2>2. c \in active_control_set_'
    BY <1>1 DEF Retained
  <2> QED BY <1>2, <2>1, <2>2 DEF ExactCover, OwnerOf
<1>5. ASSUME NEW a \in Arms, \A c \in new_control : a \notin Resource[c]
      PROVE  new[a] = old[a]
  <2>1. PICK d \in Retained(new_control) : a \in Resource[d]
    BY <1>2 DEF ExactCover
  <2>2. d \in active_control_set_ /\ d \in active_control_set_'
    BY <1>1, <1>5, <2>1 DEF Retained
  <2>3. OwnerOf(a) = d
    BY <1>2, <2>1, <2>2, OwnerUnique
  <2>4. OwnerOf(a)' = d
    BY <1>2, <2>1, <2>2 DEF ExactCover, OwnerOf
  <2> QED BY <2>3, <2>4
<1> QED BY <1>1, <1>3, <1>4, <1>5 DEF Owners!Grant

(* Every other step is a request or leaves the owners alone.               *)
LEMMA OtherStutters ==
  ASSUME TypeOK, [Next]_vars, ~SetAssign
  PROVE  Owners!Next \/ UNCHANGED <<[a \in Arms |-> OwnerOf(a)],
           IF svc \in {"lock", "stop", "assign"} THEN new_control ELSE {}>>
<1> DEFINE pending == IF svc \in {"lock", "stop", "assign"} THEN new_control
                      ELSE {}
<1>1. active_control_set_' = active_control_set_
  BY DEF Next, SetRequest, SetControllers, SetLock, SetStop, SetStart,
         DesiredPose, SetParameters, RealTime, UpdateState, UpdateLock,
         UpdateWrite, Activated, ComputeTau, ActivateStart, Activate,
         Deactivate, vars
<1>2. UNCHANGED [a \in Arms |-> OwnerOf(a)]
  BY <1>1 DEF OwnerOf
<1>3. ASSUME NEW request \in SUBSET Controllets, SetRequest(request)
      PROVE  Owners!Ask(request)
  BY <1>2, <1>3 DEF SetRequest, Owners!Ask
<1>4. CASE \A request \in SUBSET Controllets : ~SetRequest(request)
  <2>1. UNCHANGED pending
    BY <1>4 DEF Next, SetControllers, SetLock, SetStop, SetStart, DesiredPose,
         SetParameters, RealTime, UpdateState, UpdateLock, UpdateWrite,
         Activated, ComputeTau, ActivateStart, Activate, Deactivate, vars,
         svcVars
  <2> QED BY <1>2, <2>1
<1> QED BY <1>3, <1>4 DEF Owners!Next

(* For every configuration, the controller implements ArmOwners: an arm    *)
(* changes hands only by a request for it, and always as part of a group   *)
(* that leaves no controllet with some of its arms.                        *)
THEOREM OwnersImplemented == Safety => OwnersSpec
<1> DEFINE IInv == TypeOK /\ Driven /\ Prepared
<1>1. Init => IInv
  BY InitTyped, StartAssumption DEF Init, Driven, Prepared
<1>2. IInv /\ [Next]_vars => IInv'
  BY StepTyped, StepDriven, StepPrepared
<1>3. Init => Owners!Init
  <2> SUFFICES ASSUME Init PROVE Owners!Init OBVIOUS
  <2>1. TypeOK /\ ExactCover(active_control_set_)
    BY InitTyped, StartAssumption DEF Init
  <2> QED BY <2>1, CoverIsWhole DEF Init, Owners!Init
<1>4. IInv /\ IInv' /\ [Next]_vars =>
        [Owners!Next]_<<[a \in Arms |-> OwnerOf(a)],
           IF svc \in {"lock", "stop", "assign"} THEN new_control ELSE {}>>
  <2> SUFFICES ASSUME IInv, IInv', [Next]_vars
               PROVE  Owners!Next \/ UNCHANGED <<[a \in Arms |-> OwnerOf(a)],
           IF svc \in {"lock", "stop", "assign"} THEN new_control ELSE {}>>
    OBVIOUS
  <2>1. CASE SetAssign
    BY <2>1, AssignGrants DEF Owners!Next
  <2>2. CASE ~SetAssign
    BY <2>2, OtherStutters
  <2> QED BY <2>1, <2>2
<1> QED BY <1>1, <1>2, <1>3, <1>4, PTL DEF Safety, OwnersSpec, Owners!Spec

=============================================================================
