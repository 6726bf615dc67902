--------------------------- MODULE ModeSwitch_proofs ---------------------------
(***************************************************************************)
(* For any number of arms and controllers, with switches prepared arm by   *)
(* arm beside the cycle and refused half-way: the interface keeps its      *)
(* types, and, if no arm's name occurs in another's, the arms that no      *)
(* refused request has changed have one controller, whose mode and loop    *)
(* they are in and whose commands arrive in their cycle.                   *)
(***************************************************************************)
EXTENDS ModeSwitch, TLAPS

Positions == [pass : {"none", "stop", "start"}, i : 1..Len(Order),
              at : {"check", "mode", "flag"}, list : Lists]

(* Every arm has a position in Order, and every position an arm.           *)
LEMMA ArmsAreOrdered ==
  /\ Len(Order) \in Nat \ {0} /\ DOMAIN Order = 1..Len(Order)
  /\ \A i \in 1..Len(Order) : Order[i] \in Arms
  /\ \A a \in Arms : \E i \in 1..Len(Order) : Order[i] = a
<1>1. Len(Order) \in Nat \ {0} /\ DOMAIN Order = 1..Len(Order)
  BY OrderAssumption
<1> QED  BY <1>1 DEF Arms, ToSet

LEMMA ModesAreModes ==
  \A c \in Controllers : ModeOf(c) \in Modes /\ ModeOf(c) # None
  BY ClaimAssumption DEF Modes, ModeOf, Mode, Spaces, Whats, None

(* What is started on an arm is one of the controllers of the list.        *)
LEMMA StartModeIsAMode ==
  ASSUME NEW a \in Arms, NEW start \in SUBSET Controllers, Spaced(a, start) # {}
  PROVE  Starting(a, start) \in start /\ StartMode(a, start) \in Modes
<1>1. \E c \in start : \E b \in Arms : <<c, b>> \in Matching(a, start)
  BY DEF Spaced, Matching
<1>2. Starting(a, start) \in start
  BY <1>1 DEF Starting
<1> QED  BY <1>2, ModesAreModes DEF StartMode

-----------------------------------------------------------------------------
(* Types                                                                   *)

(* An arm at which a pass has got beyond its checks: the list speaks of    *)
(* it, once only, and a start has found it without a mode.                 *)
Checked ==
  LET list == prepare.list
  IN  /\ prepare.pass = "stop" /\ prepare.at # "check" => Spaced(Here, list.stop) # {}
      /\ prepare.pass = "start" /\ prepare.at # "check" =>
           /\ Spaced(Here, list.start) # {} /\ OneClaim(Matching(Here, list.start))
           /\ prepare.at = "mode" => control_mode_[Here] = None

Typed == TypeOK /\ Checked

LEMMA InitTyped == Init => Typed
<1> SUFFICES ASSUME Init PROVE Typed
  OBVIOUS
<1>1. hw \in [Arms -> Commands] /\ cmd \in [Arms -> Commands]
  BY DEF Init, Commands
<1>2. request \in Lists /\ prepare \in Positions
  BY ArmsAreOrdered DEF Init, NoRequest, NotPreparing, Lists, Positions
<1>3. Checked
  BY DEF Init, NotPreparing, Checked
<1> QED  BY <1>1, <1>2, <1>3 DEF Init, TypeOK, Typed, Positions

LEMMA HereIsAnArm ==
  ASSUME TypeOK
  PROVE  Here \in Arms /\ prepare.list.stop \in SUBSET Controllers
                       /\ prepare.list.start \in SUBSET Controllers
  BY ArmsAreOrdered DEF TypeOK, Here, Lists

(* Where a pass may go next.                                               *)
LEMMA NextArmTyped ==
  ASSUME TypeOK, NextArm
  PROVE  prepare' \in Positions /\ request' \in Lists /\ prepare'.at = "check"
<1>1. prepare \in Positions /\ Len(Order) \in Nat \ {0}
  BY ArmsAreOrdered DEF TypeOK, Positions
<1>2. CASE prepare.i < Len(Order)
  <2>1. prepare' = [prepare EXCEPT !.i = prepare.i + 1, !.at = "check"] /\ request' = request
    BY <1>2 DEF NextArm
  <2>2. prepare.i + 1 \in 1..Len(Order)
    BY <1>1, <1>2 DEF Positions
  <2>3. prepare'.i = prepare.i + 1 /\ prepare'.at = "check"
    BY <1>1, <2>1 DEF Positions
  <2>4. prepare' \in Positions
    BY <1>1, <2>1, <2>2 DEF Positions
  <2> QED  BY <2>1, <2>3, <2>4 DEF TypeOK
<1>3. CASE ~(prepare.i < Len(Order)) /\ prepare.pass = "stop"
  <2>1. prepare' = [prepare EXCEPT !.i = 1, !.at = "check", !.pass = "start"]
        /\ request' = request
    BY <1>3 DEF NextArm
  <2>2. 1 \in 1..Len(Order)
    BY <1>1
  <2>3. prepare' \in Positions /\ prepare'.at = "check"
    BY <1>1, <2>1, <2>2 DEF Positions
  <2> QED  BY <2>1, <2>3 DEF TypeOK
<1>4. CASE ~(prepare.i < Len(Order)) /\ prepare.pass # "stop"
  BY <1>1, <1>4 DEF NextArm, TypeOK, Positions, NotPreparing, NoRequest, Lists
<1> QED  BY <1>2, <1>3, <1>4

LEMMA GotoTyped ==
  ASSUME TypeOK, NEW step \in {"check", "mode", "flag"}, Goto(step)
  PROVE  /\ prepare' \in Positions /\ prepare'.at = step /\ Here' = Here
         /\ prepare'.pass = prepare.pass /\ prepare'.list = prepare.list
         /\ prepare'.i = prepare.i /\ UNCHANGED <<request, spoiled>>
  BY DEF Goto, TypeOK, Positions, Here

LEMMA RefuseTyped ==
  ASSUME TypeOK, Refuse
  PROVE  /\ prepare' \in Positions /\ prepare'.at = "check" /\ spoiled' \subseteq Arms
         /\ request' \in Lists
  BY ArmsAreOrdered DEF TypeOK, Refuse, NotPreparing, NoRequest, Lists, Positions

LEMMA ResetTyped ==
  ASSUME TypeOK, NEW a \in Arms, NEW stop
  PROVE  Reset(a, stop) \in [Arms -> Commands]
<1>1. \A m \in Modes : hw[a][m] \in Controllers \cup {Nobody}
  BY DEF TypeOK, Commands
<1>2. [m \in Modes |-> IF m \in ResetBy(a, stop) THEN Nobody ELSE hw[a][m]] \in Commands
  BY <1>1 DEF Commands
<1> QED  BY <1>2 DEF Reset, TypeOK

LEMMA StopArmTyped == Typed /\ StopArm => Typed'
<1> SUFFICES ASSUME Typed, StopArm PROVE Typed'
  OBVIOUS
<1>1. TypeOK /\ Here \in Arms
  BY HereIsAnArm DEF Typed
<1>2. CASE NextArm /\ UNCHANGED hw
  <2>1. Checked'
    BY <1>1, <1>2, NextArmTyped DEF Checked
  <2> QED  BY <1>1, <1>2, <2>1, NextArmTyped
           DEF Typed, TypeOK, StopArm, NextArm, robots, Positions
<1>3. CASE Spaced(Here, prepare.list.stop) # {} /\ hw' = Reset(Here, prepare.list.stop)
           /\ Goto("mode")
  <2>1. Checked'
    BY <1>1, <1>3, GotoTyped DEF Checked, StopArm, At, Spaced, Matching
  <2> QED  BY <1>1, <1>3, <2>1, GotoTyped, ResetTyped
           DEF Typed, TypeOK, StopArm, robots, Positions
<1>4. CASE Refuse /\ UNCHANGED hw
  <2>1. Checked'
    BY <1>1, <1>4, RefuseTyped DEF Checked
  <2> QED  BY <1>1, <1>4, <2>1, RefuseTyped DEF Typed, TypeOK, StopArm, robots, Positions
<1> QED  BY <1>2, <1>3, <1>4 DEF StopArm

LEMMA StartArmTyped == Typed /\ StartArm => Typed'
<1> SUFFICES ASSUME Typed, StartArm PROVE Typed'
  OBVIOUS
<1>1. TypeOK /\ Here \in Arms
  BY HereIsAnArm DEF Typed
<1>2. CASE NextArm
  <2>1. Checked'
    BY <1>1, <1>2, NextArmTyped DEF Checked
  <2> QED  BY <1>1, <1>2, <2>1, NextArmTyped
           DEF Typed, TypeOK, StartArm, NextArm, robots, arms_, Positions
<1>3. CASE Spaced(Here, prepare.list.start) # {} /\ StartValid(Here, prepare.list.start)
           /\ Goto("mode")
  <2>1. Checked'
    BY <1>1, <1>3, GotoTyped
    DEF Checked, StartArm, At, Spaced, Matching, StartValid, OneClaim, arms_
  <2> QED  BY <1>1, <1>3, <2>1, GotoTyped DEF Typed, TypeOK, StartArm, robots, arms_, Positions
<1>4. CASE Refuse
  <2>1. Checked'
    BY <1>1, <1>4, RefuseTyped DEF Checked
  <2> QED  BY <1>1, <1>4, <2>1, RefuseTyped DEF Typed, TypeOK, StartArm, robots, arms_, Positions
<1> QED  BY <1>2, <1>3, <1>4 DEF StartArm

LEMMA SetModeTyped == Typed /\ SetMode => Typed'
<1> SUFFICES ASSUME Typed, SetMode PROVE Typed'
  OBVIOUS
<1>1. /\ TypeOK /\ Checked /\ Here \in Arms /\ Goto("flag") /\ prepare.at = "mode"
      /\ prepare.pass \in {"stop", "start"} /\ prepare.list.start \in SUBSET Controllers
  BY HereIsAnArm DEF Typed, SetMode, TypeOK
<1>2. prepare.pass = "start" => StartMode(Here, prepare.list.start) \in Modes
  BY <1>1, StartModeIsAMode DEF Checked
<1>3. control_mode_' \in [Arms -> Modes \cup {None}]
  BY <1>1, <1>2 DEF SetMode, TypeOK
<1>4. Checked'
  BY <1>1, GotoTyped DEF Checked, Spaced, Matching, OneClaim
<1> QED  BY <1>1, <1>3, <1>4, GotoTyped DEF Typed, TypeOK, SetMode, robots, Positions

LEMMA SetFlagTyped == Typed /\ SetFlag => Typed'
<1> SUFFICES ASSUME Typed, SetFlag PROVE Typed'
  OBVIOUS
<1>1. TypeOK /\ NextArm
  BY DEF Typed, SetFlag
<1>2. Checked'
  BY <1>1, NextArmTyped DEF Checked
<1> QED  BY <1>1, <1>2, NextArmTyped DEF Typed, TypeOK, SetFlag, NextArm, robots, Positions

LEMMA ComputeTyped ==
  ASSUME TypeOK, Compute  PROVE TypeOK'
<1>1. \A a \in Arms : \A m \in Modes :
        hw[a][m] \in Controllers \cup {Nobody} /\ Computed(a, m) \subseteq Controllers
  BY DEF TypeOK, Commands, Computed
<1>2. hw' \in [Arms -> Commands]
  BY <1>1 DEF Compute, Commands
<1> QED  BY <1>2 DEF TypeOK, Compute, robots

LEMMA ActivateTyped ==
  ASSUME TypeOK, Activate  PROVE TypeOK'
<1>1. \A a \in Arms : \A m \in Modes : hw[a][m] \in Controllers \cup {Nobody}
  BY DEF TypeOK, Commands
<1>2. hw' \in [Arms -> Commands]
  BY <1>1 DEF Activate, Commands
<1> QED  BY <1>2 DEF TypeOK, Activate, manager

(* Outside the passes nobody writes a mode while one is being prepared.    *)
LEMMA CheckedKept ==
  ASSUME Checked, UNCHANGED prepare, UNCHANGED control_mode_ \/ prepare.pass = "none"
  PROVE  Checked'
  BY DEF Checked, Here, Spaced, Matching, OneClaim

LEMMA StepTyped == Typed /\ [Next]_vars => Typed'
<1> SUFFICES ASSUME Typed, [Next]_vars PROVE Typed'
  OBVIOUS
<1> USE DEF Typed
<1>1. ASSUME NEW start \in SUBSET Controllers, NEW stop \in SUBSET Controllers,
             SwitchController(start, stop)
      PROVE  Typed'
  <2>1. prepare' \in Positions /\ prepare'.at = "check"
    BY <1>1, ArmsAreOrdered DEF SwitchController, Positions, Lists
  <2>2. Checked'
    BY <2>1 DEF Checked
  <2> QED  BY <1>1, <2>1, <2>2 DEF TypeOK, SwitchController, robots, arms_, Positions
<1>2. CASE StopArm \/ StartArm \/ SetMode \/ SetFlag
  BY <1>2, StopArmTyped, StartArmTyped, SetModeTyped, SetFlagTyped
<1>3. CASE Read
  <2>1. Aged \in [Arms -> Commands]
    BY DEF Aged, Commands
  <2> QED  BY <1>3, <2>1, CheckedKept DEF TypeOK, Read, manager
<1>4. CASE Perform
  <2>1. SwitchedModes \in [Arms -> Modes \cup {None, Stopped}]
    BY DEF TypeOK, SwitchedModes
  <2>2. claimed' \subseteq Controllers /\ computed' \subseteq Controllers /\ request' = NoRequest
    BY <1>4 DEF TypeOK, Perform, Lists
  <2> QED  BY <1>4, <2>1, <2>2, CheckedKept DEF TypeOK, Perform, SwitchesKept, NoRequest, Lists
<1>5. CASE NoSwitch
  BY <1>5, CheckedKept DEF TypeOK, NoSwitch, arms_, robots, manager
<1>6. CASE Compute
  BY <1>6, ComputeTyped, CheckedKept DEF Compute
<1>7. CASE Write
  BY <1>7, CheckedKept DEF TypeOK, Write, arms_
<1>8. CASE Activate
  BY <1>8, ActivateTyped, CheckedKept DEF Activate, Idle, manager
<1>9. CASE Deactivate
  BY <1>9, CheckedKept DEF TypeOK, Deactivate, arms_, manager
<1>10. ASSUME NEW a \in Faulty, Fault(a)  PROVE Typed'
  BY <1>10, CheckedKept DEF TypeOK, Fault, arms_, manager
<1>11. ASSUME NEW a \in Faulty, Recover(a)  PROVE Typed'
  BY <1>11, FaultyAssumption, CheckedKept DEF TypeOK, Recover, arms_, manager
<1>12. CASE UNCHANGED vars
  BY <1>12, CheckedKept DEF TypeOK, vars, arms_, robots, manager
<1> QED
  BY <1>1, <1>2, <1>3, <1>4, <1>5, <1>6, <1>7, <1>8, <1>9, <1>10, <1>11, <1>12 DEF Next

(* The modes, the commands and the prepared switch keep their types: no    *)
(* arm is ever put into a mode that no controller has.                     *)
THEOREM TypeCorrect == Spec => []TypeOK
<1>1. Typed => TypeOK
  BY DEF Typed
<1> QED  BY <1>1, InitTyped, StepTyped, PTL DEF Spec

-----------------------------------------------------------------------------
(* The passes                                                              *)

(* The controllers of a list that claim arm a, who are to be at most one.  *)
Claimers(list, a) == {c \in list : a \in Claim[c].arms}
Alone(list, a) == \A c, d \in Claimers(list, a) : c = d

(* The controllers that the mode of arm a stands for: as far as the stop   *)
(* and the start pass have come, and then those of the prepared switch.    *)
Passed(a) == \/ \E j \in 1..Len(Order) : Order[j] = a /\ j < prepare.i
             \/ prepare.at = "flag" /\ a = Here
Due(a) ==
  LET list == prepare.list
  IN  CASE prepare.pass = "none" -> (claimed \ request.stop) \cup request.start
        [] prepare.pass = "stop" -> IF Passed(a) THEN claimed \ list.stop ELSE claimed
        [] prepare.pass = "start" -> IF Passed(a) THEN (claimed \ list.stop) \cup list.start
                                     ELSE claimed \ list.stop

(* While a switch is prepared no other one is pending.                     *)
OneSwitch ==
  /\ prepare.pass = "none" => prepare = NotPreparing
  /\ prepare.pass # "none" => /\ request = NoRequest /\ prepare.list # NoRequest
                              /\ prepare.list.stop \subseteq claimed

(* With distinct names an arm is matched exactly by what claims it.        *)
LEMMA MatchedByClaim ==
  ASSUME \A b \in Arms : NameIn[b] = {b},
         NEW a \in Arms, NEW list \in SUBSET Controllers
  PROVE  /\ \A c \in list : a \in Claim[c].arms => /\ <<c, a>> \in Matching(a, list)
                                                   /\ Spaced(a, list) # {}
         /\ Spaced(a, list) # {} => \E c \in list : a \in Claim[c].arms
BY DEF Matching, Spaced

(* The place of an arm in Order, which decides whether it is passed.       *)
LEMMA PlaceOfArm ==
  ASSUME TypeOK, NEW b \in Arms
  PROVE  \E j \in 1..Len(Order) :
           /\ (\E k \in 1..Len(Order) : Order[k] = b /\ k < prepare.i) <=> j < prepare.i
           /\ (\E k \in 1..Len(Order) : Order[k] = b /\ k < prepare'.i) <=> j < prepare'.i
           /\ b = Here <=> j = prepare.i
<1>1. prepare.i \in 1..Len(Order) /\ \E j \in 1..Len(Order) : Order[j] = b
  BY ArmsAreOrdered DEF TypeOK
<1>2. PICK j \in 1..Len(Order) : Order[j] = b
  BY <1>1
<1>3. \A k \in 1..Len(Order) : Order[k] = b <=> k = j
  BY <1>2, ArmsAreOrdered, OrderAssumption
<1> QED  BY <1>1, <1>2, <1>3 DEF Here

(* The end of the step at an arm: it is passed, the others stay as they    *)
(* are, and after the last arm the next pass begins.                       *)
LEMMA PassStep ==
  ASSUME TypeOK, OneSwitch, NextArm, UNCHANGED claimed, prepare.pass # "none",
         NEW b \in Arms
  PROVE  LET list == prepare.list
         IN  /\ prepare.pass = "stop" =>
                  Due(b)' = IF b = Here THEN claimed \ list.stop ELSE Due(b)
             /\ prepare.pass = "start" =>
                  Due(b)' = IF b = Here THEN (claimed \ list.stop) \cup list.start ELSE Due(b)
<1> DEFINE n == Len(Order)
<1>1. n \in Nat \ {0} /\ prepare.i \in 1..n /\ prepare.pass \in {"stop", "start"}
  BY ArmsAreOrdered DEF TypeOK
<1>2. PICK j \in 1..n :
        /\ (\E k \in 1..n : Order[k] = b /\ k < prepare.i) <=> j < prepare.i
        /\ (\E k \in 1..n : Order[k] = b /\ k < prepare'.i) <=> j < prepare'.i
        /\ b = Here <=> j = prepare.i
  BY PlaceOfArm
<1>3. b # Here => (Passed(b) <=> j < prepare.i)
  BY <1>2 DEF Passed
<1>4. prepare'.at = "check"
  BY NextArmTyped
<1>5. CASE prepare.i < n
  <2>1. prepare' = [prepare EXCEPT !.i = prepare.i + 1, !.at = "check"]
    BY <1>5 DEF NextArm
  <2>2. prepare'.i = prepare.i + 1
    BY <2>1 DEF TypeOK
  <2>3. prepare'.pass = prepare.pass
    BY <2>1 DEF TypeOK
  <2>4. prepare'.list = prepare.list
    BY <2>1 DEF TypeOK
  <2>5. Passed(b)' <=> j < prepare.i + 1
    BY <1>2, <1>4, <2>2 DEF Passed
  <2>6. Passed(b)' <=> b = Here \/ Passed(b)
    BY <1>1, <1>2, <1>3, <2>5
  <2> QED  BY <1>1, <2>3, <2>4, <2>6 DEF Due
<1>6. CASE ~(prepare.i < n) /\ prepare.pass = "stop"
  <2>1. prepare' = [prepare EXCEPT !.i = 1, !.at = "check", !.pass = "start"]
    BY <1>6 DEF NextArm
  <2>2. prepare'.i = 1
    BY <2>1 DEF TypeOK
  <2>3. prepare'.pass = "start"
    BY <2>1 DEF TypeOK
  <2>4. prepare'.list = prepare.list
    BY <2>1 DEF TypeOK
  <2>5. ~Passed(b)'
    BY <1>2, <1>4, <2>2 DEF Passed
  <2>6. Due(b)' = claimed \ prepare.list.stop
    BY <2>3, <2>4, <2>5 DEF Due
  <2>7. b # Here => Due(b) = claimed \ prepare.list.stop
    BY <1>1, <1>2, <1>3, <1>6 DEF Due
  <2> QED  BY <1>6, <2>6, <2>7
<1>7. CASE ~(prepare.i < n) /\ prepare.pass = "start"
  <2>1. prepare' = NotPreparing /\ request' = prepare.list
    BY <1>7 DEF NextArm
  <2>2. Due(b)' = (claimed \ prepare.list.stop) \cup prepare.list.start
    BY <2>1 DEF Due, NotPreparing
  <2>3. b # Here => Due(b) = (claimed \ prepare.list.stop) \cup prepare.list.start
    BY <1>1, <1>2, <1>3, <1>7 DEF Due
  <2> QED  BY <1>7, <2>2, <2>3
<1> QED  BY <1>1, <1>5, <1>6, <1>7

LEMMA PassKeepsOneSwitch ==
  ASSUME TypeOK, OneSwitch, NextArm, UNCHANGED claimed, prepare.pass # "none"
  PROVE  /\ OneSwitch' /\ UNCHANGED spoiled
         /\ prepare'.pass = "none" => request' = prepare.list
         /\ Stopping' = Stopping
<1>1. request = NoRequest
  BY DEF OneSwitch
<1>2. CASE prepare.i < Len(Order)
  <2>1. prepare' = [prepare EXCEPT !.i = prepare.i + 1, !.at = "check"] /\ request' = request
    BY <1>2 DEF NextArm
  <2>2. prepare'.pass = prepare.pass
    BY <2>1 DEF TypeOK
  <2>3. prepare'.list = prepare.list
    BY <2>1 DEF TypeOK
  <2> QED  BY <1>1, <2>1, <2>2, <2>3 DEF OneSwitch, NextArm, Stopping
<1>3. CASE ~(prepare.i < Len(Order)) /\ prepare.pass = "stop"
  <2>1. prepare' = [prepare EXCEPT !.i = 1, !.at = "check", !.pass = "start"]
        /\ request' = request
    BY <1>3 DEF NextArm
  <2>2. prepare'.pass = "start"
    BY <2>1 DEF TypeOK
  <2>3. prepare'.list = prepare.list
    BY <2>1 DEF TypeOK
  <2> QED  BY <1>1, <2>1, <2>2, <2>3 DEF OneSwitch, NextArm, Stopping
<1>4. CASE ~(prepare.i < Len(Order)) /\ prepare.pass # "stop"
  BY <1>1, <1>4 DEF OneSwitch, NextArm, NotPreparing, NoRequest, Stopping
<1> QED  BY <1>2, <1>3, <1>4

(* At an arm beyond its checks the pass only moves on.                     *)
LEMMA GotoKeeps ==
  ASSUME TypeOK, OneSwitch, UNCHANGED claimed, prepare.pass # "none",
         NEW step \in {"mode", "flag"}, Goto(step)
  PROVE  /\ OneSwitch' /\ Stopping' = Stopping
         /\ \A b \in Arms : b # Here => Due(b)' = Due(b)
         /\ step = "mode" /\ prepare.at = "check" => \A b \in Arms : Due(b)' = Due(b)
         /\ InHand' = {Here}
<1>1. /\ prepare'.at = step /\ Here' = Here /\ prepare'.pass = prepare.pass
      /\ prepare'.list = prepare.list /\ prepare'.i = prepare.i /\ UNCHANGED request
  BY GotoTyped
<1>2. OneSwitch' /\ Stopping' = Stopping
  BY <1>1 DEF OneSwitch, Stopping
<1>3. ASSUME NEW b \in Arms, b # Here  PROVE Due(b)' = Due(b)
  <2>1. Passed(b)' <=> Passed(b)
    BY <1>1, <1>3 DEF Passed
  <2> QED  BY <1>1, <2>1 DEF Due
<1>4. ASSUME step = "mode", prepare.at = "check", NEW b \in Arms  PROVE Due(b)' = Due(b)
  <2>1. Passed(b)' <=> Passed(b)
    BY <1>1, <1>4 DEF Passed
  <2> QED  BY <1>1, <2>1 DEF Due
<1> QED  BY <1>1, <1>2, <1>3, <1>4 DEF InHand

-----------------------------------------------------------------------------
(* Claims and modes                                                        *)

(* An arm that is not spoiled has one controller now and when the switch   *)
(* is performed, is in the mode of what is due, and has been touched by    *)
(* the passes if what is due is not what is active.                        *)
ArmHeld(a) ==
  /\ Alone(claimed, a) /\ Alone(Due(a), a)
  /\ \A c \in Claimers(Due(a), a) : control_mode_[a] = ModeOf(c)
  /\ Claimers(Due(a), a) = {} => control_mode_[a] = None
  /\ ~Touched(a) => Claimers(Due(a), a) = Claimers(claimed, a)

Held == Typed /\ OneSwitch /\ \A a \in Arms \ spoiled : ArmHeld(a)

LEMMA InitHeld == Init => Held
<1> SUFFICES ASSUME Init PROVE Held
  OBVIOUS
<1>1. claimed = {} /\ request = NoRequest /\ prepare = NotPreparing
  BY DEF Init
<1>2. \A a \in Arms : Due(a) = {} /\ control_mode_[a] = None
  BY <1>1 DEF Init, Due, NotPreparing, NoRequest
<1>3. OneSwitch
  BY <1>1 DEF OneSwitch, NotPreparing
<1>4. \A a \in Arms : ArmHeld(a)
  BY <1>1, <1>2 DEF ArmHeld, Alone, Claimers
<1> QED  BY <1>3, <1>4, InitTyped DEF Held

(* A refused request is forgotten; what it has changed is spoiled.         *)
LEMMA RefuseHeld ==
  ASSUME Held, Refuse, UNCHANGED <<claimed, control_mode_, switch_cm_>>,
         prepare.pass # "none", prepare.at = "check"
  PROVE  OneSwitch' /\ \A b \in Arms \ spoiled' : ArmHeld(b)'
<1>1. request = NoRequest /\ request' = NoRequest /\ prepare' = NotPreparing
  BY DEF Held, OneSwitch, Refuse
<1>2. ASSUME NEW b \in Arms \ spoiled'  PROVE ArmHeld(b)'
  <2>1. b \notin spoiled /\ ~Touched(b)
    BY <1>2 DEF Refuse, Touched, InHand
  <2>2. Claimers(Due(b), b) = Claimers(claimed, b)
    BY <1>2, <2>1 DEF Held, ArmHeld
  <2>3. Due(b)' = claimed
    BY <1>1 DEF Due, NotPreparing, NoRequest
  <2>4. ArmHeld(b) /\ claimed' = claimed /\ control_mode_' = control_mode_
    BY <1>2, <2>1 DEF Held
  <2> QED  BY <2>2, <2>3, <2>4 DEF ArmHeld, Alone, Claimers
<1>3. OneSwitch'
  BY <1>1 DEF OneSwitch, NotPreparing
<1> QED  BY <1>2, <1>3

(* A pass over an arm that the list does not name.                         *)
LEMMA SkippedArm ==
  ASSUME \A b \in Arms : NameIn[b] = {b}, Held, NextArm,
         UNCHANGED <<claimed, control_mode_, switch_cm_>>, prepare.at = "check",
         \/ prepare.pass = "stop" /\ Spaced(Here, prepare.list.stop) = {}
         \/ prepare.pass = "start" /\ Spaced(Here, prepare.list.start) = {}
  PROVE  OneSwitch' /\ \A b \in Arms \ spoiled' : ArmHeld(b)'
<1>1. /\ TypeOK /\ OneSwitch /\ Here \in Arms
      /\ prepare.list.stop \in SUBSET Controllers /\ prepare.list.start \in SUBSET Controllers
  BY HereIsAnArm DEF Held, Typed
<1>2. OneSwitch' /\ spoiled' = spoiled /\ prepare'.at = "check"
  BY <1>1, PassKeepsOneSwitch, NextArmTyped
<1>3. ASSUME NEW b \in Arms \ spoiled  PROVE ArmHeld(b)'
  <2>1. Claimers(Due(b)', b) = Claimers(Due(b), b)
    <3>1. CASE b # Here
      BY <1>1, <3>1, PassStep
    <3>2. CASE b = Here /\ prepare.pass = "stop"
      <4>1. \A c \in prepare.list.stop : b \notin Claim[c].arms
        <5>1. Spaced(b, prepare.list.stop) = {}
          BY <3>2
        <5> QED  BY <1>1, <5>1, MatchedByClaim
      <4>2. Due(b)' = claimed \ prepare.list.stop
        BY <1>1, <3>2, PassStep
      <4>3. Due(b) = claimed \/ Due(b) = claimed \ prepare.list.stop
        BY <3>2 DEF Due
      <4> QED  BY <4>1, <4>2, <4>3 DEF Claimers
    <3>3. CASE b = Here /\ prepare.pass = "start"
      <4>1. \A c \in prepare.list.start : b \notin Claim[c].arms
        <5>1. Spaced(b, prepare.list.start) = {}
          BY <3>3
        <5> QED  BY <1>1, <5>1, MatchedByClaim
      <4>2. Due(b)' = (claimed \ prepare.list.stop) \cup prepare.list.start
        BY <1>1, <3>3, PassStep
      <4>3. \/ Due(b) = claimed \ prepare.list.stop
            \/ Due(b) = (claimed \ prepare.list.stop) \cup prepare.list.start
        BY <3>3 DEF Due
      <4> QED  BY <4>1, <4>2, <4>3 DEF Claimers
    <3> QED  BY <3>1, <3>2, <3>3
  <2>2. Touched(b)' <=> Touched(b)
    BY <1>2 DEF Touched, InHand
  <2>3. ArmHeld(b) /\ claimed' = claimed /\ control_mode_' = control_mode_
    BY <1>3 DEF Held
  <2> QED  BY <2>1, <2>2, <2>3 DEF ArmHeld, Alone, Claimers
<1> QED  BY <1>2, <1>3

(* A pass that has checked an arm of the list.                             *)
LEMMA CheckedArm ==
  ASSUME Held, Goto("mode"), UNCHANGED <<claimed, control_mode_, switch_cm_>>,
         prepare.pass # "none", prepare.at = "check"
  PROVE  OneSwitch' /\ \A b \in Arms \ spoiled' : ArmHeld(b)'
<1>1. /\ OneSwitch' /\ InHand' = {Here} /\ spoiled' = spoiled
      /\ \A b \in Arms : Due(b)' = Due(b)
  BY GotoKeeps, GotoTyped DEF Held, Typed
<1>2. \A b \in Arms : Touched(b) => Touched(b)'
  BY <1>1 DEF Touched, InHand
<1> QED  BY <1>1, <1>2 DEF Held, ArmHeld, Alone, Claimers

LEMMA SetModeHeld ==
  ASSUME \A b \in Arms : NameIn[b] = {b}, Held, SetMode
  PROVE  OneSwitch' /\ \A b \in Arms \ spoiled' : ArmHeld(b)'
<1> DEFINE list == prepare.list
<1>1. /\ TypeOK /\ OneSwitch /\ Checked /\ Here \in Arms /\ Goto("flag")
      /\ list.stop \in SUBSET Controllers /\ list.start \in SUBSET Controllers
      /\ claimed \subseteq Controllers
      /\ prepare.pass \in {"stop", "start"} /\ prepare.at = "mode"
      /\ claimed' = claimed /\ switch_cm_' = switch_cm_
  BY HereIsAnArm DEF Held, Typed, SetMode, TypeOK
<1>2. /\ OneSwitch' /\ InHand' = {Here} /\ spoiled' = spoiled /\ Here' = Here
      /\ \A b \in Arms : b # Here => Due(b)' = Due(b)
      /\ prepare'.at = "flag" /\ prepare'.pass = prepare.pass /\ prepare'.list = list
  <2>1. /\ prepare'.at = "flag" /\ prepare'.pass = prepare.pass /\ prepare'.list = list
        /\ spoiled' = spoiled /\ Here' = Here
    BY <1>1, GotoTyped
  <2>2. OneSwitch' /\ InHand' = {Here}
    BY <1>1, GotoKeeps
  <2>3. \A b \in Arms : b # Here => Due(b)' = Due(b)
    BY <1>1, GotoKeeps
  <2> QED  BY <2>1, <2>2, <2>3
<1>3. ASSUME NEW b \in Arms \ spoiled, b # Here  PROVE ArmHeld(b)'
  <2>1. control_mode_'[b] = control_mode_[b]
    BY <1>1, <1>3 DEF SetMode, TypeOK
  <2>2. Touched(b) => Touched(b)'
    BY <1>1, <1>3 DEF Touched, InHand
  <2> QED  BY <1>1, <1>2, <1>3, <2>1, <2>2 DEF Held, ArmHeld, Alone, Claimers
<1>4. ASSUME Here \notin spoiled  PROVE ArmHeld(Here)'
  <2>1. ~Passed(Here) /\ Passed(Here)' /\ Touched(Here)'
    <3>1. \E j \in 1..Len(Order) :
            /\ (\E k \in 1..Len(Order) : Order[k] = Here /\ k < prepare.i) <=> j < prepare.i
            /\ Here = Here <=> j = prepare.i
      BY <1>1, PlaceOfArm
    <3>2. ~Passed(Here)
      BY <1>1, <3>1 DEF Passed, TypeOK
    <3> QED  BY <1>2, <3>2 DEF Passed, Touched
  <2>2. ArmHeld(Here)
    BY <1>1, <1>4 DEF Held
  <2>3. CASE prepare.pass = "stop"
    <3>1. Due(Here) = claimed /\ Due(Here)' = claimed \ list.stop
      BY <1>1, <1>2, <2>1, <2>3 DEF Due
    <3>2. PICK e \in list.stop : Here \in Claim[e].arms
      BY <1>1, <2>3, MatchedByClaim DEF Checked
    <3>3. e \in Claimers(claimed, Here)
      BY <1>1, <2>3, <3>2 DEF OneSwitch, Claimers
    <3>4. Claimers(claimed \ list.stop, Here) = {}
      BY <2>2, <3>2, <3>3 DEF ArmHeld, Alone, Claimers
    <3>5. control_mode_'[Here] = None
      BY <1>1, <2>3 DEF SetMode, TypeOK
    <3> QED  BY <1>1, <1>2, <2>1, <2>2, <3>1, <3>4, <3>5 DEF ArmHeld, Alone, Claimers
  <2>4. CASE prepare.pass = "start"
    <3>1. /\ Due(Here) = claimed \ list.stop
          /\ Due(Here)' = (claimed \ list.stop) \cup list.start
      BY <1>1, <1>2, <2>1, <2>4 DEF Due
    <3>2. Claimers(claimed \ list.stop, Here) = {}
      <4>1. control_mode_[Here] = None
        BY <1>1, <2>4 DEF Checked
      <4> QED  BY <1>1, <2>2, <3>1, <4>1, ModesAreModes DEF ArmHeld, Claimers
    <3>3. Claimers(Due(Here)', Here) = Claimers(list.start, Here)
      BY <3>1, <3>2 DEF Claimers
    <3>4. PICK c \in list.start : Here \in Claim[c].arms
      BY <1>1, <2>4, MatchedByClaim DEF Checked
    <3>5. \A d \in list.start : \A b \in Arms : <<d, b>> \in Matching(Here, list.start) => d = c
      <4>1. OneClaim(Matching(Here, list.start)) /\ <<c, Here>> \in Matching(Here, list.start)
        BY <1>1, <2>4, <3>4, MatchedByClaim DEF Checked
      <4> QED  BY <4>1 DEF OneClaim
    <3>6. Claimers(list.start, Here) = {c}
      <4>1. \A d \in list.start : Here \in Claim[d].arms => <<d, Here>> \in Matching(Here, list.start)
        BY <1>1, MatchedByClaim
      <4> QED  BY <1>1, <3>4, <3>5, <4>1 DEF Claimers
    <3>7. Starting(Here, list.start) = c
      <4>1. <<c, Here>> \in Matching(Here, list.start)
        BY <1>1, <3>4, MatchedByClaim
      <4> QED  BY <1>1, <3>5, <4>1 DEF Starting
    <3>8. control_mode_'[Here] = ModeOf(c)
      BY <1>1, <2>4, <3>7 DEF SetMode, TypeOK, StartMode
    <3> QED  BY <1>1, <1>2, <2>1, <2>2, <3>3, <3>6, <3>8 DEF ArmHeld, Alone, Claimers
  <2> QED  BY <1>1, <2>3, <2>4
<1> QED  BY <1>2, <1>3, <1>4

LEMMA SetFlagHeld ==
  ASSUME Held, SetFlag
  PROVE  OneSwitch' /\ \A b \in Arms \ spoiled' : ArmHeld(b)'
<1>1. /\ TypeOK /\ OneSwitch /\ Here \in Arms /\ NextArm
      /\ prepare.pass \in {"stop", "start"} /\ prepare.at = "flag"
      /\ claimed' = claimed /\ control_mode_' = control_mode_
  BY HereIsAnArm DEF Held, Typed, SetFlag, TypeOK
<1>2. OneSwitch' /\ spoiled' = spoiled /\ prepare'.at = "check"
  BY <1>1, PassKeepsOneSwitch, NextArmTyped
<1>3. Passed(Here)
  BY <1>1 DEF Passed
<1>4. \A b \in Arms : Due(b)' = Due(b)
  <2>1. CASE prepare.pass = "stop"
    <3>1. Due(Here) = claimed \ prepare.list.stop
      BY <1>3, <2>1 DEF Due
    <3> QED  BY <1>1, <2>1, <3>1, PassStep
  <2>2. CASE prepare.pass = "start"
    <3>1. Due(Here) = (claimed \ prepare.list.stop) \cup prepare.list.start
      BY <1>3, <2>2 DEF Due
    <3> QED  BY <1>1, <2>2, <3>1, PassStep
  <2> QED  BY <1>1, <2>1, <2>2
<1>5. \A b \in Arms : Touched(b) => Touched(b)'
  BY <1>1 DEF SetFlag, Touched, InHand, TypeOK
<1> QED  BY <1>1, <1>2, <1>4, <1>5 DEF Held, ArmHeld, Alone, Claimers

LEMMA SwitchControllerHeld ==
  ASSUME Held, NEW start \in SUBSET Controllers, NEW stop \in SUBSET Controllers,
         SwitchController(start, stop)
  PROVE  OneSwitch' /\ \A b \in Arms \ spoiled' : ArmHeld(b)'
<1>1. /\ prepare = NotPreparing /\ request = NoRequest /\ stop \subseteq claimed
      /\ start \cup stop # {}
      /\ prepare' = [pass |-> "stop", i |-> 1, at |-> "check",
                     list |-> [start |-> start, stop |-> stop]]
      /\ UNCHANGED <<claimed, request, spoiled, control_mode_, switch_cm_>>
  BY DEF SwitchController, Asked, arms_, Held, OneSwitch
<1>2. OneSwitch'
  BY <1>1 DEF OneSwitch, NoRequest
<1>3. \A b \in Arms : Due(b)' = claimed /\ Due(b) = claimed
  <2>1. \A b \in Arms : ~Passed(b)'
    BY <1>1 DEF Passed
  <2> QED  BY <1>1, <2>1 DEF Due, NoRequest, NotPreparing
<1>4. \A b \in Arms : Touched(b)' <=> Touched(b)
  BY <1>1 DEF Touched, InHand, NotPreparing
<1> QED  BY <1>1, <1>2, <1>3, <1>4 DEF Held, ArmHeld, Alone, Claimers

LEMMA PerformHeld ==
  ASSUME Held, Perform
  PROVE  OneSwitch' /\ \A b \in Arms \ spoiled' : ArmHeld(b)'
<1>1. /\ prepare.pass = "none" /\ prepare = NotPreparing /\ request' = NoRequest
      /\ claimed' = (claimed \ request.stop) \cup request.start
      /\ UNCHANGED <<prepare, spoiled, control_mode_>>
  BY DEF Perform, Held, OneSwitch, Typed, TypeOK
<1>2. \A b \in Arms : Due(b) = claimed' /\ Due(b)' = claimed'
  BY <1>1 DEF Due, NoRequest
<1>3. OneSwitch'
  BY <1>1 DEF OneSwitch, NotPreparing
<1> QED  BY <1>1, <1>2, <1>3 DEF Held, ArmHeld, Alone, Claimers

LEMMA StepHeld ==
  ASSUME \A b \in Arms : NameIn[b] = {b}, Held, [Next]_vars
  PROVE  Held'
<1> SUFFICES OneSwitch' /\ \A b \in Arms \ spoiled' : ArmHeld(b)'
  BY StepTyped DEF Held
<1> DEFINE Kept == OneSwitch' /\ \A b \in Arms \ spoiled' : ArmHeld(b)'
<1>1. ASSUME NEW start \in SUBSET Controllers, NEW stop \in SUBSET Controllers,
             SwitchController(start, stop)
      PROVE  Kept
  BY <1>1, SwitchControllerHeld
<1>2. CASE StopArm
  BY <1>2, SkippedArm, CheckedArm, RefuseHeld DEF StopArm, At
<1>3. CASE StartArm
  BY <1>3, SkippedArm, CheckedArm, RefuseHeld DEF StartArm, At, arms_
<1>4. CASE SetMode \/ SetFlag
  BY <1>4, SetModeHeld, SetFlagHeld
<1>5. CASE Perform
  BY <1>5, PerformHeld
<1>6. CASE Activate
  <2>1. claimed' = {} /\ prepare' = NotPreparing /\ request' = NoRequest
    BY <1>6 DEF Activate, Idle, manager, Held, OneSwitch
  <2>2. \A b \in Arms : Due(b)' = {} /\ control_mode_'[b] = None
    BY <1>6, <2>1 DEF Activate, Due, NotPreparing, NoRequest
  <2>3. OneSwitch'
    BY <2>1 DEF OneSwitch, NotPreparing
  <2> QED  BY <2>1, <2>2, <2>3 DEF ArmHeld, Alone, Claimers
<1>7. ASSUME UNCHANGED <<prepare, request, claimed, spoiled, control_mode_, switch_cm_>>
      PROVE  Kept
  <2>1. OneSwitch'
    BY <1>7 DEF Held, OneSwitch
  <2>2. \A b \in Arms : (Due(b)' = Due(b)) /\ (Touched(b)' <=> Touched(b))
    BY <1>7 DEF Due, Passed, Here, Touched, InHand
  <2> QED  BY <1>7, <2>1, <2>2 DEF Held, ArmHeld, Alone, Claimers
<1>8. CASE Read \/ NoSwitch \/ Compute \/ Write \/ Deactivate
  BY <1>7, <1>8 DEF Read, NoSwitch, Compute, Write, Deactivate, arms_, manager
<1>9. ASSUME NEW a \in Faulty, Fault(a) \/ Recover(a)  PROVE Kept
  BY <1>7, <1>9 DEF Fault, Recover, arms_, manager
<1>10. CASE UNCHANGED vars
  BY <1>7, <1>10 DEF vars, arms_, manager
<1> QED
  BY <1>1, <1>2, <1>3, <1>4, <1>5, <1>6, <1>8, <1>9, <1>10 DEF Next

(* When no name of an arm occurs in another's, two active controllers      *)
(* share no arm but those that a refused request has changed, whatever is  *)
(* requested.                                                              *)
THEOREM ArmsHaveOneController ==
  ASSUME \A b \in Arms : NameIn[b] = {b}
  PROVE  Spec => []OneControllerUnlessSpoiled
<1>1. Held => OneControllerUnlessSpoiled
  <2> SUFFICES ASSUME Held, NEW c \in claimed, NEW d \in claimed, c # d,
                      NEW a \in Claim[c].arms \cap Claim[d].arms
               PROVE  a \in spoiled
    BY DEF OneControllerUnlessSpoiled
  <2>1. a \in Arms
    BY ClaimAssumption DEF Held, Typed, TypeOK
  <2> QED  BY <2>1 DEF Held, ArmHeld, Alone, Claimers
<1> QED  BY <1>1, InitHeld, StepHeld, PTL DEF Spec

(* With distinct names, between switches the interface holds an arm that   *)
(* is not spoiled for the mode of the controller that claims it, and for   *)
(* none if nobody does.                                                    *)
THEOREM ModesFollowClaims ==
  ASSUME \A b \in Arms : NameIn[b] = {b}
  PROVE  Spec => []ModeIsClaimed
<1>1. Held => ModeIsClaimed
  <2> SUFFICES ASSUME Held, Settled, NEW a \in Arms \ spoiled
               PROVE  IF Claimers(claimed, a) = {} THEN control_mode_[a] = None
                      ELSE \A c \in Claimers(claimed, a) : control_mode_[a] = ModeOf(c)
    BY DEF ModeIsClaimed, Claimers
  <2>1. Due(a) = claimed
    BY DEF Due, Settled, NoRequest
  <2> QED  BY <2>1 DEF Held, ArmHeld
<1> QED  BY <1>1, InitHeld, StepHeld, PTL DEF Spec

-----------------------------------------------------------------------------
(* The loops                                                               *)

LEMMA OneSwitchKept == TypeOK /\ OneSwitch /\ [Next]_vars => OneSwitch'
<1> SUFFICES ASSUME TypeOK, OneSwitch, [Next]_vars PROVE OneSwitch'
  OBVIOUS
<1>1. ASSUME NEW start \in SUBSET Controllers, NEW stop \in SUBSET Controllers,
             SwitchController(start, stop)
      PROVE  OneSwitch'
  BY <1>1 DEF SwitchController, Asked, NoRequest, OneSwitch
<1>2. CASE StopArm \/ StartArm \/ SetMode \/ SetFlag
  <2>1. UNCHANGED claimed /\ prepare.pass # "none"
        /\ (NextArm \/ Refuse \/ Goto("mode") \/ Goto("flag"))
    BY <1>2 DEF StopArm, StartArm, SetMode, SetFlag, At
  <2>2. Refuse => OneSwitch'
    BY <2>1 DEF Refuse, OneSwitch, NotPreparing
  <2> QED  BY <2>1, <2>2, PassKeepsOneSwitch, GotoKeeps
<1>3. CASE Perform
  BY <1>3 DEF Perform, OneSwitch, NotPreparing
<1>4. ASSUME UNCHANGED <<prepare, request, claimed>>  PROVE OneSwitch'
  BY <1>4 DEF OneSwitch
<1>5. CASE Read \/ NoSwitch \/ Compute \/ Write \/ Activate \/ Deactivate
  BY <1>4, <1>5 DEF Read, NoSwitch, Compute, Write, Activate, Deactivate, manager
<1>6. ASSUME NEW a \in Faulty, Fault(a) \/ Recover(a)  PROVE OneSwitch'
  BY <1>4, <1>6 DEF Fault, Recover, manager
<1>7. CASE UNCHANGED vars
  BY <1>4, <1>7 DEF vars, manager
<1> QED  BY <1>1, <1>2, <1>3, <1>5, <1>6, <1>7 DEF Next

(* The loop of a healthy arm is the one of its mode, or the passes have    *)
(* touched the arm and the switch is yet to be performed.                  *)
AlignedArm(a) == running[a] = control_mode_[a] \/ (~Settled /\ Touched(a))
Aligned ==
  active => \A a \in Arms \ (restarted \cup spoiled) : ~has_error[a] => AlignedArm(a)

LEMMA PassKeepsAligned ==
  ASSUME TypeOK, OneSwitch, Aligned, StopArm \/ StartArm \/ SetMode \/ SetFlag
  PROVE  Aligned'
<1>1. /\ prepare.pass # "none" /\ request = NoRequest /\ Here \in Arms
      /\ prepare.at = "check" => InHand = {}
      /\ prepare.at # "check" => InHand = {Here}
      /\ UNCHANGED <<active, restarted, has_error, running, claimed>>
  BY HereIsAnArm DEF StopArm, StartArm, SetMode, SetFlag, At, OneSwitch, InHand, robots
<1> SUFFICES ASSUME active, NEW a \in Arms \ (restarted \cup spoiled'), ~has_error[a]
             PROVE  AlignedArm(a)'
  BY <1>1 DEF Aligned
<1>2. CASE (StopArm \/ StartArm) /\ Refuse
  <2>1. a \notin spoiled /\ ~Touched(a) /\ UNCHANGED control_mode_
    BY <1>1, <1>2 DEF Refuse, Touched, StopArm, StartArm, At, arms_
  <2> QED  BY <1>1, <2>1 DEF Aligned, AlignedArm
<1>3. CASE NextArm /\ UNCHANGED control_mode_ /\ (\A b \in Arms : Touched(b) => switch_cm_'[b])
  <2>1. ~Settled'
    BY <1>1, PassKeepsOneSwitch, <1>3 DEF Settled, OneSwitch
  <2>2. AlignedArm(a)
    BY <1>1, <1>3 DEF Aligned, NextArm
  <2> QED  BY <1>1, <1>3, <2>1, <2>2 DEF AlignedArm, Touched
<1>4. CASE (StopArm \/ StartArm) /\ NextArm
  BY <1>1, <1>3, <1>4 DEF StopArm, StartArm, At, arms_, Touched
<1>5. CASE (StopArm \/ StartArm) /\ Goto("mode")
  <2>1. InHand' = {Here} /\ ~Settled' /\ UNCHANGED <<control_mode_, switch_cm_, spoiled>>
    BY <1>1, <1>5, GotoKeeps, GotoTyped DEF StopArm, StartArm, arms_, Settled
  <2>2. AlignedArm(a)
    BY <2>1 DEF Aligned
  <2>3. Touched(a) => Touched(a)'
    BY <1>1, <1>5, <2>1 DEF Touched, StopArm, StartArm, At
  <2> QED  BY <1>1, <2>1, <2>2, <2>3 DEF AlignedArm
<1>6. CASE SetMode
  <2>1. /\ InHand' = {Here} /\ ~Settled' /\ UNCHANGED <<switch_cm_, spoiled>>
        /\ a # Here => control_mode_'[a] = control_mode_[a]
        /\ InHand = {Here}
    BY <1>1, <1>6, GotoKeeps, GotoTyped DEF SetMode, Settled, TypeOK
  <2>2. AlignedArm(a)
    BY <2>1 DEF Aligned
  <2> QED  BY <1>1, <2>1, <2>2 DEF AlignedArm, Touched
<1>7. CASE SetFlag
  <2>1. \A b \in Arms : Touched(b) => switch_cm_'[b]
    BY <1>1, <1>7 DEF SetFlag, Touched, TypeOK
  <2> QED  BY <1>3, <1>7, <2>1 DEF SetFlag
<1> QED  BY <1>2, <1>4, <1>5, <1>6, <1>7 DEF StopArm, StartArm

LEMMA AlignedKept == TypeOK /\ OneSwitch /\ Aligned /\ [Next]_vars => Aligned'
<1> SUFFICES ASSUME TypeOK, OneSwitch, Aligned, [Next]_vars PROVE Aligned'
  OBVIOUS
<1>1. ASSUME NEW start \in SUBSET Controllers, NEW stop \in SUBSET Controllers,
             SwitchController(start, stop)
      PROVE  Aligned'
  <2>1. /\ UNCHANGED <<active, restarted, spoiled, has_error, running, control_mode_>>
        /\ Settled
    BY <1>1 DEF SwitchController, robots, arms_, Settled
  <2> QED  BY <2>1 DEF Aligned, AlignedArm
<1>2. CASE StopArm \/ StartArm \/ SetMode \/ SetFlag
  BY <1>2, PassKeepsAligned
<1>3. CASE Perform
  <2>1. InHand = {}
    BY <1>3 DEF Perform, OneSwitch, InHand, NotPreparing
  <2>2. \A a \in Arms : running'[a] = IF switch_cm_[a] THEN control_mode_[a] ELSE running[a]
    BY <1>3 DEF Perform, SwitchedModes
  <2>3. /\ UNCHANGED <<active, spoiled, has_error, control_mode_>>
        /\ \A a \in Arms \ restarted' : a \in restarted => switch_cm_[a]
    BY <1>3 DEF Perform
  <2> QED  BY <2>1, <2>2, <2>3 DEF Aligned, AlignedArm, Touched
<1>4. CASE Activate
  <2>1. \A a \in Arms : has_error'[a] = has_error[a] /\ (~has_error[a] =>
                          running'[a] = None /\ control_mode_'[a] = None)
    BY <1>4 DEF Activate
  <2> QED  BY <2>1 DEF Aligned, AlignedArm
<1>5. CASE Deactivate
  BY <1>5 DEF Deactivate, Aligned
<1>6. ASSUME UNCHANGED <<active, prepare, request, spoiled, control_mode_, switch_cm_>>,
             \A a \in Arms \ restarted' :
               a \notin restarted /\ (~has_error'[a] => ~has_error[a] /\ running'[a] = running[a])
      PROVE  Aligned'
  BY <1>6 DEF Aligned, AlignedArm, Settled, Touched, InHand, Here
<1>7. CASE Read
  BY <1>6, <1>7 DEF Read, manager
<1>8. CASE NoSwitch \/ Compute \/ Write
  BY <1>6, <1>8 DEF NoSwitch, Compute, Write, manager, arms_, robots
<1>9. ASSUME NEW a \in Faulty, Fault(a) \/ Recover(a)  PROVE Aligned'
  BY <1>6, <1>9, FaultyAssumption DEF Fault, Recover, manager, arms_, TypeOK
<1>10. CASE UNCHANGED vars
  BY <1>6, <1>10 DEF vars, manager, arms_, robots
<1> QED
  BY <1>1, <1>2, <1>3, <1>4, <1>5, <1>7, <1>8, <1>9, <1>10 DEF Next

(* Whatever names and claims there are, the loop of a healthy arm is the   *)
(* one its mode asks for, unless recovery chose it or a refused request    *)
(* has changed the arm.                                                    *)
THEOREM LoopsFollowModes == Spec => []LoopMatchesMode
<1>1. Init => Typed /\ OneSwitch /\ Aligned
  BY InitTyped DEF Init, OneSwitch, NotPreparing, Aligned
<1>2. Typed /\ OneSwitch /\ Aligned /\ [Next]_vars => Typed' /\ OneSwitch' /\ Aligned'
  BY StepTyped, OneSwitchKept, AlignedKept DEF Typed
<1>3. Aligned => LoopMatchesMode
  BY DEF Aligned, AlignedArm, LoopMatchesMode
<1> QED  BY <1>1, <1>2, <1>3, PTL DEF Spec

(* Both together: with distinct names the claims, modes and loops of an    *)
(* arm that is not spoiled agree between switches.                         *)
THEOREM ModesClaimsAndLoopsAgree ==
  ASSUME \A b \in Arms : NameIn[b] = {b}
  PROVE  Spec => []ModesAgree
<1>1. ModeIsClaimed /\ LoopMatchesMode => ModesAgree
  BY DEF ModesAgree
<1> QED  BY <1>1, ModesFollowClaims, LoopsFollowModes, PTL

-----------------------------------------------------------------------------
(* The commands                                                            *)

(* Between the controllers' update and the write, what a controller has    *)
(* computed lies ready for each of its arms, unless a pass stops it and    *)
(* has come to the arm: there its efforts and velocities are reset.        *)
Ready(c, a) == hw[a][ModeOf(c)] = c \/ (Touched(a) /\ c \in Stopping)
CommandsLieReady ==
  /\ computed \subseteq claimed
  /\ rt \in {"switch", "write"} =>
       \A c \in computed : \A a \in Claim[c].arms \ spoiled : Ready(c, a)

(* A step of the passes that leaves the commands alone.                    *)
LEMMA ReadyKept ==
  ASSUME CommandsLieReady, UNCHANGED <<hw, computed, claimed, rt>>,
         Stopping' = Stopping, spoiled' = spoiled, claimed \subseteq Controllers,
         \A a \in Arms : Touched(a) => Touched(a)'
  PROVE  CommandsLieReady'
<1> SUFFICES ASSUME rt \in {"switch", "write"}, NEW c \in computed,
                    NEW a \in Claim[c].arms \ spoiled
             PROVE  Ready(c, a)'
  BY DEF CommandsLieReady
<1>1. Ready(c, a) /\ a \in Arms
  BY ClaimAssumption DEF CommandsLieReady
<1> QED  BY <1>1 DEF Ready

(* Who is stopped loses what it computed; nobody else does, as the arm is  *)
(* not shared.                                                             *)
LEMMA ResetReady ==
  ASSUME \A b \in Arms : NameIn[b] = {b}, Held, CommandsLieReady, StopArm,
         hw' = Reset(Here, prepare.list.stop), Goto("mode")
  PROVE  CommandsLieReady'
<1>1. /\ TypeOK /\ OneSwitch /\ Here \in Arms /\ prepare.pass = "stop" /\ InHand = {}
      /\ prepare.list.stop \subseteq claimed /\ claimed \subseteq Controllers
      /\ UNCHANGED <<computed, claimed, rt, switch_cm_>>
  BY HereIsAnArm DEF StopArm, At, Held, Typed, OneSwitch, InHand, TypeOK
<1>2. InHand' = {Here} /\ spoiled' = spoiled /\ Stopping' = Stopping
  BY <1>1, GotoKeeps, GotoTyped
<1> SUFFICES ASSUME rt \in {"switch", "write"}, NEW c \in computed,
                    NEW a \in Claim[c].arms \ spoiled
             PROVE  Ready(c, a)'
  BY <1>1, <1>2 DEF CommandsLieReady
<1>3. Ready(c, a) /\ c \in claimed /\ a \in Arms /\ ModeOf(c) \in Modes
  BY <1>1, ClaimAssumption, ModesAreModes DEF CommandsLieReady
<1>4. CASE c \in prepare.list.stop /\ a = Here
  BY <1>1, <1>2, <1>4 DEF Ready, Touched, Stopping
<1>5. CASE a # Here
  <2>1. hw'[a] = hw[a]
    BY <1>3, <1>5 DEF Reset, TypeOK
  <2> QED  BY <1>1, <1>2, <1>3, <2>1 DEF Ready, Touched
<1>6. CASE c \notin prepare.list.stop /\ a = Here
  <2>1. \A e \in prepare.list.stop : Here \notin Claim[e].arms
    BY <1>1, <1>3, <1>6 DEF Held, ArmHeld, Alone, Claimers
  <2>2. ResetBy(Here, prepare.list.stop) = {}
    BY <1>1, <2>1 DEF ResetBy, Matching
  <2>3. hw'[a][ModeOf(c)] = hw[a][ModeOf(c)]
    BY <1>1, <1>3, <1>6, <2>2 DEF Reset, TypeOK, Commands
  <2> QED  BY <1>1, <1>2, <1>3, <2>3 DEF Ready, Touched
<1> QED  BY <1>4, <1>5, <1>6

LEMMA PassReady ==
  ASSUME \A b \in Arms : NameIn[b] = {b}, Held, CommandsLieReady,
         StopArm \/ StartArm \/ SetMode \/ SetFlag
  PROVE  CommandsLieReady'
<1>1. /\ TypeOK /\ OneSwitch /\ Here \in Arms /\ prepare.pass # "none"
      /\ claimed \subseteq Controllers
      /\ prepare.at = "check" => InHand = {}
      /\ prepare.at # "check" => InHand = {Here}
      /\ UNCHANGED <<computed, claimed, rt>>
  BY HereIsAnArm
  DEF StopArm, StartArm, SetMode, SetFlag, At, Held, Typed, OneSwitch, InHand, TypeOK
<1>2. CASE (StopArm \/ StartArm) /\ Refuse /\ UNCHANGED hw
  <2> SUFFICES ASSUME rt \in {"switch", "write"}, NEW c \in computed,
                      NEW a \in Claim[c].arms \ spoiled'
               PROVE  hw[a][ModeOf(c)] = c
    BY <1>1, <1>2 DEF CommandsLieReady, Ready
  <2>1. a \in Arms
    BY <1>1, ClaimAssumption DEF CommandsLieReady
  <2>2. a \notin spoiled /\ ~Touched(a)
    BY <1>1, <1>2, <2>1 DEF Refuse, Touched, StopArm, StartArm, At
  <2> QED  BY <2>2 DEF CommandsLieReady, Ready
<1>3. CASE NextArm /\ UNCHANGED hw /\ (\A b \in Arms : Touched(b) => switch_cm_'[b])
  <2>1. Stopping' = Stopping /\ spoiled' = spoiled
    BY <1>1, <1>3, PassKeepsOneSwitch
  <2>2. \A b \in Arms : Touched(b) => Touched(b)'
    BY <1>3 DEF Touched
  <2> QED  BY <1>1, <1>3, <2>1, <2>2, ReadyKept
<1>4. CASE (StopArm \/ StartArm) /\ NextArm /\ UNCHANGED hw
  BY <1>1, <1>3, <1>4 DEF StopArm, StartArm, At, arms_, Touched
<1>5. CASE (StartArm \/ SetMode) /\ (Goto("mode") \/ Goto("flag")) /\ UNCHANGED hw
  <2>1. InHand' = {Here} /\ Stopping' = Stopping /\ UNCHANGED <<switch_cm_, spoiled>>
    BY <1>1, <1>5, GotoKeeps, GotoTyped DEF StartArm, SetMode, arms_
  <2>2. \A b \in Arms : Touched(b) => Touched(b)'
    BY <1>1, <2>1 DEF Touched
  <2> QED  BY <1>1, <1>5, <2>1, <2>2, ReadyKept
<1>6. CASE SetFlag
  <2>1. \A b \in Arms : Touched(b) => switch_cm_'[b]
    BY <1>1, <1>6 DEF SetFlag, Touched, TypeOK
  <2> QED  BY <1>3, <1>6, <2>1 DEF SetFlag
<1>7. CASE StopArm /\ hw' = Reset(Here, prepare.list.stop) /\ Goto("mode")
  BY <1>7, ResetReady
<1> QED  BY <1>2, <1>4, <1>5, <1>6, <1>7 DEF StopArm, StartArm, SetMode, arms_

(* The controllers write into the interfaces of their own arms only, and   *)
(* the joint interfaces are the ones that lead into hw.                    *)
LEMMA ComputeReady ==
  ASSUME \A c \in Controllers : Claim[c].space = "joint", Held, Compute
  PROVE  CommandsLieReady'
<1>1. claimed \subseteq Controllers
  BY DEF Held, Typed, TypeOK
<1>2. computed' = claimed /\ claimed' = claimed /\ spoiled' = spoiled
  BY DEF Compute
<1>3. ASSUME NEW c \in claimed, NEW a \in Claim[c].arms \ spoiled
      PROVE  hw'[a][ModeOf(c)] = c
  <2>1. c \in Controllers /\ a \in Arms /\ ModeOf(c) \in Modes
    BY <1>1, ClaimAssumption DEF Modes
  <2>2. Exported(ModeOf(c))
    BY <2>1, ClaimAssumption DEF Exported, ModeOf, Mode, Whats, JointModes
  <2>3. Computed(a, ModeOf(c)) = {c}
    BY <1>1, <1>3, <2>1, <2>2 DEF Computed, Held, ArmHeld, Alone, Claimers
  <2>4. hw'[a][ModeOf(c)] = CHOOSE d \in {c} : TRUE
    BY <2>1, <2>3 DEF Compute
  <2> QED  BY <2>4
<1> QED  BY <1>2, <1>3 DEF CommandsLieReady, Ready

LEMMA CommandsLieReadyKept ==
  ASSUME \A b \in Arms : NameIn[b] = {b},
         \A c \in Controllers : Claim[c].space = "joint",
         Held, CommandsLieReady, [Next]_vars
  PROVE  CommandsLieReady'
<1>1. ASSUME NEW start \in SUBSET Controllers, NEW stop \in SUBSET Controllers,
             SwitchController(start, stop)
      PROVE  CommandsLieReady'
  <2>1. Stopping = {} /\ UNCHANGED <<hw, computed, claimed, rt, spoiled>>
    BY <1>1 DEF SwitchController, arms_, Stopping, NoRequest, Held, OneSwitch, NotPreparing
  <2> QED  BY <2>1 DEF CommandsLieReady, Ready
<1>2. CASE StopArm \/ StartArm \/ SetMode \/ SetFlag
  BY <1>2, PassReady
<1>3. CASE Perform
  <2>1. Stopping = request.stop /\ computed' = computed \ request.stop
        /\ claimed' = (claimed \ request.stop) \cup request.start
        /\ UNCHANGED <<hw, spoiled>> /\ rt = "switch"
    BY <1>3 DEF Perform, Stopping, NoRequest, Held, OneSwitch, NotPreparing
  <2> QED  BY <2>1 DEF CommandsLieReady, Ready
<1>4. CASE Compute
  BY <1>4, ComputeReady
<1>5. ASSUME UNCHANGED <<hw, computed, claimed, rt, prepare, request, spoiled, switch_cm_>>
      PROVE  CommandsLieReady'
  BY <1>5 DEF CommandsLieReady, Ready, Touched, InHand, Here, Stopping
<1>6. CASE NoSwitch
  BY <1>6 DEF NoSwitch, CommandsLieReady, arms_, manager, Ready, Touched, InHand, Here, Stopping
<1>7. CASE Read \/ Write \/ Activate \/ Deactivate
  BY <1>7 DEF Read, Write, Activate, Deactivate, Idle, CommandsLieReady, manager
<1>8. ASSUME NEW a \in Faulty, Fault(a) \/ Recover(a)  PROVE CommandsLieReady'
  BY <1>5, <1>8 DEF Fault, Recover, arms_, manager
<1>9. CASE UNCHANGED vars
  BY <1>5, <1>9 DEF vars, arms_, manager
<1> QED
  BY <1>1, <1>2, <1>3, <1>4, <1>6, <1>7, <1>8, <1>9 DEF Next

(* With distinct names and when only joint interfaces are claimed (the     *)
(* Cartesian ones lead nowhere), what a controller computed reaches its    *)
(* arms in the same cycle, up to the first arm in error, wherever the      *)
(* service thread is, but for the arms at which it has just been stopped   *)
(* and those that a refused request has changed.                           *)
THEOREM ComputedCommandsArrive ==
  ASSUME \A b \in Arms : NameIn[b] = {b},
         \A c \in Controllers : Claim[c].space = "joint"
  PROVE  Spec => CommandsArrive
<1>1. Init => Held /\ CommandsLieReady
  BY InitHeld DEF Init, CommandsLieReady
<1>2. Held /\ CommandsLieReady /\ [Next]_vars => Held' /\ CommandsLieReady'
  BY StepHeld, CommandsLieReadyKept
<1> DEFINE Arrives ==
      rt = "write" /\ rt' = "read" =>
        \A c \in computed : \A a \in Claim[c].arms \ spoiled :
          ~(c \in Stopping /\ Touched(a)) /\ (\A b \in UpTo(a) : ~has_error[b]) =>
            cmd'[a][ModeOf(c)] = c
<1>3. Held /\ CommandsLieReady /\ [Next]_vars => [Arrives]_vars
  <2> SUFFICES ASSUME Held, CommandsLieReady, [Next]_vars, rt = "write", rt' = "read",
                      NEW c \in computed, NEW a \in Claim[c].arms \ spoiled,
                      ~(c \in Stopping /\ Touched(a)), \A b \in UpTo(a) : ~has_error[b]
               PROVE  cmd'[a][ModeOf(c)] = c
    OBVIOUS
  <2>1. Write
    BY DEF Next, SwitchController, StopArm, StartArm, SetMode, SetFlag, Read, Compute,
           Perform, NoSwitch, Activate, Deactivate, Idle, Fault, Recover, vars
  <2>2. a \in Arms
    BY ClaimAssumption DEF Held, Typed, TypeOK, CommandsLieReady
  <2>3. hw[a][ModeOf(c)] = c
    BY DEF CommandsLieReady, Ready
  <2> QED  BY <2>1, <2>2, <2>3 DEF Write, Reached
<1> QED  BY <1>1, <1>2, <1>3, PTL DEF Spec, CommandsArrive

=============================================================================
