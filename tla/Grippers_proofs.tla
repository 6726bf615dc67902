--------------------------- MODULE Grippers_proofs ---------------------------
(***************************************************************************)
(* For any goals, targets and widths: the server of the real gripper       *)
(* implements the promise GoalServer, through cancels, calls of ~/stop,    *)
(* shutdown, a failing device and commands of several goals that meet in   *)
(* it; the server of the simulated one cuts only what was to be cut.       *)
(***************************************************************************)
EXTENDS MCGrippers, TLAPS

-----------------------------------------------------------------------------
(* The server of the real gripper                                          *)

(* Where the thread of a goal is tells how far the goal and its command    *)
(* are: no command before Call, none left open after "wait", and only a    *)
(* goal asked to cancel waits for the command that was stopped.            *)
InStep(g) ==
  /\ thread[g] = "none" <=> goal[g] = "none"
  /\ thread[g] \in {"none", "start"} => motion[g] = "none"
  /\ thread[g] \in {"start", "wait", "check", "get"} => goal[g] \in Active
  /\ thread[g] \in {"wait", "check", "get"} => motion[g] # "none"
  /\ thread[g] = "get" => goal[g] = "canceling"
  /\ thread[g] = "gone" => motion[g] \in {"none", "completed", "cut"}

Good == TypeOK /\ \A g \in Goals : InStep(g)

LEMMA TypesOfStopped ==
  ASSUME motion \in [Goals -> Motions]
  PROVE  /\ Stopped \in [Goals -> Motions]
         /\ \A g \in Goals : /\ Stopped[g] = "none" <=> motion[g] = "none"
                             /\ MotionEnded(g) => Stopped[g] = motion[g]
BY DEF Stopped, Motions, MotionEnded

LEMMA InitGood == Init => Good
BY DEF Init, Good, TypeOK, InStep, Status, Threads, Motions

-----------------------------------------------------------------------------
(* The executor and the device                                             *)

LEMMA DeviceGood ==
  ASSUME Good, UNCHANGED <<goal, thread, current_gripper_state_, ok, terminated>>,
         motion' \in [Goals -> Motions], width' \in Widths,
         \A g \in Goals : /\ motion'[g] = "none" <=> motion[g] = "none"
                          /\ MotionEnded(g) => motion'[g] = motion[g]
  PROVE  Good'
BY DEF Good, TypeOK, InStep, MotionEnded

LEMMA ExecutorGood ==
  ASSUME Good, NEW g \in Goals, handleGoal(g) \/ handleCancel(g)
  PROVE  Good'
<1>1. TypeOK'
  BY DEF Good, TypeOK, handleGoal, handleCancel, Canceling, Status, Active, Threads, device
<1>2. ASSUME NEW h \in Goals PROVE InStep(h)'
  BY DEF Good, TypeOK, InStep, handleGoal, handleCancel, Canceling, Sent, Active, device
<1> QED  BY <1>1, <1>2 DEF Good

LEMMA CommandGood ==
  ASSUME Good, NEW g \in Goals, Send(g) \/ Move(g) \/ Return(g)
  PROVE  Good'
<1>1. CASE Send(g)
  <2>1. motion \in [Goals -> Motions] /\ width \in Widths /\ motion[g] = "called"
    BY <1>1 DEF Good, TypeOK, Send
  <2>2. \/ motion' = [Stopped EXCEPT ![g] = "moving"]
        \/ motion' = [motion EXCEPT ![g] = "cut"]
    BY <1>1 DEF Send
  <2>3. /\ motion' \in [Goals -> Motions]
        /\ \A h \in Goals : /\ motion'[h] = "none" <=> motion[h] = "none"
                            /\ MotionEnded(h) => motion'[h] = motion[h]
    BY <2>1, <2>2, TypesOfStopped DEF Motions, MotionEnded
  <2> QED  BY <1>1, <2>1, <2>3, DeviceGood DEF Send
<1>2. CASE Move(g)
  BY <1>2, DeviceGood DEF Move, Good, TypeOK
<1>3. CASE Return(g)
  <2>1. motion \in [Goals -> Motions] /\ width \in Widths /\ motion[g] = "moving"
    BY <1>3 DEF Good, TypeOK, Return
  <2>2. motion' \in {[motion EXCEPT ![g] = "completed"], [motion EXCEPT ![g] = "cut"]}
    BY <1>3 DEF Return
  <2>3. width' \in Widths
    BY <1>3, <2>1, GoalAssumption DEF Return, Reached, Widths
  <2>4. /\ motion' \in [Goals -> Motions]
        /\ \A h \in Goals : /\ motion'[h] = "none" <=> motion[h] = "none"
                            /\ MotionEnded(h) => motion'[h] = motion[h]
    BY <2>1, <2>2 DEF Motions, MotionEnded
  <2> QED  BY <1>3, <2>3, <2>4, DeviceGood DEF Return
<1> QED  BY <1>1, <1>2, <1>3

-----------------------------------------------------------------------------
(* The thread of a goal                                                    *)

LEMMA ThreadGood ==
  ASSUME Good, NEW g \in Goals, Thread(g)
  PROVE  Good'
<1>1. CASE \E how \in Ended : End(g, how) /\ (motion[g] = "none" \/ MotionEnded(g))
  BY <1>1 DEF End, Good, TypeOK, InStep, Ended, Active, Status, Threads, MotionEnded, device
<1>2. CASE Call(g) /\ thread[g] = "start"
  BY <1>2 DEF Call, Good, TypeOK, InStep, Motions, Threads
<1>3. CASE Timeout(g) \/ Feedback(g) \/ Leave(g)
  BY <1>3 DEF Timeout, Feedback, Leave, At, Good, TypeOK, InStep, Threads, Motions,
     MotionEnded, device
<1>4. CASE Stop(g)
  <2>1. CASE terminated'
    BY <1>4, <2>1 DEF Stop, At, Good, TypeOK, InStep
  <2>2. CASE ~terminated'
    BY <1>4, <2>2, TypesOfStopped DEF Stop, At, Good, TypeOK, InStep, Threads, Motions,
       MotionEnded
  <2> QED  BY <2>1, <2>2
<1> QED
  BY <1>1, <1>2, <1>3, <1>4 DEF Thread, Execute, onExecuteGripperCommand, Canceled,
     Finish, At, Ended, Good, InStep

LEMMA StepGood == Good /\ [Next]_vars => Good'
<1> SUFFICES ASSUME Good, [Next]_vars PROVE Good'
  OBVIOUS
<1>1. CASE stopServiceCallback
  BY <1>1, TypesOfStopped, DeviceGood DEF stopServiceCallback, Good, TypeOK
<1>2. CASE publishGripperState \/ Shutdown \/ UNCHANGED vars
  BY <1>2 DEF publishGripperState, Shutdown, Good, TypeOK, InStep, device, vars
<1> QED  BY <1>1, <1>2, ExecutorGood, CommandGood, ThreadGood DEF Next

-----------------------------------------------------------------------------
(* The promise                                                             *)

(* The device changes only motions that run, and only by ending them.      *)
LEMMA HaltImplements ==
  ASSUME motion \in [Goals -> Motions], motion' \in [Goals -> Motions],
         UNCHANGED goal,
         \A g \in Goals :
           motion'[g] # motion[g] => /\ motion[g] \in {"called", "moving"}
                                    /\ motion'[g] \in {"moving", "completed", "cut"}
  PROVE  Promise!Next
<1>1. motionOf' \in [Goals -> {"none", "running", "completed", "cut"}]
  BY DEF motionOf, Motions
<1>2. ASSUME NEW g \in Goals, motionOf'[g] # motionOf[g]
      PROVE  motionOf[g] = "running" /\ motionOf'[g] \in {"completed", "cut"}
  BY <1>2 DEF motionOf, Motions
<1> QED  BY <1>1, <1>2 DEF Promise!Next, Promise!Halt

LEMMA DeviceImplements ==
  ASSUME Good, UNCHANGED goal,
         \/ motion' = Stopped
         \/ \E g \in Goals : Send(g) \/ Return(g)
  PROVE  Promise!Next
<1>1. motion \in [Goals -> Motions] /\ Stopped \in [Goals -> Motions]
  BY TypesOfStopped DEF Good, TypeOK
<1>2. CASE motion' = Stopped
  BY <1>1, <1>2, HaltImplements DEF Stopped
<1>3. ASSUME NEW g \in Goals, Send(g) \/ Return(g) PROVE Promise!Next
  <2>1. /\ motion[g] \in {"called", "moving"}
        /\ \/ motion' = [Stopped EXCEPT ![g] = "moving"]
           \/ motion' = [motion EXCEPT ![g] = "cut"]
           \/ motion' = [motion EXCEPT ![g] = "completed"]
    BY <1>3 DEF Send, Return
  <2>2. motion' \in [Goals -> Motions]
    BY <1>1, <2>1 DEF Motions
  <2>3. ASSUME NEW h \in Goals, motion'[h] # motion[h]
        PROVE  /\ motion[h] \in {"called", "moving"}
               /\ motion'[h] \in {"moving", "completed", "cut"}
    BY <1>1, <2>1, <2>3 DEF Stopped
  <2> QED  BY <1>1, <2>2, <2>3, HaltImplements
<1> QED  BY <1>2, <1>3

LEMMA CallImplements ==
  ASSUME Good, NEW g \in Goals, Call(g), thread[g] = "start"
  PROVE  Promise!Next
<1>1. /\ goal[g] \in Active /\ motion[g] = "none" /\ goal' = goal
      /\ motion \in [Goals -> Motions] /\ motion' = [motion EXCEPT ![g] = "called"]
  BY DEF Good, TypeOK, InStep, Call
<1>2. motionOf[g] = "none" /\ motionOf' = [motionOf EXCEPT ![g] = "running"]
  BY <1>1 DEF motionOf
<1> QED  BY <1>1, <1>2 DEF Promise!Next, Promise!Begin, Active, Promise!Active

LEMMA EndImplements ==
  ASSUME Good, NEW g \in Goals, NEW how \in Ended, End(g, how),
         goal[g] \in Active, motion[g] \in {"none", "completed", "cut"},
         how = "succeeded" => motion[g] # "cut",
         how = "canceled" => goal[g] = "canceling"
  PROVE  Promise!Next
<1>1. goal' = [goal EXCEPT ![g] = how] /\ motionOf' = motionOf
  BY DEF End, device, motionOf
<1>2. motionOf[g] = motion[g]
  BY DEF motionOf
<1> QED
  BY <1>1, <1>2
  DEF Promise!Next, Promise!End, Active, Promise!Active, Ended, Promise!Ended

LEMMA ThreadImplements ==
  ASSUME Good, NEW g \in Goals, Thread(g)
  PROVE  Promise!Next \/ UNCHANGED <<goal, motionOf>>
<1>1. motion[g] \in Motions /\ InStep(g)
  BY DEF Good, TypeOK
<1>2. CASE Execute(g)
  BY <1>2, CallImplements DEF Execute, At
<1>3. CASE onExecuteGripperCommand(g)
  BY <1>1, <1>3, CallImplements, EndImplements
  DEF onExecuteGripperCommand, At, InStep, Ended
<1>4. CASE Timeout(g) \/ Feedback(g) \/ Leave(g)
  BY <1>4 DEF Timeout, Feedback, Leave, device, motionOf
<1>5. CASE Stop(g)
  <2>1. CASE motion' = Stopped
    BY <1>5, <2>1, DeviceImplements DEF Stop
  <2>2. CASE UNCHANGED motion
    BY <1>5, <2>2 DEF Stop, motionOf
  <2> QED  BY <1>5, <2>1, <2>2 DEF Stop
<1>6. CASE Canceled(g)
  BY <1>1, <1>6, EndImplements DEF Canceled, At, MotionEnded, InStep, Ended, Active
<1>7. CASE Finish(g)
  BY <1>1, <1>7, EndImplements DEF Finish, At, MotionEnded, InStep, Ended
<1> QED  BY <1>2, <1>3, <1>4, <1>5, <1>6, <1>7 DEF Thread

LEMMA StepImplements ==
  Good /\ [Next]_vars => [Promise!Next]_<<goal, motionOf>>
<1> SUFFICES ASSUME Good, [Next]_vars
             PROVE  Promise!Next \/ UNCHANGED <<goal, motionOf>>
  OBVIOUS
<1>1. ASSUME NEW g \in Goals, handleGoal(g) PROVE Promise!Next
  BY <1>1 DEF handleGoal, Sent, device, motionOf, Promise!Next, Promise!Accept
<1>2. ASSUME NEW g \in Goals, handleCancel(g) PROVE Promise!Next
  BY <1>2 DEF handleCancel, Canceling, device, motionOf, Promise!Next, Promise!Cancel
<1>3. ASSUME NEW g \in Goals, Send(g) \/ Return(g) PROVE Promise!Next
  BY <1>3, DeviceImplements DEF Send, Return
<1>4. CASE stopServiceCallback
  BY <1>4, DeviceImplements DEF stopServiceCallback
<1>5. CASE (\E g \in Goals : Move(g)) \/ publishGripperState \/ Shutdown \/ UNCHANGED vars
  BY <1>5 DEF Move, publishGripperState, Shutdown, vars, device, motionOf
<1> QED  BY <1>1, <1>2, <1>3, <1>4, <1>5, ThreadImplements DEF Next

-----------------------------------------------------------------------------
(* The server of the simulated gripper                                     *)

InLoop == {"loop", "write"}
Pulled == {"none", "completed", "cut"}

(* How far the loop of a goal can still go: the steps left keep what is    *)
(* commanded within reach, whatever width it started from.                 *)
Reach(g) ==
  LET l == loop[g] IN
  /\ motion[g] = "called" => l.left <= Extra
  /\ motion[g] \in InLoop => l.cur + l.sgn * l.left \in (-Extra)..(max_width + Extra)
  /\ motion[g] = "write" => l.left > 0
  /\ motion[g] = "close" => l.cur > 0
  /\ motion[g] = "open" => l.cur < max_width

(* As for the real server; and a goal asked to cancel is remembered.       *)
SimInStep(g) ==
  /\ thread[g] = "none" <=> goal[g] = "none"
  /\ thread[g] \in {"none", "start"} => motion[g] = "none"
  /\ thread[g] \in {"start", "wait", "check", "get"} => goal[g] \in Active
  /\ thread[g] = "gone" => motion[g] \in Pulled
  /\ goal[g] = "canceling" => g \in asked

SimGood == sim!TypeOK /\ \A g \in Goals : Reach(g) /\ SimInStep(g)

(* With clients that take turns, the shared flag is raised only against    *)
(* the one goal that is active.                                            *)
FlagIsTheirs ==
  /\ \A g, h \in Goals : goal[g] \in Active /\ goal[h] \in Active => g = h
  /\ \A g \in Goals : is_canceled_ /\ goal[g] \in Active => g \in asked
  /\ \A g \in Goals : motion[g] = "cut" => g \in asked

LEMMA SimInitGood == sim!Init => SimGood /\ FlagIsTheirs
BY GoalAssumption, ExtraAssumption
DEF sim!Init, SimGood, FlagIsTheirs, sim!TypeOK, Reach, SimInStep, sim!Idle, Pulled, InLoop,
    Active, sim!Status, sim!Active, sim!Ended, sim!Threads, sim!Motions, sim!Widths

-----------------------------------------------------------------------------
(* Its executor and the threads of its goals                               *)

LEMMA SimExecutorGood ==
  ASSUME SimGood,
         \/ \E g \in Goals : sim!handleGoal(g) \/ sim!handleCancel(g) \/ sim!CancelGoal(g)
         \/ sim!stopServiceCallback \/ sim!publishGripperState \/ sim!Shutdown \/ sim!Plant
         \/ UNCHANGED sim!vars
  PROVE  SimGood'
<1>1. ASSUME NEW g \in Goals, sim!handleGoal(g) \/ sim!handleCancel(g) \/ sim!CancelGoal(g)
      PROVE  SimGood'
  <2>1. sim!TypeOK'
    BY <1>1 DEF SimGood, sim!TypeOK, sim!handleGoal, sim!handleCancel, sim!CancelGoal,
       sim!Canceling, sim!shared, sim!Active, sim!Status, sim!Threads
  <2>2. ASSUME NEW h \in Goals PROVE Reach(h)'
    BY <1>1 DEF SimGood, Reach, sim!handleGoal, sim!handleCancel, sim!CancelGoal, sim!shared
  <2>3. ASSUME NEW h \in Goals PROVE SimInStep(h)'
    BY <1>1 DEF SimGood, sim!TypeOK, SimInStep, sim!handleGoal, sim!handleCancel,
       sim!CancelGoal, sim!Canceling, sim!Sent, sim!shared, Active, Pulled
  <2> QED  BY <2>1, <2>2, <2>3 DEF SimGood
<1>2. CASE sim!Plant
  BY <1>2, GoalAssumption
  DEF SimGood, sim!TypeOK, Reach, SimInStep, sim!Plant, sim!Widths, sim!shared
<1>3. CASE \/ sim!stopServiceCallback \/ sim!publishGripperState \/ sim!Shutdown
           \/ UNCHANGED sim!vars
  BY <1>3 DEF SimGood, sim!TypeOK, Reach, SimInStep, sim!stopServiceCallback,
     sim!publishGripperState, sim!Shutdown, sim!simGripperStop, sim!shared, sim!vars
<1> QED  BY <1>1, <1>2, <1>3

LEMMA SimThreadGood ==
  ASSUME SimGood, NEW g \in Goals, sim!Thread(g)
  PROVE  SimGood'
<1>1. CASE \E how \in Ended : /\ sim!End(g, how)
                             /\ thread[g] # "none" /\ motion[g] \in Pulled
  BY <1>1 DEF sim!End, SimGood, sim!TypeOK, Reach, SimInStep, Ended, sim!Ended, sim!Active,
     Active, sim!Status, sim!Threads, sim!shared
<1>2. CASE sim!Call(g) /\ thread[g] = "start"
  <2>1. sim!TypeOK'
    BY <1>2, GoalAssumption, ExtraAssumption
    DEF sim!Call, SimGood, sim!TypeOK, sim!Motions, sim!Threads, sim!shared
  <2>2. ASSUME NEW h \in Goals PROVE Reach(h)' /\ SimInStep(h)'
    BY <1>2, GoalAssumption, ExtraAssumption
    DEF sim!Call, SimGood, sim!TypeOK, Reach, SimInStep, Pulled, InLoop, sim!shared
  <2> QED  BY <2>1, <2>2 DEF SimGood
<1>3. CASE \E pc \in {"check", "wait", "gone"} :
             /\ sim!Goto(g, pc) /\ thread[g] \in {"wait", "check"}
             /\ pc = "gone" => motion[g] \in Pulled
  BY <1>3 DEF sim!Goto, SimGood, sim!TypeOK, Reach, SimInStep, sim!Threads, sim!shared
<1>4. CASE sim!Stop(g)
  BY <1>4 DEF sim!Stop, sim!simGripperStop, SimGood, sim!TypeOK, Reach, SimInStep, sim!Threads
<1> QED
  BY <1>1, <1>2, <1>3, <1>4
  DEF sim!Thread, sim!Execute, sim!onExecuteGripperCommand, sim!Timeout, sim!Feedback,
      sim!Canceled, sim!Finish, sim!Leave, sim!MotionEnded, Pulled, Ended, SimGood, SimInStep

-----------------------------------------------------------------------------
(* The loops of its commands                                               *)

(* A loop changes the motion and the loop of its goal alone.               *)
LEMMA LoopGood ==
  ASSUME SimGood, NEW g \in Goals, NEW next \in sim!Motions, NEW mine,
         motion[g] \notin Pulled, next # "none",
         motion' = [motion EXCEPT ![g] = next], loop' = [loop EXCEPT ![g] = mine],
         command' \in sim!Widths,
         UNCHANGED <<goal, thread, width, current_gripper_state_, ok, is_canceled_, asked>>,
         mine \in [cur : (-max_width - Extra)..(max_width + Extra),
                   left : 0..(max_width + Extra), sgn : {-1, 1}],
         next # "called",
         next \in InLoop => mine.cur + mine.sgn * mine.left \in (-Extra)..(max_width + Extra),
         next = "write" => mine.left > 0,
         next = "close" => mine.cur > 0, next = "open" => mine.cur < max_width
  PROVE  SimGood'
<1>1. sim!TypeOK'
  BY DEF SimGood, sim!TypeOK
<1>2. ASSUME NEW h \in Goals PROVE Reach(h)' /\ SimInStep(h)'
  <2>1. CASE h = g
    BY <2>1 DEF SimGood, sim!TypeOK, Reach, SimInStep, Pulled, InLoop
  <2>2. CASE h # g
    BY <2>2 DEF SimGood, sim!TypeOK, Reach, SimInStep, Pulled, InLoop
  <2> QED  BY <2>1, <2>2
<1> QED  BY <1>1, <1>2 DEF SimGood

(* What one step of a loop commands stays within the widths, and the loop  *)
(* within its reach.                                                       *)
LEMMA StepStays ==
  ASSUME SimGood, NEW g \in Goals, NEW next, NEW sgn \in {-1, 1}, sim!Step(g, next, sgn),
         motion[g] \notin Pulled, next \in {"closing", "opening", "loop"},
         loop[g].cur + sgn \in (-max_width - Extra)..(max_width + Extra),
         next = "loop" => /\ loop[g].left > 0 /\ sgn = loop[g].sgn
                          /\ loop[g].cur + sgn * loop[g].left
                               \in (-Extra)..(max_width + Extra)
  PROVE  SimGood'
<1> DEFINE mine == sim!Stepped(loop[g], sgn)
<1>1. loop[g] \in [cur : (-max_width - Extra)..(max_width + Extra),
                   left : 0..(max_width + Extra), sgn : {-1, 1}]
  BY DEF SimGood, sim!TypeOK
<1>2. /\ mine.cur = loop[g].cur + sgn /\ mine.sgn = loop[g].sgn
      /\ mine.left = IF loop[g].left > 0 THEN loop[g].left - 1 ELSE 0
  BY DEF sim!Stepped
<1>3. mine \in [cur : (-max_width - Extra)..(max_width + Extra),
                left : 0..(max_width + Extra), sgn : {-1, 1}]
  BY <1>1, GoalAssumption, ExtraAssumption DEF sim!Stepped
<1>4. next = "loop" => mine.cur + mine.sgn * mine.left \in (-Extra)..(max_width + Extra)
  BY <1>1, <1>2, GoalAssumption, ExtraAssumption
<1>5. command' \in sim!Widths
  <2>1. command' = sim!Least(max_width, IF loop[g].cur + sgn < 0 THEN 0 ELSE loop[g].cur + sgn)
    BY DEF sim!Step
  <2> QED  BY <1>1, <2>1, GoalAssumption, ExtraAssumption DEF sim!Least, sim!Widths
<1>6. /\ motion' = [motion EXCEPT ![g] = next] /\ loop' = [loop EXCEPT ![g] = mine]
      /\ UNCHANGED <<goal, thread, width, current_gripper_state_, ok, is_canceled_, asked>>
  BY DEF sim!Step
<1>7. next \in sim!Motions /\ next \notin {"none", "called", "write", "close", "open"}
      /\ (next \in InLoop => next = "loop")
  BY DEF sim!Motions, InLoop
<1> HIDE DEF mine
<1> QED  BY <1>3, <1>4, <1>5, <1>6, <1>7, LoopGood

LEMMA SimMotionGood ==
  ASSUME SimGood, NEW g \in Goals, sim!Motion(g)
  PROVE  SimGood'
<1> DEFINE Loops == [cur : (-max_width - Extra)..(max_width + Extra),
                     left : 0..(max_width + Extra), sgn : {-1, 1}]
<1>1. /\ loop[g] \in Loops /\ loop = [loop EXCEPT ![g] = loop[g]]
      /\ command \in sim!Widths /\ current_gripper_state_ \in sim!Widths /\ Reach(g)
  BY DEF SimGood, sim!TypeOK
<1>2. CASE sim!Begin(g)
  <2> DEFINE mine == [cur |-> current_gripper_state_,
                      sgn |-> IF sim!Distance(g) < 0 THEN -1 ELSE 1,
                      left |-> loop[g].left + (IF sim!Distance(g) < 0
                                               THEN -sim!Distance(g) ELSE sim!Distance(g))]
             next == IF Task[g] = "homing" THEN "closing" ELSE "loop"
  <2>1. /\ motion[g] = "called" /\ loop' = [loop EXCEPT ![g] = mine]
        /\ motion' = [motion EXCEPT ![g] = next] /\ command' = command
        /\ UNCHANGED <<goal, thread, width, current_gripper_state_, ok, is_canceled_, asked>>
    BY <1>2 DEF sim!Begin, sim!InLoop, sim!shared
  <2>2. loop[g].left \in 0..Extra
    BY <1>1, <2>1, ExtraAssumption DEF Reach
  <2>3. /\ sim!Distance(g) \in (-max_width)..max_width
        /\ current_gripper_state_ + sim!Distance(g) \in 0..max_width
    BY <1>1, GoalAssumption DEF sim!Distance, sim!Least, sim!Widths
  <2>4. /\ mine \in Loops
        /\ mine.cur + mine.sgn * mine.left \in (-Extra)..(max_width + Extra)
    <3>1. CASE sim!Distance(g) < 0
      BY <1>1, <2>2, <2>3, <3>1, GoalAssumption, ExtraAssumption DEF sim!Widths
    <3>2. CASE ~ (sim!Distance(g) < 0)
      BY <1>1, <2>2, <2>3, <3>2, GoalAssumption, ExtraAssumption DEF sim!Widths
    <3> QED  BY <3>1, <3>2
  <2>5. next \in sim!Motions /\ next \notin {"none", "called", "write", "close", "open"}
    BY DEF sim!Motions
  <2>6. motion[g] \notin Pulled
    BY <2>1 DEF Pulled
  <2> HIDE DEF mine, next
  <2> QED  BY <1>1, <2>1, <2>4, <2>5, <2>6, LoopGood
<1>3. CASE sim!Homing(g)
  <2>1. PICK next \in {"close", "open", "opening", "completed", "cut"} :
          /\ sim!InLoop(g, next) /\ UNCHANGED loop /\ motion[g] \in {"closing", "opening"}
          /\ next = "close" => loop[g].cur > 0
          /\ next = "open" => loop[g].cur < max_width
    BY <1>3 DEF sim!Homing
  <2> QED  BY <1>1, <2>1, LoopGood DEF sim!InLoop, sim!shared, Pulled, InLoop, sim!Motions
<1>4. CASE sim!Check(g)
  <2>1. PICK next \in {"completed", "cut", "write"} :
          /\ sim!InLoop(g, next) /\ UNCHANGED loop /\ motion[g] = "loop"
          /\ next = "write" => loop[g].left > 0
    BY <1>4 DEF sim!Check
  <2> QED  BY <1>1, <2>1, LoopGood DEF sim!InLoop, sim!shared, Pulled, InLoop, sim!Motions, Reach
<1>5. CASE sim!Write(g)
  <2>1. CASE motion[g] = "close" /\ sim!Step(g, "closing", -1)
    <3>1. loop[g].cur > 0
      BY <1>1, <2>1 DEF Reach
    <3> QED  BY <1>1, <2>1, <3>1, StepStays, GoalAssumption, ExtraAssumption DEF Pulled
  <2>2. CASE motion[g] = "open" /\ sim!Step(g, "opening", 1)
    <3>1. loop[g].cur < max_width
      BY <1>1, <2>2 DEF Reach
    <3> QED  BY <1>1, <2>2, <3>1, StepStays, GoalAssumption, ExtraAssumption DEF Pulled
  <2>3. CASE motion[g] = "write" /\ sim!Step(g, "loop", loop[g].sgn)
    <3>1. /\ loop[g].left > 0
          /\ loop[g].cur + loop[g].sgn * loop[g].left \in (-Extra)..(max_width + Extra)
      BY <1>1, <2>3 DEF Reach, InLoop
    <3>2. /\ loop[g].sgn \in {-1, 1}
          /\ loop[g].cur + loop[g].sgn \in (-max_width - Extra)..(max_width + Extra)
      BY <1>1, <3>1, GoalAssumption, ExtraAssumption
    <3> QED  BY <2>3, <3>1, <3>2, StepStays DEF Pulled
  <2> QED  BY <1>5, <2>1, <2>2, <2>3 DEF sim!Write
<1> QED  BY <1>2, <1>3, <1>4, <1>5 DEF sim!Motion

LEMMA SimStepGood == SimGood /\ [sim!Next]_(sim!vars) => SimGood'
BY SimExecutorGood, SimThreadGood, SimMotionGood DEF sim!Next

-----------------------------------------------------------------------------
(* The flag                                                                *)

LEMMA FlagStepGood ==
  ASSUME OneAtATime, SimGood, FlagIsTheirs, [sim!Next]_(sim!vars)
  PROVE  FlagIsTheirs'
<1>1. ASSUME NEW g \in Goals, sim!handleGoal(g) PROVE FlagIsTheirs'
  BY <1>1 DEF SimGood, sim!TypeOK, FlagIsTheirs, sim!handleGoal, sim!Active, Active
<1>2. ASSUME NEW g \in Goals, sim!handleCancel(g) \/ sim!CancelGoal(g) PROVE FlagIsTheirs'
  BY <1>2 DEF SimGood, sim!TypeOK, FlagIsTheirs, sim!handleCancel, sim!CancelGoal,
     sim!Canceling, sim!shared, Active
<1>3. ASSUME NEW g \in Goals, sim!Thread(g) PROVE FlagIsTheirs'
  <2>1. CASE \E how \in Ended : sim!End(g, how)
    BY <2>1 DEF SimGood, sim!TypeOK, FlagIsTheirs, sim!End, sim!shared, Ended, Active
  <2>2. CASE \/ sim!Call(g) \/ \E pc \in sim!Threads : sim!Goto(g, pc)
    BY <2>2 DEF SimGood, sim!TypeOK, FlagIsTheirs, sim!Call, sim!Goto, sim!shared
  <2>3. CASE sim!Stop(g)
    BY <2>3 DEF SimGood, SimInStep, FlagIsTheirs, sim!Stop, sim!simGripperStop, Active
  <2> QED
    BY <1>3, <2>1, <2>2, <2>3
    DEF sim!Thread, sim!Execute, sim!onExecuteGripperCommand, sim!Timeout, sim!Feedback,
        sim!Canceled, sim!Finish, sim!Leave, Ended, sim!Threads
<1>4. ASSUME NEW g \in Goals, sim!Motion(g) PROVE FlagIsTheirs'
  <2> DEFINE Moves(next) ==
               /\ motion' = [motion EXCEPT ![g] = next]
               /\ next = "cut" => is_canceled_ /\ motion[g] \notin Pulled
               /\ UNCHANGED <<goal, thread, is_canceled_, asked>>
  <2>1. \E next : Moves(next)
    <3>1. CASE sim!Begin(g)
      BY <3>1 DEF sim!Begin, sim!InLoop, sim!shared
    <3>2. ASSUME NEW next \in {"closing", "opening", "loop"}, NEW sgn, sim!Step(g, next, sgn)
          PROVE  \E to : Moves(to)
      <4>1. Moves(next)
        BY <3>2 DEF sim!Step
      <4> QED  BY <4>1
    <3>3. CASE sim!Write(g)
      BY <3>2, <3>3 DEF sim!Write
    <3>4. CASE \E next \in {"close", "open", "opening", "completed", "cut", "write"} :
                 /\ sim!InLoop(g, next) /\ motion[g] \notin Pulled
                 /\ next = "cut" => is_canceled_
      BY <3>4 DEF sim!InLoop, sim!shared
    <3>5. CASE sim!Homing(g)
      BY <3>4, <3>5 DEF sim!Homing, Pulled
    <3>6. CASE sim!Check(g)
      BY <3>4, <3>6 DEF sim!Check, Pulled
    <3> QED  BY <1>4, <3>1, <3>3, <3>5, <3>6 DEF sim!Motion
  <2>2. motion[g] \notin Pulled => goal[g] \in Active
    BY DEF SimGood, sim!TypeOK, SimInStep, sim!Threads, Pulled
  <2>3. PICK next : Moves(next)
    BY <2>1
  <2>4. motion'[g] = "cut" => g \in asked
    BY <2>2, <2>3 DEF Moves, SimGood, sim!TypeOK, FlagIsTheirs
  <2>5. \A h \in Goals : motion'[h] = "cut" => h \in asked
    BY <2>3, <2>4 DEF Moves, SimGood, sim!TypeOK, FlagIsTheirs
  <2>6. UNCHANGED <<goal, is_canceled_, asked>>
    BY <2>3 DEF Moves
  <2> QED  BY <2>5, <2>6 DEF FlagIsTheirs
<1>5. CASE sim!stopServiceCallback
  BY <1>5 DEF FlagIsTheirs, sim!stopServiceCallback, sim!simGripperStop, sim!Active, Active
<1>6. CASE \/ sim!publishGripperState \/ sim!Shutdown \/ sim!Plant \/ UNCHANGED sim!vars
  BY <1>6 DEF FlagIsTheirs, sim!publishGripperState, sim!Shutdown, sim!Plant, sim!shared,
     sim!vars
<1> QED  BY <1>1, <1>2, <1>3, <1>4, <1>5, <1>6 DEF sim!Next

-----------------------------------------------------------------------------
(* The node                                                                *)

NodeGood ==
  /\ server \in {"real", "sim"}
  /\ server = "real" => Good
  /\ server = "sim" => SimGood /\ (OneAtATime => FlagIsTheirs)

LEMMA NodeStep ==
  ASSUME [NodeNext]_nodeVars
  PROVE  /\ server' = server
         /\ server = "real" => [Next]_vars
         /\ server = "sim" => [sim!Next]_(sim!vars)
BY DEF NodeNext, Real, Simulated, nodeVars, onlySim, vars, device, sim!vars, sim!shared

LEMMA NodeInitGood == NodeInit => NodeGood
BY InitGood, SimInitGood DEF NodeInit, NodeGood

LEMMA NodeStepGood == NodeGood /\ [NodeNext]_nodeVars => NodeGood'
BY NodeStep, StepGood, SimStepGood, FlagStepGood DEF NodeGood

LEMMA NodeAlwaysGood == NodeSpec => []NodeGood
BY NodeInitGood, NodeStepGood, PTL DEF NodeSpec

(* A node with either server keeps its types: what the loops of the        *)
(* simulated gripper command stays within the range of its widths, however *)
(* goals, cancels and stops interleave.                                    *)
THEOREM TypeCorrect == NodeSpec => []NodeTypeOK
<1>1. NodeGood => NodeTypeOK
  BY DEF NodeGood, NodeTypeOK, Good, SimGood
<1> QED  BY <1>1, NodeAlwaysGood, PTL

(* With clients that take turns, a motion of the simulated gripper that    *)
(* was cut belongs to a goal that was cancelled or stopped (handleCancel,  *)
(* stopServiceCallback), though all motions look at one unlocked flag.     *)
THEOREM OnlyTheirsAreCut == OneAtATime => (NodeSpec => []CutWasAsked)
<1> SUFFICES ASSUME OneAtATime PROVE NodeSpec => []CutWasAsked
  OBVIOUS
<1>1. NodeGood => CutWasAsked
  BY DEF NodeGood, CutWasAsked, FlagIsTheirs, sim!CutWasAsked
<1> QED  BY <1>1, NodeAlwaysGood, PTL

LEMMA NodeImplements ==
  NodeGood /\ [NodeNext]_nodeVars => [Kept!Next]_<<realGoal, realMotion>>
<1> SUFFICES ASSUME NodeGood, [NodeNext]_nodeVars
             PROVE  Kept!Next \/ UNCHANGED <<realGoal, realMotion>>
  OBVIOUS
<1>1. NodeGood' /\ server' = server
  BY NodeStep, NodeStepGood
<1>2. CASE server = "real"
  <2>1. /\ realGoal = goal /\ realMotion = motionOf
        /\ realGoal' = goal' /\ realMotion' = motionOf'
    BY <1>1, <1>2 DEF NodeGood, Good, TypeOK, realGoal, realMotion, motionOf
  <2>2. Promise!Next \/ UNCHANGED <<goal, motionOf>>
    BY <1>2, NodeStep, StepImplements DEF NodeGood
  <2>3. Promise!Next => Kept!Next
    BY <2>1
    DEF Promise!Next, Promise!Accept, Promise!Cancel, Promise!Begin, Promise!Halt,
        Promise!End, Promise!Active, Promise!Ended, Kept!Next, Kept!Accept, Kept!Cancel,
        Kept!Begin, Kept!Halt, Kept!End, Kept!Active, Kept!Ended
  <2> QED  BY <2>1, <2>2, <2>3
<1>3. CASE server # "real"
  BY <1>1, <1>3 DEF realGoal, realMotion
<1> QED  BY <1>2, <1>3

(* The server of the real gripper keeps the promise of an action server,   *)
(* whatever the clients, the device and ~/stop do: a goal moves at most    *)
(* once, ends once and after its motion, and is a success only if that     *)
(* motion was completed or none was needed.                                *)
THEOREM RealServerImplements == NodeSpec => RealKeepsPromise
<1>1. NodeInit => Kept!Init
  <2>1. CASE server = "real"
    BY <2>1 DEF NodeInit, Init, Kept!Init, realGoal, realMotion, motionOf
  <2>2. CASE server # "real"
    BY <2>2 DEF Kept!Init, realGoal, realMotion
  <2> QED  BY <2>1, <2>2
<1> QED  BY <1>1, NodeAlwaysGood, NodeImplements, PTL DEF NodeSpec, RealKeepsPromise, Kept!Spec

=============================================================================
