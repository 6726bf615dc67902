----------------------------- MODULE FrankaRobot -----------------------------
(***************************************************************************)
(* One real arm: the class Robot (franka_hardware/src/real/robot.cpp), the *)
(* thread it starts for libfranka's control or reading loop, the real-time *)
(* thread of franka_control2_node that reads, switches and writes the arm, *)
(* the error recovery service and the parameter service.                   *)
(*                                                                         *)
(* Every access to a mutex, a flag or the thread object that another       *)
(* thread can observe is a step of its own; a critical section that waits  *)
(* for nothing is one step, possible when its mutex is free.               *)
(***************************************************************************)
EXTENDS ControlMode

CONSTANTS
  Modes,     (* The control modes the controller manager asks for.         *)
  Asserts,   (* TRUE: assert() is compiled in.  The default build type of  *)
             (* the package is Release, which compiles it out.             *)
  Races      (* What the environment may do besides behaving calmly.       *)

RaceKinds ==
  { "start_in_error",     (* the arm is already in error when constructed  *)
    "switch_in_error",    (* a switch or (de)activation during an error or *)
                          (* its recovery                                  *)
    "early_recovery",     (* recovery asked before read() saw the error    *)
    "inactive_recovery",  (* an arm in error deactivated, then recovered   *)
    "fault_in_switch",    (* the arm faults during a switch or a recovery  *)
    "refused_recovery" }  (* the arm answers recovery with a refusal       *)

ASSUME ModesAssumption == Modes \subseteq ControlModes /\ None \in Modes
ASSUME AssertsAssumption == Asserts \in BOOLEAN
ASSUME RacesAssumption == Races \subseteq RaceKinds

VARIABLES
  robot,      (* the members of the Robot object                           *)
  loop,       (* where the control thread is; "none": nothing to join      *)
  loopMode,   (* the mode of the last loop that was started                *)
  sample,     (* the packet the callback is handling says kReflex          *)
  franka,     (* who holds libfranka's own control lock                    *)
  fault,      (* the arm is in reflex mode                                 *)
  active,     (* the hardware component is active                          *)
  pc,         (* per thread: where it is,                                  *)
  ret,        (* where stopRobot() returns to,                             *)
  target,     (* and the mode it is about to start                         *)
  abort       (* why the process was terminated                            *)

loopVars == <<loop, loopMode, sample, franka, fault>>
callVars == <<active, pc, ret, target, abort>>
vars == <<robot, loopVars, callVars>>

Garbage == "uninitialised"   (* any other bit pattern of control_mode_     *)
Users == {"rt", "svc"}       (* the threads that stop and start loops      *)

Robot ==
  [ stopped_ : BOOLEAN, finish_ : BOOLEAN, has_error_ : BOOLEAN,
    init_params_set : BOOLEAN, control_mode_ : ControlModes \cup {Garbage},
    reflex : BOOLEAN,   (* current_state_.robot_mode == kReflex            *)
    read_mutex_ : {"free", "rt", "svc"}, write_mutex_ : {"free", "param"} ]

StopLabels == {"stopCheck", "stopFinish", "stopJoin", "stopJoining",
               "stopReset", "stopMark"}
InitLabels == {"initCheck", "initMark", "initSpawn"}
Labels ==
  [ rt    : StopLabels \cup InitLabels \cup
            {"read", "readCheck", "readOnce", "readOnceWait", "readRecheck",
             "readDone", "update", "write", "writeLock"},
    svc   : StopLabels \cup InitLabels \cup
            {"idle", "recAuto", "recClear", "recParams", "recLock",
             "recUnlock"},
    param : {"idle", "lock", "command"} ]

LoopLabels == {"none", "starting", "inLoop", "cbRead", "cbCheck", "cbWrite",
               "unwind", "throwing", "ended"}

TypeOK ==
  /\ robot \in Robot
  /\ loop \in LoopLabels
  /\ loopMode \in ControlModes
  /\ sample \in BOOLEAN /\ fault \in BOOLEAN /\ active \in BOOLEAN
  /\ franka \in {"free", "loop", "rt"}
  /\ pc \in Labels
  /\ ret \in [rt : {"readDone", "initCheck", "write", "read"}, svc : {"recParams"}]
  /\ target \in [rt : Modes, svc : ControlModes \cup {Garbage}]
  /\ abort \in {"no", "assert", "join", "terminate", "uncaught"}

(* Robot::Robot.  An arm in reflex mode refuses setDefaultParams; nothing  *)
(* ever assigns control_mode_.                                             *)
Init ==
  /\ fault \in IF "start_in_error" \in Races THEN BOOLEAN ELSE {FALSE}
  /\ \E cm \in Modes \cup {Garbage} :
       robot = [ stopped_ |-> TRUE, finish_ |-> FALSE, has_error_ |-> fault,
                 init_params_set |-> ~fault, control_mode_ |-> cm,
                 reflex |-> FALSE,
                 read_mutex_ |-> "free", write_mutex_ |-> "free" ]
  /\ loop = "none" /\ loopMode = None /\ sample = FALSE /\ franka = "free"
  /\ active = FALSE
  /\ pc = [rt |-> "read", svc |-> "idle", param |-> "idle"]
  /\ ret = [rt |-> "write", svc |-> "recParams"]
  /\ target = [rt |-> None, svc |-> None]
  /\ abort = "no"

At(t, label) == abort = "no" /\ pc[t] = label

(* Thread t moves from one label to another.                               *)
Step(t, from, to) ==
  /\ At(t, from)
  /\ pc' = [pc EXCEPT ![t] = to]
  /\ UNCHANGED <<active, ret, target, abort>>

(* The control thread moves.                                               *)
LoopStep(from, to) ==
  /\ abort = "no" /\ loop = from /\ loop' = to
  /\ UNCHANGED <<loopMode, fault, callVars>>

(* std::terminate or a failed assertion.                                   *)
Die(why) ==
  /\ abort' = why
  /\ UNCHANGED <<robot, loopVars, active, pc, ret, target>>

-----------------------------------------------------------------------------
(* Wrong variants of some steps below, each a slip this code could have    *)
(* had; a property that matters notices one of them.                       *)

StoppedUnset(t) ==          (* stopRobot without stopped_ = true           *)
  Step(t, "stopMark", ret[t]) /\ UNCHANGED <<robot, loopVars>>
StoppedKept(t) ==           (* initialize<Mode> without stopped_ = false   *)
  /\ Step(t, "initMark", "initSpawn") /\ loopMode' = target[t]
  /\ UNCHANGED <<robot, loop, sample, franka, fault>>
SilentCatch ==              (* a catch clause without setError(true)       *)
  LoopStep("throwing", "ended") /\ UNCHANGED <<robot, sample, franka>>
RecheckWithoutStop ==       (* read() without its stopRobot()              *)
  Step("rt", "readRecheck", "readDone") /\ UNCHANGED <<robot, loopVars>>
ReadLeaks ==                (* read() returns in error with the mutex held *)
  /\ Step("rt", "readDone", "update")
  /\ robot' = [robot EXCEPT !.read_mutex_ = IF robot.has_error_ THEN @ ELSE "free"]
  /\ UNCHANGED loopVars
ErrorKept ==                (* recovery without setError(false)            *)
  Step("svc", "recClear", "stopCheck") /\ UNCHANGED <<robot, loopVars>>
AnyModeRestarted ==         (* recovery that starts whatever it reads      *)
  /\ robot.read_mutex_ = "free"
  /\ Step("svc", "recLock", "initCheck")
  /\ robot' = [robot EXCEPT !.read_mutex_ = "svc"]
  /\ UNCHANGED loopVars
RestartUnlocked ==          (* recovery restarts without taking read_mutex_ *)
  /\ Step("svc", "recLock", IF target.svc = Garbage THEN "recUnlock" ELSE "initCheck")
  /\ UNCHANGED <<robot, loopVars>>

-----------------------------------------------------------------------------
(* Robot::stopRobot, called by the real-time thread and by the recovery    *)
(* service.                                                                *)

StopCheck(t) ==
  /\ Step(t, "stopCheck", IF robot.stopped_ THEN ret[t] ELSE "stopFinish")
  /\ UNCHANGED <<robot, loopVars>>

StopFinish(t) ==
  /\ Step(t, "stopFinish", "stopJoin")
  /\ robot' = [robot EXCEPT !.finish_ = TRUE]
  /\ UNCHANGED loopVars

(* std::thread::join throws, and nothing catches it, when the thread is    *)
(* already joined or is being joined by another thread.                    *)
StopJoin(t) ==
  LET joinable == loop # "none" /\ \A u \in Users : pc[u] # "stopJoining"
  IN  \/ joinable /\ Step(t, "stopJoin", "stopJoining")
         /\ UNCHANGED <<robot, loopVars>>
      \/ ~joinable /\ At(t, "stopJoin") /\ Die("join")

StopJoined(t) ==
  /\ Step(t, "stopJoining", "stopReset")
  /\ loop = "ended" /\ loop' = "none"
  /\ UNCHANGED <<robot, loopMode, sample, franka, fault>>

(* robot_->stop() commands an arm that no longer moves; finish_ = false.   *)
StopReset(t) ==
  /\ Step(t, "stopReset", "stopMark")
  /\ robot' = [robot EXCEPT !.finish_ = FALSE]
  /\ UNCHANGED loopVars

StopMark(t) ==
  /\ Step(t, "stopMark", ret[t])
  /\ robot' = [robot EXCEPT !.stopped_ = TRUE]
  /\ UNCHANGED loopVars

StopRobot(t) ==
  \/ StopCheck(t) \/ StopFinish(t) \/ StopJoin(t) \/ StopJoined(t)
  \/ StopReset(t) \/ StopMark(t)

(* Robot::initialize<Mode>: assert(isStopped()), clear stopped_, start the *)
(* thread.                                                                 *)
InitCheck(t) ==
  \/ /\ Asserts => robot.stopped_
     /\ Step(t, "initCheck", "initMark")
     /\ UNCHANGED <<robot, loopVars>>
  \/ Asserts /\ ~robot.stopped_ /\ At(t, "initCheck") /\ Die("assert")

InitMark(t) ==
  /\ Step(t, "initMark", "initSpawn")
  /\ robot' = [robot EXCEPT !.stopped_ = FALSE]
  /\ loopMode' = target[t]
  /\ UNCHANGED <<loop, sample, franka, fault>>

(* Assigning control_thread_ destroys the previous thread object, which    *)
(* terminates the process unless that thread has been joined.  on_activate *)
(* continues with read(), a switch with write().                           *)
InitSpawn(t) ==
  \/ /\ loop = "none" /\ loop' = "starting"
     /\ Step(t, "initSpawn", IF t = "svc" THEN "recUnlock"
                             ELSE IF ret.rt = "read" THEN "read" ELSE "write")
     /\ UNCHANGED <<robot, loopMode, sample, franka, fault>>
  \/ loop # "none" /\ At(t, "initSpawn") /\ Die("terminate")

InitLoop(t) == InitCheck(t) \/ InitMark(t) \/ InitSpawn(t)

-----------------------------------------------------------------------------
(* The control thread: robot_->control(callback) in a control mode,        *)
(* robot_->read(callback) in mode None.                                    *)

(* libfranka refuses a second concurrent operation with an                 *)
(* InvalidOperationException, which only the reading loop catches, and     *)
(* refuses to move an arm in reflex mode with a ControlException.          *)
LoopStart ==
  LET busy == franka # "free"
      reading == loopMode = None
  IN  \/ /\ ~busy /\ (fault => reading)
         /\ LoopStep("starting", "inLoop") /\ franka' = "loop"
         /\ UNCHANGED <<robot, sample>>
      \/ /\ (busy /\ reading) \/ (~busy /\ fault /\ ~reading)
         /\ LoopStep("starting", "throwing") /\ UNCHANGED <<robot, sample, franka>>
      \/ busy /\ ~reading /\ abort = "no" /\ loop = "starting" /\ Die("terminate")

(* A state packet arrives.  A control loop on a faulty arm throws instead. *)
LoopPacket ==
  \/ /\ fault => loopMode = None
     /\ LoopStep("inLoop", "cbRead") /\ sample' = fault
     /\ UNCHANGED <<robot, franka>>
  \/ /\ fault /\ loopMode # None
     /\ LoopStep("inLoop", "throwing") /\ franka' = "free"
     /\ UNCHANGED <<robot, sample>>

(* The callback stores the packet under read_mutex_.                       *)
LoopStore ==
  /\ robot.read_mutex_ = "free"
  /\ LoopStep("cbRead", IF loopMode = None THEN "cbCheck" ELSE "cbWrite")
  /\ robot' = [robot EXCEPT !.reflex = sample]
  /\ UNCHANGED <<sample, franka>>

(* The reading callback looks for reflex mode, then for finish_.           *)
LoopCheck ==
  \/ /\ robot.reflex
     /\ LoopStep("cbCheck", "unwind")
     /\ robot' = [robot EXCEPT !.has_error_ = TRUE]
     /\ UNCHANGED <<sample, franka>>
  \/ /\ ~robot.reflex
     /\ LoopStep("cbCheck", IF robot.finish_ THEN "ended" ELSE "inLoop")
     /\ franka' = IF robot.finish_ THEN "free" ELSE franka
     /\ UNCHANGED <<robot, sample>>

LoopUnwind ==
  /\ LoopStep("unwind", "throwing") /\ franka' = "free"
  /\ UNCHANGED <<robot, sample>>

(* A control callback takes the command under write_mutex_ and finishes    *)
(* the motion if asked; finishing on a faulty arm throws.                  *)
LoopCommand ==
  /\ robot.write_mutex_ = "free"
  /\ LoopStep("cbWrite", IF ~robot.finish_ THEN "inLoop"
                         ELSE IF fault THEN "throwing" ELSE "ended")
  /\ franka' = IF robot.finish_ THEN "free" ELSE franka
  /\ UNCHANGED <<robot, sample>>

(* The catch clause: setError(true), and the thread function returns.      *)
LoopCatch ==
  /\ LoopStep("throwing", "ended")
  /\ robot' = [robot EXCEPT !.has_error_ = TRUE]
  /\ UNCHANGED <<sample, franka>>

Loop == \/ LoopStart \/ LoopPacket \/ LoopStore \/ LoopCheck
        \/ LoopUnwind \/ LoopCommand \/ LoopCatch

-----------------------------------------------------------------------------
(* The real-time thread: read(), then update() with the switch the         *)
(* controller manager asks for, then write().                              *)

ReadLock ==
  /\ robot.read_mutex_ = "free"
  /\ Step("rt", "read", "readCheck")
  /\ robot' = [robot EXCEPT !.read_mutex_ = "rt"]
  /\ UNCHANGED loopVars

ReadCheck ==
  /\ Step("rt", "readCheck", IF robot.has_error_ \/ robot.stopped_
                             THEN "readOnce" ELSE "readDone")
  /\ UNCHANGED <<robot, loopVars>>

(* robot_->readOnce() throws an InvalidOperationException, caught here, if  *)
(* a loop holds libfranka's lock, and otherwise waits for a packet.        *)
ReadOnce ==
  /\ \/ franka # "free" /\ Step("rt", "readOnce", "readDone") /\ UNCHANGED franka
     \/ franka = "free" /\ Step("rt", "readOnce", "readOnceWait") /\ franka' = "rt"
  /\ UNCHANGED <<robot, loop, loopMode, sample, fault>>

ReadOnceDone ==
  /\ Step("rt", "readOnceWait", "readRecheck")
  /\ franka' = "free"
  /\ robot' = [robot EXCEPT !.reflex = fault]
  /\ UNCHANGED <<loop, loopMode, sample, fault>>

(* if (hasError()) stopRobot(), with read_mutex_ held.                     *)
ReadRecheck ==
  /\ At("rt", "readRecheck")
  /\ pc' = [pc EXCEPT !.rt = IF robot.has_error_ THEN "stopCheck" ELSE "readDone"]
  /\ ret' = [ret EXCEPT !.rt = "readDone"]
  /\ UNCHANGED <<robot, loopVars, active, target, abort>>

ReadDone ==
  /\ Step("rt", "readDone", "update")
  /\ robot' = [robot EXCEPT !.read_mutex_ = "free"]
  /\ UNCHANGED loopVars

NoSwitch ==
  /\ Step("rt", "update", "write")
  /\ UNCHANGED <<robot, loopVars>>

(* The environment asks for changes between errors, unless Races says more. *)
Quiet == ~robot.has_error_ /\ pc.svc = "idle"
MayChange(race) ==
  \/ "switch_in_error" \in Races
  \/ Quiet \/ (race \in Races /\ pc.svc = "idle")

Change(label, mode, return, act) ==
  /\ At("rt", "update")
  /\ pc' = [pc EXCEPT !.rt = label]
  /\ target' = [target EXCEPT !.rt = mode]
  /\ ret' = [ret EXCEPT !.rt = return]
  /\ active' = act
  /\ UNCHANGED <<robot, loopVars, abort>>

(* perform_command_mode_switch: stopRobot(), then initialize<Mode>().      *)
Switch(m) ==
  /\ active /\ MayChange("switch_in_error")
  /\ fault => "switch_in_error" \in Races
  /\ Change("stopCheck", m, "initCheck", active)

(* on_deactivate: stopRobot().                                             *)
Deactivate ==
  /\ active /\ MayChange("inactive_recovery")
  /\ Change("stopCheck", target.rt, "write", FALSE)

(* on_activate: initializeContinuousReading(), then read().                *)
Activate ==
  /\ ~active /\ MayChange("start_in_error")
  /\ Change("initCheck", None, "read", TRUE)

(* write(): nothing is sent to an arm in error.                            *)
Write ==
  /\ Step("rt", "write", IF robot.has_error_ THEN "read" ELSE "writeLock")
  /\ UNCHANGED <<robot, loopVars>>

WriteCommand ==
  /\ robot.write_mutex_ = "free"
  /\ Step("rt", "writeLock", "read")
  /\ UNCHANGED <<robot, loopVars>>

RealTime ==
  \/ ReadLock \/ ReadCheck \/ ReadOnce \/ ReadOnceDone \/ ReadRecheck
  \/ ReadDone \/ NoSwitch \/ (\E m \in Modes : Switch(m)) \/ Deactivate
  \/ Activate \/ Write \/ WriteCommand

-----------------------------------------------------------------------------
(* triggerAutomaticRecovery, on a thread of FrankaExecutor.                *)

(* The real-time thread is changing the loop, outside read().              *)
Switching == pc.rt \in StopLabels \cup InitLabels /\ ret.rt # "readDone"

(* Without an error the service answers "No errors" and changes nothing.   *)
RecoveryRequest ==
  /\ "early_recovery" \in Races \/ (robot.stopped_ /\ ~Switching)
  /\ "inactive_recovery" \in Races \/ active
  /\ robot.has_error_
  /\ Step("svc", "idle", "recAuto")
  /\ UNCHANGED <<robot, loopVars>>

(* The arm recovers, or the call fails: ControlException and               *)
(* NetworkException are answered, a CommandException is not caught.        *)
RecoveryAuto ==
  \/ /\ Step("svc", "recAuto", "recClear")
     /\ fault' = FALSE
     /\ UNCHANGED <<robot, loop, loopMode, sample, franka>>
  \/ /\ Step("svc", "recAuto", "idle")
     /\ UNCHANGED <<robot, loopVars>>
  \/ "refused_recovery" \in Races /\ At("svc", "recAuto") /\ Die("uncaught")

RecoveryClear ==
  /\ Step("svc", "recClear", "stopCheck")
  /\ robot' = [robot EXCEPT !.has_error_ = FALSE]
  /\ UNCHANGED loopVars

(* setDefaultParams() if the constructor could not; an arm in reflex mode  *)
(* refuses it with a CommandException.  Then read control_mode_.           *)
RecoveryParams ==
  /\ At("svc", "recParams")
  /\ \/ ~robot.init_params_set /\ fault /\ Die("uncaught")
     \/ /\ robot.init_params_set \/ ~fault
        /\ robot' = [robot EXCEPT !.init_params_set = TRUE]
        /\ target' = [target EXCEPT !.svc = robot.control_mode_]
        /\ pc' = [pc EXCEPT !.svc = "recLock"]
        /\ UNCHANGED <<loopVars, active, ret, abort>>

(* Under read_mutex_, restart the loop of that mode; a value that is no    *)
(* ControlMode starts nothing.                                             *)
RecoveryLock ==
  /\ robot.read_mutex_ = "free"
  /\ Step("svc", "recLock", IF target.svc = Garbage THEN "recUnlock" ELSE "initCheck")
  /\ robot' = [robot EXCEPT !.read_mutex_ = "svc"]
  /\ UNCHANGED loopVars

(* response->success = true.                                               *)
RecoveryDone ==
  /\ Step("svc", "recUnlock", "idle")
  /\ robot' = [robot EXCEPT !.read_mutex_ = "free"]
  /\ UNCHANGED loopVars

Recovery ==
  \/ RecoveryRequest \/ RecoveryAuto \/ RecoveryClear \/ RecoveryParams
  \/ RecoveryLock \/ RecoveryDone

-----------------------------------------------------------------------------
(* The parameter service holds write_mutex_ during a command to the arm.   *)

ParamRequest ==
  /\ Step("param", "idle", "lock")
  /\ UNCHANGED <<robot, loopVars>>

ParamLock ==
  /\ robot.write_mutex_ = "free"
  /\ Step("param", "lock", "command")
  /\ robot' = [robot EXCEPT !.write_mutex_ = "param"]
  /\ UNCHANGED loopVars

ParamDone ==
  /\ Step("param", "command", "idle")
  /\ robot' = [robot EXCEPT !.write_mutex_ = "free"]
  /\ UNCHANGED loopVars

Param == ParamRequest \/ ParamLock \/ ParamDone

(* The arm goes into reflex mode.                                          *)
Fault ==
  /\ abort = "no" /\ ~fault /\ fault' = TRUE
  /\ "fault_in_switch" \in Races \/ (~Switching /\ pc.svc = "idle")
  /\ UNCHANGED <<robot, loop, loopMode, sample, franka, callVars>>

-----------------------------------------------------------------------------
Next ==
  \/ Loop \/ RealTime \/ Recovery \/ Param \/ Fault
  \/ \E t \in Users : StopRobot(t) \/ InitLoop(t)

Safety == Init /\ [][Next]_vars

(***************************************************************************)
(* The operating system runs every runnable thread.  The mutexes the loop, *)
(* the writer and the recovery wait for are released again and again by a  *)
(* thread that sleeps every period: strong fairness on those acquisitions. *)
(***************************************************************************)
Fairness ==
  /\ WF_vars(Loop) /\ SF_vars(LoopStore) /\ SF_vars(LoopCommand)
  /\ WF_vars(RealTime \/ StopRobot("rt") \/ InitLoop("rt"))
  /\ SF_vars(WriteCommand)
  /\ WF_vars((Recovery /\ pc.svc # "idle") \/ StopRobot("svc") \/ InitLoop("svc"))
  /\ SF_vars(RecoveryLock)
  /\ WF_vars(ParamLock \/ ParamDone)

Spec == Safety /\ Fairness

-----------------------------------------------------------------------------
(* Properties                                                              *)

(* The process is never brought down by a failed assertion, a second join, *)
(* the destruction of a running thread or an uncaught exception.           *)
NoAbort == abort = "no"

(* assert(isStopped()) at robot.cpp:119, 162, 190, 217, 243 and 270: a loop *)
(* is started only on a stopped robot, whether or not the build checks it. *)
StartOnlyWhenStopped ==
  \A t \in Users : At(t, "initCheck") \/ At(t, "initMark") => robot.stopped_

(* isStopped() tells the truth: "true if there is no control or reading    *)
(* loop running" (robot.hpp:136).                                          *)
StoppedMeansNoLoop == robot.stopped_ => loop = "none"

(* A flagged error is a fault of the arm, except while its recovery is     *)
(* about to clear the flag: no late or spurious setError(true).            *)
ErrorMeansFault == robot.has_error_ => fault \/ pc.svc = "recClear"

(* A loop that is gone without the error flag was asked to finish, or its  *)
(* recovery is about to join it.                                           *)
DeadLoopIsFlagged ==
  loop = "ended" /\ ~robot.has_error_ =>
    \E t \in Users : pc[t] \in {"stopCheck", "stopFinish", "stopJoin", "stopJoining"}

(* So has_error_ knows of every fault that ended a loop, and of nothing    *)
(* else.                                                                   *)
ErrorsAreKnown == ErrorMeansFault /\ DeadLoopIsFlagged

(* read() never joins, with read_mutex_ held, a loop whose callback waits  *)
(* for read_mutex_.                                                        *)
ReadNeverDeadlocks ==
  ~(robot.read_mutex_ = "rt" /\ pc.rt = "stopJoining" /\ loop = "cbRead")

(* The two critical sections of read_mutex_ that touch the thread object.  *)
InRead ==
  \/ pc.rt \in {"readCheck", "readOnce", "readOnceWait", "readRecheck", "readDone"}
  \/ pc.rt \in StopLabels /\ ret.rt = "readDone"
InRestart == pc.svc \in InitLabels \cup {"recUnlock"}

(* read(), which may stop the loop, and recovery, which may start one,      *)
(* exclude each other, however they and the switches overlap.              *)
ReadExcludesRestart == ~(InRead /\ InRestart)

(* "The previously executed control loop will be executed again"           *)
(* (README.md:34): a recovery about to report success restarts that mode.  *)
(* TLC refutes it, in the calm environment too: control_mode_ is not set.  *)
RecoveryRestoresLoop ==
  [][At("svc", "recLock") => target.svc = loopMode]_vars

(* The detailed robot does what RobotLoop promises.                        *)
Contract ==
  INSTANCE RobotLoop WITH
    running <- IF robot.stopped_ THEN "stopped" ELSE loopMode,
    error   <- robot.has_error_
RobotLoopSpec == Contract!Spec

(* A loop that died is always joined and the arm marked stopped.           *)
DeadLoopIsStopped == loop = "ended" ~> robot.stopped_

(* The recovery service always answers.                                    *)
RecoveryReturns == pc.svc # "idle" ~> pc.svc = "idle"

(* The real-time loop never stops turning.                                 *)
RealTimeTurns == []<>(pc.rt = "update")

(* Neither thread starves the other, nor does the parameter service.       *)
NobodyStarves == RecoveryReturns /\ RealTimeTurns

=============================================================================
