-------------------------- MODULE FrankaRobot_proofs --------------------------
(***************************************************************************)
(* Theorems about one arm.  In every environment the state stays typed and *)
(* read() excludes the restart of a loop by recovery.  When recovery waits *)
(* for the failed loop to be joined and switches keep clear of recovery, a *)
(* loop is started only on a stopped arm and isStopped() tells the truth,  *)
(* whenever the arm faults and with or without assertions.                 *)
(*                                                                         *)
(* In a calm environment the operator switches and activates between       *)
(* errors, asks for recovery once the failed loop has been joined, and the *)
(* arm does not fault in the middle of either.  Then nothing terminates    *)
(* the process, the flags tell of every failed loop and of nothing else,   *)
(* read() does not deadlock with the loop, and the robot does what         *)
(* RobotLoop promises, for every set of modes and with or without          *)
(* assertions.                                                             *)
(***************************************************************************)
EXTENDS FrankaRobot, TLAPS

(* TypeOK is inductive once the recovery is known to start only modes.     *)
Typed == TypeOK /\ (pc.svc \in {"initCheck", "initMark"} => target.svc # Garbage)

LEMMA InitTyped == Init => Typed
<1> SUFFICES ASSUME Init PROVE Typed OBVIOUS
<1>1. fault \in BOOLEAN /\ Modes \subseteq ControlModes
  BY ModesAssumption DEF Init
<1>2. robot \in Robot
  BY <1>1 DEF Init, Robot
<1>3. pc \in Labels
  BY DEF Init, Labels, StopLabels, InitLabels
<1>4. /\ ret \in [rt : {"readDone", "initCheck", "write", "read"}, svc : {"recParams"}]
      /\ target \in [rt : Modes, svc : ControlModes \cup {Garbage}]
  BY ModesAssumption DEF Init, ControlModes
<1>5. loopMode \in ControlModes
  BY DEF Init, ControlModes
<1> QED BY <1>1, <1>2, <1>3, <1>4, <1>5 DEF Init, Typed, TypeOK, LoopLabels

(* Assigning one member keeps the robot typed.                             *)
LEMMA RobotAssigned ==
  ASSUME NEW r \in Robot, NEW b \in BOOLEAN
  PROVE  /\ [r EXCEPT !.stopped_ = b] \in Robot
         /\ [r EXCEPT !.finish_ = b] \in Robot
         /\ [r EXCEPT !.has_error_ = b] \in Robot
         /\ [r EXCEPT !.init_params_set = b] \in Robot
         /\ [r EXCEPT !.reflex = b] \in Robot
BY DEF Robot

LEMMA MutexAssigned ==
  ASSUME NEW r \in Robot
  PROVE  /\ \A h \in {"free", "rt", "svc"} : [r EXCEPT !.read_mutex_ = h] \in Robot
         /\ \A h \in {"free", "param"} : [r EXCEPT !.write_mutex_ = h] \in Robot
BY DEF Robot

(* stopRobot and initialize<Mode>, run by either thread.                   *)
LEMMA StopTyped ==
  ASSUME NEW t \in Users, Typed, StopRobot(t)
  PROVE  Typed'
<1> USE DEF Typed, TypeOK, Labels, StopLabels, InitLabels, Step, At, loopVars
<1>1. CASE t = "rt"
  <2>1. CASE StopCheck("rt")  BY <2>1 DEF StopCheck
  <2>2. CASE StopFinish("rt") BY <2>2, RobotAssigned DEF StopFinish
  <2>3. CASE StopJoin("rt")   BY <2>3 DEF StopJoin, Die
  <2>4. CASE StopJoined("rt") BY <2>4 DEF StopJoined, LoopLabels
  <2>5. CASE StopReset("rt")  BY <2>5, RobotAssigned DEF StopReset
  <2>6. CASE StopMark("rt")   BY <2>6, RobotAssigned DEF StopMark
  <2> QED BY <1>1, <2>1, <2>2, <2>3, <2>4, <2>5, <2>6 DEF StopRobot
<1>2. CASE t = "svc"
  <2>1. CASE StopCheck("svc")  BY <2>1 DEF StopCheck
  <2>2. CASE StopFinish("svc") BY <2>2, RobotAssigned DEF StopFinish
  <2>3. CASE StopJoin("svc")   BY <2>3 DEF StopJoin, Die
  <2>4. CASE StopJoined("svc") BY <2>4 DEF StopJoined, LoopLabels
  <2>5. CASE StopReset("svc")  BY <2>5, RobotAssigned DEF StopReset
  <2>6. CASE StopMark("svc")   BY <2>6, RobotAssigned DEF StopMark
  <2> QED BY <1>2, <2>1, <2>2, <2>3, <2>4, <2>5, <2>6 DEF StopRobot
<1> QED BY <1>1, <1>2 DEF Users

LEMMA InitLoopTyped ==
  ASSUME NEW t \in Users, Typed, InitLoop(t)
  PROVE  Typed'
<1> USE ModesAssumption
    DEF Typed, TypeOK, Labels, StopLabels, InitLabels, Step, At, Die, loopVars
<1>1. CASE t = "rt"
  <2>1. CASE InitCheck("rt") BY <2>1 DEF InitCheck
  <2>2. CASE InitMark("rt")
    <3>1. target.rt \in ControlModes
      OBVIOUS
    <3>2. (loopMode \in ControlModes)' /\ (robot \in Robot)'
      BY <2>2, <3>1, RobotAssigned DEF InitMark
    <3>3. pc' \in Labels /\ pc'.svc = pc.svc
      BY <2>2 DEF InitMark
    <3> QED BY <2>2, <3>2, <3>3 DEF InitMark
  <2>3. CASE InitSpawn("rt") BY <2>3 DEF InitSpawn, LoopLabels
  <2> QED BY <1>1, <2>1, <2>2, <2>3 DEF InitLoop
<1>2. CASE t = "svc"
  <2>1. CASE InitCheck("svc") BY <2>1 DEF InitCheck
  <2>2. CASE InitMark("svc")  BY <2>2, RobotAssigned DEF InitMark
  <2>3. CASE InitSpawn("svc") BY <2>3 DEF InitSpawn, LoopLabels
  <2> QED BY <1>2, <2>1, <2>2, <2>3 DEF InitLoop
<1> QED BY <1>1, <1>2 DEF Users

LEMMA LoopTyped == Typed /\ Loop => Typed'
<1> SUFFICES ASSUME Typed, Loop PROVE Typed' OBVIOUS
<1> USE DEF Typed, TypeOK, LoopLabels, LoopStep, callVars
<1>1. CASE LoopStart   BY <1>1 DEF LoopStart, Die, loopVars
<1>2. CASE LoopPacket  BY <1>2 DEF LoopPacket
<1>3. CASE LoopStore   BY <1>3, RobotAssigned DEF LoopStore
<1>4. CASE LoopCheck   BY <1>4, RobotAssigned DEF LoopCheck
<1>5. CASE LoopUnwind  BY <1>5 DEF LoopUnwind
<1>6. CASE LoopCommand BY <1>6 DEF LoopCommand
<1>7. CASE LoopCatch   BY <1>7, RobotAssigned DEF LoopCatch
<1> QED BY <1>1, <1>2, <1>3, <1>4, <1>5, <1>6, <1>7 DEF Loop

LEMMA RealTimeTyped == Typed /\ RealTime => Typed'
<1> SUFFICES ASSUME Typed, RealTime PROVE Typed' OBVIOUS
<1> USE DEF Typed, TypeOK, Labels, StopLabels, InitLabels, Step, At, loopVars
<1>1. CASE ReadLock     BY <1>1, MutexAssigned DEF ReadLock
<1>2. CASE ReadCheck    BY <1>2 DEF ReadCheck
<1>3. CASE ReadOnce     BY <1>3 DEF ReadOnce
<1>4. CASE ReadOnceDone BY <1>4, RobotAssigned DEF ReadOnceDone
<1>5. CASE ReadRecheck  BY <1>5 DEF ReadRecheck
<1>6. CASE ReadDone     BY <1>6, MutexAssigned DEF ReadDone
<1>7. CASE NoSwitch     BY <1>7 DEF NoSwitch
<1>8. ASSUME NEW m \in Modes, Switch(m) PROVE Typed'
  BY <1>8 DEF Switch, Change
<1>9. CASE Deactivate   BY <1>9 DEF Deactivate, Change
<1>10. CASE Activate    BY <1>10, ModesAssumption DEF Activate, Change
<1>11. CASE Write       BY <1>11 DEF Write
<1>12. CASE WriteCommand BY <1>12 DEF WriteCommand
<1> QED BY <1>1, <1>2, <1>3, <1>4, <1>5, <1>6, <1>7, <1>8, <1>9, <1>10,
           <1>11, <1>12 DEF RealTime

(* The service threads move between labels of theirs.                      *)
LEMMA ServiceMoved ==
  ASSUME Typed
  PROVE  /\ \A l \in {"idle", "recAuto", "recClear", "recParams", "recLock",
                     "recUnlock", "stopCheck", "initCheck"} :
              [pc EXCEPT !.svc = l] \in Labels /\ [pc EXCEPT !.svc = l].svc = l
         /\ \A l \in {"idle", "lock", "command"} :
              [pc EXCEPT !.param = l] \in Labels /\ [pc EXCEPT !.param = l].svc = pc.svc
BY DEF Typed, TypeOK, Labels, StopLabels, InitLabels

LEMMA RecoveryTyped == Typed /\ Recovery => Typed'
<1> SUFFICES ASSUME Typed, Recovery PROVE Typed' OBVIOUS
<1> USE ServiceMoved DEF Typed, TypeOK, Step, At, Die, loopVars
<1>1. CASE RecoveryRequest BY <1>1 DEF RecoveryRequest
<1>2. CASE RecoveryAuto    BY <1>2 DEF RecoveryAuto
<1>3. CASE RecoveryClear   BY <1>3, RobotAssigned DEF RecoveryClear
<1>4. CASE RecoveryParams
  <2>1. CASE Die("uncaught") BY <2>1
  <2>2. CASE ~Die("uncaught")
    <3>1. /\ robot' = [robot EXCEPT !.init_params_set = TRUE]
          /\ target' = [target EXCEPT !.svc = robot.control_mode_]
          /\ pc' = [pc EXCEPT !.svc = "recLock"]
          /\ UNCHANGED <<loopVars, active, ret, abort>>
      BY <1>4, <2>2 DEF RecoveryParams
    <3>2. robot' \in Robot
      BY <3>1, RobotAssigned
    <3>3. robot.control_mode_ \in ControlModes \cup {Garbage}
      BY DEF Robot
    <3>4. target' \in [rt : Modes, svc : ControlModes \cup {Garbage}]
      BY <3>1, <3>3
    <3>5. pc' \in Labels /\ pc'.svc = "recLock"
      BY <3>1
    <3> QED BY <3>1, <3>2, <3>4, <3>5
  <2> QED BY <2>1, <2>2
<1>5. CASE RecoveryLock    BY <1>5, MutexAssigned DEF RecoveryLock
<1>6. CASE RecoveryDone    BY <1>6, MutexAssigned DEF RecoveryDone
<1> QED BY <1>1, <1>2, <1>3, <1>4, <1>5, <1>6 DEF Recovery

LEMMA ParamTyped == Typed /\ (Param \/ Fault) => Typed'
<1> SUFFICES ASSUME Typed, Param \/ Fault PROVE Typed' OBVIOUS
<1> USE ServiceMoved DEF Typed, TypeOK, Step, At, loopVars, callVars
<1>1. CASE ParamRequest BY <1>1 DEF ParamRequest
<1>2. CASE ParamLock    BY <1>2, MutexAssigned DEF ParamLock
<1>3. CASE ParamDone    BY <1>3, MutexAssigned DEF ParamDone
<1>4. CASE Fault        BY <1>4 DEF Fault
<1> QED BY <1>1, <1>2, <1>3, <1>4 DEF Param

LEMMA StutterTyped == Typed /\ UNCHANGED vars => Typed'
BY DEF Typed, TypeOK, vars, loopVars, callVars

LEMMA NextTyped == Typed /\ [Next]_vars => Typed'
BY StopTyped, InitLoopTyped, LoopTyped, RealTimeTyped, RecoveryTyped,
   ParamTyped, StutterTyped DEF Next

(* Every flag, label and mode of the robot stays within its type, in every *)
(* environment; in particular a loop is only ever started in a real mode.  *)
THEOREM TypeCorrect == Safety => []TypeOK
<1>1. Typed => TypeOK
  BY DEF Typed
<1> QED BY <1>1, InitTyped, NextTyped, PTL DEF Safety

-----------------------------------------------------------------------------
(* Why read() and the restart of recovery exclude each other: each runs    *)
(* under read_mutex_.                                                      *)
Locked ==
  /\ InRestart => robot.read_mutex_ = "svc"
  /\ InRead => robot.read_mutex_ = "rt"

(* A step that leaves the mutex alone and enters no critical section.      *)
LEMMA LockedFrame ==
  ASSUME Locked, robot'.read_mutex_ = robot.read_mutex_,
         InRestart' => InRestart, InRead' => InRead
  PROVE  Locked'
BY DEF Locked

LEMMA StopLocked ==
  ASSUME NEW t \in Users, Typed, Locked, StopRobot(t)
  PROVE  Locked'
<1>1. /\ robot'.read_mutex_ = robot.read_mutex_
      /\ InRestart' => InRestart
      /\ InRead' => InRead
  <2> USE DEF Typed, TypeOK, Labels, StopLabels, InitLabels, Step, At,
              InRead, InRestart, Users, loopVars
  <2>1. CASE StopCheck(t)  BY <2>1 DEF StopCheck
  <2>2. CASE StopFinish(t) BY <2>2 DEF StopFinish, Robot
  <2>3. CASE StopJoin(t)   BY <2>3 DEF StopJoin, Die
  <2>4. CASE StopJoined(t) BY <2>4 DEF StopJoined
  <2>5. CASE StopReset(t)  BY <2>5 DEF StopReset, Robot
  <2>6. CASE StopMark(t)   BY <2>6 DEF StopMark, Robot
  <2> QED BY <2>1, <2>2, <2>3, <2>4, <2>5, <2>6 DEF StopRobot
<1> QED BY <1>1, LockedFrame

LEMMA InitLoopLocked ==
  ASSUME NEW t \in Users, Typed, Locked, InitLoop(t)
  PROVE  Locked'
<1>1. /\ robot'.read_mutex_ = robot.read_mutex_
      /\ InRestart' => InRestart
      /\ InRead' => InRead
  <2> USE DEF Typed, TypeOK, Labels, StopLabels, InitLabels, Step, At, Die,
              InRead, InRestart, Users, loopVars
  <2>1. CASE InitCheck(t) BY <2>1 DEF InitCheck
  <2>2. CASE InitMark(t)  BY <2>2 DEF InitMark, Robot
  <2>3. CASE InitSpawn(t) BY <2>3 DEF InitSpawn
  <2> QED BY <2>1, <2>2, <2>3 DEF InitLoop
<1> QED BY <1>1, LockedFrame

LEMMA RealTimeLocked == Typed /\ Locked /\ RealTime => Locked'
<1> SUFFICES ASSUME Typed, Locked, RealTime PROVE Locked' OBVIOUS
<1> USE DEF Typed, TypeOK, Labels, StopLabels, InitLabels, Step, At, Locked,
            InRead, InRestart, loopVars
<1>1. CASE ReadLock     BY <1>1 DEF ReadLock, Robot
<1>2. CASE ReadCheck    BY <1>2 DEF ReadCheck
<1>3. CASE ReadOnce     BY <1>3 DEF ReadOnce
<1>4. CASE ReadOnceDone BY <1>4 DEF ReadOnceDone, Robot
<1>5. CASE ReadRecheck  BY <1>5 DEF ReadRecheck
<1>6. CASE ReadDone     BY <1>6 DEF ReadDone, Robot
<1>7. CASE (\E m \in Modes : Switch(m)) \/ Deactivate \/ Activate
  BY <1>7 DEF Switch, Deactivate, Activate, Change
<1>8. CASE NoSwitch \/ Write \/ WriteCommand
  BY <1>8 DEF NoSwitch, Write, WriteCommand
<1> QED BY <1>1, <1>2, <1>3, <1>4, <1>5, <1>6, <1>7, <1>8 DEF RealTime

LEMMA RecoveryLocked == Typed /\ Locked /\ Recovery => Locked'
<1> SUFFICES ASSUME Typed, Locked, Recovery PROVE Locked' OBVIOUS
<1> USE DEF Typed, TypeOK, Robot, Labels, StopLabels, InitLabels, Step, At,
            Die, Locked, InRead, InRestart, loopVars
<1>1. CASE RecoveryRequest BY <1>1 DEF RecoveryRequest
<1>2. CASE RecoveryAuto    BY <1>2 DEF RecoveryAuto
<1>3. CASE RecoveryClear   BY <1>3 DEF RecoveryClear
<1>4. CASE RecoveryParams  BY <1>4 DEF RecoveryParams
<1>5. CASE RecoveryLock    BY <1>5 DEF RecoveryLock
<1>6. CASE RecoveryDone    BY <1>6 DEF RecoveryDone
<1> QED BY <1>1, <1>2, <1>3, <1>4, <1>5, <1>6 DEF Recovery

(* The loop and the environment do not move the two threads; the loop's    *)
(* callback needs read_mutex_ only for an instant and is not in either     *)
(* section.                                                                *)
LEMMA OthersIdle ==
  ASSUME Typed, Loop \/ Param \/ Fault
  PROVE  /\ robot'.read_mutex_ = robot.read_mutex_
         /\ robot'.stopped_ = robot.stopped_
         /\ (loop' = "none") = (loop = "none")
         /\ pc'.rt = pc.rt /\ pc'.svc = pc.svc /\ ret' = ret /\ active' = active
<1> USE DEF Typed, TypeOK, Robot, callVars, loopVars
<1>1. CASE Loop
  <2> USE DEF LoopStep
  <2>1. CASE LoopStart   BY <2>1 DEF LoopStart, Die
  <2>2. CASE LoopPacket  BY <2>2 DEF LoopPacket
  <2>3. CASE LoopStore   BY <2>3 DEF LoopStore
  <2>4. CASE LoopCheck   BY <2>4 DEF LoopCheck
  <2>5. CASE LoopUnwind  BY <2>5 DEF LoopUnwind
  <2>6. CASE LoopCommand BY <2>6 DEF LoopCommand
  <2>7. CASE LoopCatch   BY <2>7 DEF LoopCatch
  <2> QED BY <1>1, <2>1, <2>2, <2>3, <2>4, <2>5, <2>6, <2>7 DEF Loop
<1>2. CASE Param
  BY <1>2 DEF Param, ParamRequest, ParamLock, ParamDone, Step, At, Labels
<1>3. CASE Fault
  BY <1>3 DEF Fault
<1> QED BY <1>1, <1>2, <1>3

LEMMA LockedAlways == Safety => []Locked
<1>1. Init => Locked
  BY DEF Init, Locked, InRead, InRestart, StopLabels, InitLabels
<1>2. Typed /\ Locked /\ [Next]_vars => Locked'
  <2>1. Typed /\ Locked /\ (Loop \/ Param \/ Fault) => Locked'
    BY OthersIdle, LockedFrame DEF InRead, InRestart
  <2>2. Locked /\ UNCHANGED vars => Locked'
    BY DEF Locked, InRead, InRestart, vars, callVars
  <2> QED BY <2>1, <2>2, StopLocked, InitLoopLocked, RealTimeLocked,
             RecoveryLocked DEF Next
<1> QED BY <1>1, <1>2, InitTyped, NextTyped, PTL DEF Safety

(* In every environment: read(), which may stop the loop, never overlaps   *)
(* the part of triggerAutomaticRecovery that starts one                    *)
(* (franka_error_recovery_service_server.cpp:44).                          *)
THEOREM ReadExcludesRestartAlways == Safety => []ReadExcludesRestart
<1>1. Locked => ReadExcludesRestart
  BY DEF Locked, ReadExcludesRestart
<1> QED BY <1>1, LockedAlways, PTL

-----------------------------------------------------------------------------
(* The environments of the remaining theorems: recovery is asked for once  *)
(* read() has joined the failed loop and on an active arm, and switches    *)
(* keep clear of recovery.  The arm may fault at any time, also while it   *)
(* switches or recovers, may start in error and may refuse recovery.       *)
Tame == Races \cap {"switch_in_error", "early_recovery", "inactive_recovery"} = {}

(* Between a recovery's request and its restart the arm is stopped.        *)
Recovering == {"recAuto", "recClear", "stopCheck", "recParams", "recLock",
               "initCheck", "initMark"}

(* What a tame environment keeps apart: a recovery and a switch; an        *)
(* inactive arm and a loop.                                                *)
Orderly ==
  /\ pc.svc # "idle" => ~Switching /\ active
  /\ pc.svc \in Recovering => robot.stopped_
  /\ pc.svc \notin StopLabels \ {"stopCheck"}
  /\ pc.rt \in InitLabels => ret.rt \in {"initCheck", "read"}
  /\ pc.rt \in InitLabels => active
  /\ pc.rt \in StopLabels /\ ret.rt = "initCheck" => active
  /\ pc.rt \in {"initCheck", "initMark"} => robot.stopped_
  /\ ~active => robot.stopped_ \/ (pc.rt \in StopLabels /\ ret.rt = "write")

LEMMA StopOrderly ==
  ASSUME NEW t \in Users, Typed, Orderly, StopRobot(t)
  PROVE  Orderly'
<1> USE DEF Typed, TypeOK, Labels, StopLabels, InitLabels, Step, At,
            Orderly, Recovering, Switching, loopVars
<1>1. CASE t = "rt"
  <2>1. CASE StopCheck("rt")  BY <2>1 DEF StopCheck
  <2>2. CASE StopFinish("rt") BY <2>2 DEF StopFinish, Robot
  <2>3. CASE StopJoin("rt")   BY <2>3 DEF StopJoin, Die
  <2>4. CASE StopJoined("rt") BY <2>4 DEF StopJoined
  <2>5. CASE StopReset("rt")  BY <2>5 DEF StopReset, Robot
  <2>6. CASE StopMark("rt")   BY <2>6 DEF StopMark, Robot
  <2> QED BY <1>1, <2>1, <2>2, <2>3, <2>4, <2>5, <2>6 DEF StopRobot
<1>2. CASE t = "svc"
  <2>1. StopCheck("svc")
    BY <1>2 DEF StopRobot, StopFinish, StopJoin, StopJoined, StopReset, StopMark
  <2> QED BY <2>1 DEF StopCheck
<1> QED BY <1>1, <1>2 DEF Users

LEMMA InitLoopOrderly ==
  ASSUME NEW t \in Users, Typed, Orderly, InitLoop(t)
  PROVE  Orderly'
<1> USE DEF Typed, TypeOK, Labels, StopLabels, InitLabels, Step, At, Die,
            Orderly, Recovering, Switching, Users, loopVars
<1>1. CASE InitCheck(t) BY <1>1 DEF InitCheck
<1>2. CASE t = "rt" /\ InitMark("rt")
  <2>1. Switching /\ active
    BY <1>2 DEF InitMark
  <2> QED BY <1>2, <2>1 DEF InitMark, Robot
<1>3. CASE t = "svc" /\ InitMark("svc")
  <2>1. active /\ pc.rt \notin InitLabels
    BY <1>3 DEF InitMark
  <2> QED BY <1>3, <2>1 DEF InitMark, Robot
<1>4. CASE InitSpawn(t) BY <1>4 DEF InitSpawn
<1> QED BY <1>1, <1>2, <1>3, <1>4 DEF InitLoop

LEMMA RealTimeOrderly ==
  ASSUME Tame, Typed, Orderly, RealTime
  PROVE  Orderly'
<1> USE DEF Typed, TypeOK, Labels, StopLabels, InitLabels, Step, At,
            Orderly, Recovering, Switching, loopVars
<1>1. CASE ReadLock \/ ReadCheck \/ ReadOnce \/ ReadOnceDone
  BY <1>1 DEF ReadLock, ReadCheck, ReadOnce, ReadOnceDone, Robot
<1>2. CASE ReadRecheck \/ ReadDone \/ NoSwitch \/ Write \/ WriteCommand
  BY <1>2 DEF ReadRecheck, ReadDone, NoSwitch, Write, WriteCommand, Robot
<1>3. CASE (\E m \in Modes : Switch(m)) \/ Deactivate \/ Activate
  <2>1. pc.svc = "idle"
    BY <1>3 DEF Switch, Deactivate, Activate, MayChange, Quiet, Tame
  <2>2. ASSUME NEW m \in Modes, Switch(m) PROVE Orderly'
    BY <2>1, <2>2 DEF Switch, Change
  <2>3. CASE Deactivate BY <2>1, <2>3 DEF Deactivate, Change
  <2>4. CASE Activate   BY <2>1, <2>4 DEF Activate, Change
  <2> QED BY <1>3, <2>2, <2>3, <2>4
<1> QED BY <1>1, <1>2, <1>3 DEF RealTime

LEMMA RecoveryOrderly ==
  ASSUME Tame, Typed, Orderly, Recovery
  PROVE  Orderly'
<1> USE DEF Typed, TypeOK, Robot, Labels, StopLabels, InitLabels, Step, At,
            Die, Orderly, Recovering, Switching, loopVars
<1>1. CASE RecoveryRequest BY <1>1 DEF RecoveryRequest, Tame
<1>2. CASE RecoveryAuto    BY <1>2 DEF RecoveryAuto
<1>3. CASE RecoveryClear   BY <1>3 DEF RecoveryClear
<1>4. CASE RecoveryParams  BY <1>4 DEF RecoveryParams
<1>5. CASE RecoveryLock    BY <1>5 DEF RecoveryLock
<1>6. CASE RecoveryDone    BY <1>6 DEF RecoveryDone
<1> QED BY <1>1, <1>2, <1>3, <1>4, <1>5, <1>6 DEF Recovery

LEMMA OrderlyAlways ==
  ASSUME Tame
  PROVE  Safety => [](Typed /\ Orderly)
<1>1. Init => Orderly
  BY DEF Init, Orderly, Recovering, StopLabels, InitLabels
<1>2. Typed /\ Orderly /\ [Next]_vars => Orderly'
  <2>1. Typed /\ Orderly /\ (Loop \/ Param \/ Fault) => Orderly'
    BY OthersIdle DEF Orderly, Switching
  <2>2. Orderly /\ UNCHANGED vars => Orderly'
    BY DEF Orderly, Switching, vars, callVars
  <2> QED BY <2>1, <2>2, StopOrderly, InitLoopOrderly, RealTimeOrderly,
             RecoveryOrderly DEF Next
<1> QED BY <1>1, <1>2, InitTyped, NextTyped, PTL DEF Safety

(* The assertion at the head of every initialize<Mode> (robot.cpp:119, 162, *)
(* 190, 217, 243, 270) holds in a tame environment, also in a Release build *)
(* that does not evaluate it.                                              *)
THEOREM LoopsStartStopped ==
  ASSUME Tame
  PROVE  Safety => []StartOnlyWhenStopped
<1>1. Orderly => StartOnlyWhenStopped
  BY DEF Orderly, Recovering, StartOnlyWhenStopped, Users, At
<1> QED BY <1>1, OrderlyAlways, PTL

-----------------------------------------------------------------------------
(* The threads that own the phase in which stopped_ is false but no loop   *)
(* can be joined.                                                          *)
Owner(t) == pc[t] \in {"initSpawn", "stopReset", "stopMark"}

(* The strengthening of StoppedMeansNoLoop that a step preserves.          *)
OneOwner ==
  /\ robot.stopped_ => loop = "none" /\ \A t \in Users : ~Owner(t)
  /\ loop # "none" => \A t \in Users : ~Owner(t)
  /\ ~(Owner("rt") /\ Owner("svc"))

(* A step that touches neither stopped_ nor the thread object and makes    *)
(* nobody an owner.                                                        *)
LEMMA OneOwnerFrame ==
  ASSUME OneOwner, robot'.stopped_ = robot.stopped_,
         (loop' = "none") = (loop = "none"),
         \A t \in Users : Owner(t)' => Owner(t)
  PROVE  OneOwner'
BY DEF OneOwner, Users

LEMMA StopOneOwner ==
  ASSUME NEW t \in Users, Typed, OneOwner, StopRobot(t)
  PROVE  OneOwner'
<1> USE DEF Typed, TypeOK, Labels, Step, At, Owner, loopVars
<1>1. CASE t = "rt"
  <2>1. CASE StopCheck("rt")  BY <2>1, OneOwnerFrame DEF StopCheck, Users
  <2>2. CASE StopFinish("rt") BY <2>2, OneOwnerFrame DEF StopFinish, Users, Robot
  <2>3. CASE StopJoin("rt")   BY <2>3, OneOwnerFrame DEF StopJoin, Users, Die
  <2>4. CASE StopJoined("rt") BY <2>4 DEF StopJoined, OneOwner, Users
  <2>5. CASE StopReset("rt")  BY <2>5 DEF StopReset, OneOwner, Users, Robot
  <2>6. CASE StopMark("rt")   BY <2>6 DEF StopMark, OneOwner, Users, Robot
  <2> QED BY <1>1, <2>1, <2>2, <2>3, <2>4, <2>5, <2>6 DEF StopRobot
<1>2. CASE t = "svc"
  <2>1. CASE StopCheck("svc")  BY <2>1, OneOwnerFrame DEF StopCheck, Users
  <2>2. CASE StopFinish("svc") BY <2>2, OneOwnerFrame DEF StopFinish, Users, Robot
  <2>3. CASE StopJoin("svc")   BY <2>3, OneOwnerFrame DEF StopJoin, Users, Die
  <2>4. CASE StopJoined("svc") BY <2>4 DEF StopJoined, OneOwner, Users
  <2>5. CASE StopReset("svc")  BY <2>5 DEF StopReset, OneOwner, Users, Robot
  <2>6. CASE StopMark("svc")   BY <2>6 DEF StopMark, OneOwner, Users, Robot
  <2> QED BY <1>2, <2>1, <2>2, <2>3, <2>4, <2>5, <2>6 DEF StopRobot
<1> QED BY <1>1, <1>2 DEF Users

LEMMA InitLoopOneOwner ==
  ASSUME NEW t \in Users, Typed, Orderly, OneOwner, InitLoop(t)
  PROVE  OneOwner'
<1> USE DEF Typed, TypeOK, Labels, Step, At, Owner, Users, loopVars
<1>1. CASE InitCheck(t)
  BY <1>1, OneOwnerFrame DEF InitCheck, Die
<1>2. CASE InitMark(t)
  <2>1. robot.stopped_
    BY <1>2 DEF InitMark, Orderly, Recovering
  <2> QED BY <1>2, <2>1 DEF InitMark, Robot, OneOwner
<1>3. CASE InitSpawn(t)
  BY <1>3 DEF InitSpawn, Die, OneOwner
<1> QED BY <1>1, <1>2, <1>3 DEF InitLoop

(* No step of read(), of a switch or of recovery outside the two calls     *)
(* creates an owner.                                                       *)
LEMMA OtherOneOwner ==
  Typed /\ OneOwner /\ (RealTime \/ Recovery) => OneOwner'
<1> SUFFICES ASSUME Typed, OneOwner, RealTime \/ Recovery
             PROVE  OneOwner'
  OBVIOUS
<1> USE DEF Typed, TypeOK, Labels, Step, At, loopVars
<1>1. /\ robot'.stopped_ = robot.stopped_ /\ loop' = loop
      /\ Owner("rt")' => Owner("rt")
      /\ Owner("svc")' => Owner("svc")
  <2> USE DEF Owner
  <2>1. CASE RealTime
    <3>1. CASE ReadLock \/ ReadCheck \/ ReadOnce \/ ReadOnceDone
      BY <3>1 DEF ReadLock, ReadCheck, ReadOnce, ReadOnceDone, Robot
    <3>2. CASE ReadRecheck \/ ReadDone \/ NoSwitch
      BY <3>2 DEF ReadRecheck, ReadDone, NoSwitch, Robot
    <3>3. CASE (\E m \in Modes : Switch(m)) \/ Deactivate \/ Activate
      BY <3>3 DEF Switch, Deactivate, Activate, Change
    <3>4. CASE Write \/ WriteCommand
      BY <3>4 DEF Write, WriteCommand
    <3> QED BY <2>1, <3>1, <3>2, <3>3, <3>4 DEF RealTime
  <2>2. CASE Recovery
    <3>1. CASE RecoveryRequest \/ RecoveryAuto \/ RecoveryClear
      BY <3>1 DEF RecoveryRequest, RecoveryAuto, RecoveryClear, Robot, Die
    <3>2. CASE RecoveryParams \/ RecoveryLock \/ RecoveryDone
      BY <3>2 DEF RecoveryParams, RecoveryLock, RecoveryDone, Robot, Die
    <3> QED BY <2>2, <3>1, <3>2 DEF Recovery
  <2> QED BY <2>1, <2>2
<1> QED BY <1>1, OneOwnerFrame DEF Users

LEMMA OneOwnerAlways ==
  ASSUME Tame
  PROVE  Safety => []OneOwner
<1>1. Init => OneOwner
  BY DEF Init, OneOwner, Owner, Users
<1>2. Typed /\ Orderly /\ OneOwner /\ [Next]_vars => OneOwner'
  <2>1. Typed /\ OneOwner /\ (Loop \/ Param \/ Fault) => OneOwner'
    BY OthersIdle, OneOwnerFrame DEF Owner, Users
  <2>2. OneOwner /\ UNCHANGED vars => OneOwner'
    BY DEF OneOwner, Owner, vars, loopVars, callVars
  <2> QED BY <2>1, <2>2, StopOneOwner, InitLoopOneOwner, OtherOneOwner DEF Next
<1> QED BY <1>1, <1>2, OrderlyAlways, PTL DEF Safety

(* In a tame environment isStopped() never claims "no control or reading   *)
(* loop running" (robot.hpp:136) while there is a loop to join, whenever   *)
(* the arm faults and whatever mode a recovery restarts.                   *)
THEOREM StoppedTellsTheTruth ==
  ASSUME Tame
  PROVE  Safety => []StoppedMeansNoLoop
<1>1. OneOwner => StoppedMeansNoLoop
  BY DEF OneOwner, StoppedMeansNoLoop
<1> QED BY <1>1, OneOwnerAlways, PTL

-----------------------------------------------------------------------------
(* A calm environment                                                      *)

Calm == Races = {}

(* What the theorems above say of a calm environment.                      *)
Known == Typed /\ Orderly /\ Locked /\ OneOwner

(* The loop's thread holds libfranka's lock.                               *)
Running == {"inLoop", "cbRead", "cbCheck", "cbWrite", "unwind"}
Gone == {"none", "throwing", "ended"}

(* What says that the arm is faulty is true, except between the arm's own  *)
(* recovery and the reset of the flag; a loop fails for no other reason.   *)
FaultsAreReal ==
  /\ loop \in {"unwind", "throwing"} => fault
  /\ loop = "cbRead" /\ sample => fault
  /\ loop = "cbCheck" /\ robot.reflex => fault
  /\ robot.has_error_ => fault \/ pc.svc = "recClear"

(* No loop is started while an error is flagged, and none fails while a    *)
(* switch stops it.                                                        *)
StartsAreClean ==
  /\ pc.rt \in InitLabels => ~robot.has_error_
  /\ pc.svc \in {"stopCheck", "recParams", "recLock"} \cup InitLabels
       => ~robot.has_error_
  /\ pc.rt \in StopLabels /\ ret.rt = "initCheck" => ~robot.has_error_ /\ ~fault
  /\ loop = "starting" => ~robot.has_error_

(* readOnce() and what read() does after it, with the mutex held, meet no  *)
(* loop at work.                                                           *)
OneOperation ==
  /\ robot.read_mutex_ = "rt" => InRead
  /\ franka = "rt" => pc.rt = "readOnceWait"
  /\ franka = "loop" <=> loop \in Running
  /\ pc.rt = "readOnce" => robot.has_error_ \/ robot.stopped_
  /\ \/ pc.rt \in {"readOnceWait", "readRecheck"}
     \/ pc.rt \in StopLabels /\ ret.rt = "readDone"
     => loop \in Gone

(* Who stops a loop finds one, and a loop that ended is waited for.        *)
StopsAreJoined ==
  /\ ~robot.stopped_ => loop # "none" \/ \E t \in Users : Owner(t)
  /\ pc.rt \in {"stopFinish", "stopJoin", "stopJoining"} => loop # "none"
  /\ robot.finish_ => pc.rt \in {"stopJoin", "stopJoining", "stopReset"}
  /\ loop = "ended" /\ ~robot.has_error_ => pc.rt \in {"stopJoin", "stopJoining"}

Survives == abort = "no" /\ robot.init_params_set

CalmInv ==
  Survives /\ FaultsAreReal /\ StartsAreClean /\ OneOperation /\ StopsAreJoined

LEMMA CalmIsTame == Calm => Tame
BY DEF Calm, Tame

LEMMA InitCalm == Calm /\ Init => CalmInv
<1> SUFFICES ASSUME Calm, Init PROVE CalmInv OBVIOUS
<1>1. fault = FALSE
  BY DEF Calm, Init
<1>2. /\ robot.stopped_ /\ ~robot.finish_ /\ ~robot.has_error_
      /\ robot.init_params_set /\ robot.read_mutex_ = "free"
  <2>1. PICK cm \in Modes \cup {Garbage} :
          robot = [ stopped_ |-> TRUE, finish_ |-> FALSE, has_error_ |-> fault,
                    init_params_set |-> ~fault, control_mode_ |-> cm,
                    reflex |-> FALSE,
                    read_mutex_ |-> "free", write_mutex_ |-> "free" ]
    BY DEF Init
  <2> QED BY <1>1, <2>1
<1>3. /\ loop = "none" /\ sample = FALSE /\ franka = "free" /\ abort = "no"
      /\ pc.rt = "read" /\ pc.svc = "idle"
  BY DEF Init
<1> QED BY <1>1, <1>2, <1>3 DEF CalmInv, Survives, FaultsAreReal,
           StartsAreClean, OneOperation, StopsAreJoined, InRead, StopLabels,
           InitLabels, Running

(* While the loop's thread exists, nobody starts or has just joined a loop *)
(* and recovery is over.                                                   *)
LEMMA LoopAlone ==
  ASSUME Known, loop # "none"
  PROVE  /\ ~robot.stopped_
         /\ pc.rt \notin InitLabels \cup {"stopReset", "stopMark"}
         /\ pc.svc \in {"idle", "recUnlock"}
BY DEF Known, Typed, TypeOK, Labels, Orderly, OneOwner, Owner, Users,
       Recovering, StopLabels, InitLabels

LEMMA LoopCalm ==
  ASSUME Known, CalmInv, Loop
  PROVE  CalmInv'
<1>1. /\ ~robot.stopped_
      /\ pc.rt \notin InitLabels \cup {"stopReset", "stopMark"}
      /\ pc.svc \in {"idle", "recUnlock"}
      /\ loop # "none"
  BY LoopAlone DEF Loop, LoopStart, LoopPacket, LoopStore, LoopCheck, LoopUnwind,
     LoopCommand, LoopCatch, LoopStep
<1>2. robot \in Robot /\ sample \in BOOLEAN /\ fault \in BOOLEAN
  BY DEF Known, Typed, TypeOK
<1> USE <1>1, <1>2 DEF Robot, LoopStep, callVars,
        CalmInv, Survives, FaultsAreReal, StartsAreClean, OneOperation,
        StopsAreJoined, InRead, Running, Gone, InitLabels
<1>3. CASE LoopStart
  <2>1. loop = "starting" /\ franka = "free"
    BY <1>3 DEF LoopStart, Known, Typed, TypeOK
  <2>2. CASE loop' = "inLoop"
    BY <1>3, <2>1, <2>2 DEF LoopStart
  <2>3. CASE loop' = "throwing"
    BY <1>3, <2>1, <2>3 DEF LoopStart
  <2> QED BY <1>3, <2>1, <2>2, <2>3 DEF LoopStart
<1>4. CASE LoopPacket  BY <1>4 DEF LoopPacket
<1>5. CASE LoopStore   BY <1>5 DEF LoopStore
<1>6. CASE LoopCheck   BY <1>6 DEF LoopCheck
<1>7. CASE LoopUnwind  BY <1>7 DEF LoopUnwind
<1>8. CASE LoopCommand BY <1>8 DEF LoopCommand
<1>9. CASE LoopCatch   BY <1>9 DEF LoopCatch
<1> QED BY <1>3, <1>4, <1>5, <1>6, <1>7, <1>8, <1>9 DEF Loop

(* The real-time thread stops a loop only while the service starts none.   *)
LEMMA StopAlone ==
  ASSUME Known, pc.rt \in StopLabels
  PROVE  pc.svc \notin InitLabels \cup (StopLabels \ {"stopCheck"}) /\ ~Owner("svc")
<1>1. CASE ret.rt = "readDone"
  BY <1>1 DEF Known, Locked, Orderly, InRead, InRestart, Owner, StopLabels, InitLabels
<1>2. CASE ret.rt # "readDone"
  BY <1>2 DEF Known, Orderly, Switching, Owner, StopLabels, InitLabels
<1> QED BY <1>1, <1>2

LEMMA StopCalm ==
  ASSUME NEW t \in Users, Known, CalmInv, StopRobot(t)
  PROVE  CalmInv'
<1>1. /\ robot \in Robot /\ pc \in Labels /\ loop \in LoopLabels
      /\ ret \in [rt : {"readDone", "initCheck", "write", "read"}, svc : {"recParams"}]
  BY DEF Known, Typed, TypeOK
<1> USE <1>1 DEF Robot, Labels, Step, At, loopVars, CalmInv, Survives,
        FaultsAreReal, StartsAreClean, OneOperation, StopsAreJoined, InRead, Gone,
        StopLabels, InitLabels
<1>2. CASE t = "rt"
  <2>1. pc.rt \in StopLabels
    BY <1>2 DEF StopRobot, StopCheck, StopFinish, StopJoin, StopJoined,
       StopReset, StopMark
  <2>2. /\ pc.svc \notin InitLabels \cup (StopLabels \ {"stopCheck"})
        /\ ~Owner("svc")
    BY <2>1, StopAlone
  <2>3. robot.stopped_ => loop = "none"
    BY DEF Known, OneOwner
  <2> USE <2>2, <2>3 DEF Owner, Users
  <2>4. CASE StopCheck("rt")  BY <2>4 DEF StopCheck
  <2>5. CASE StopFinish("rt") BY <2>5 DEF StopFinish
  <2>6. CASE StopJoin("rt")   BY <2>6 DEF StopJoin, Die
  <2>7. CASE StopJoined("rt") BY <2>7 DEF StopJoined, Running
  <2>8. CASE StopReset("rt")  BY <2>8 DEF StopReset
  <2>9. CASE StopMark("rt")   BY <2>9 DEF StopMark
  <2> QED BY <1>2, <2>4, <2>5, <2>6, <2>7, <2>8, <2>9 DEF StopRobot
<1>3. CASE t = "svc"
  <2>1. StopCheck("svc") /\ robot.stopped_
    BY <1>3 DEF Known, Orderly, Recovering, StopRobot, StopCheck, StopFinish,
       StopJoin, StopJoined, StopReset, StopMark
  <2> QED BY <2>1 DEF StopCheck, Owner, Users
<1> QED BY <1>2, <1>3 DEF Users

LEMMA InitLoopCalm ==
  ASSUME NEW t \in Users, Known, CalmInv, InitLoop(t)
  PROVE  CalmInv'
<1>1. /\ robot \in Robot /\ pc \in Labels /\ loop \in LoopLabels
      /\ ret \in [rt : {"readDone", "initCheck", "write", "read"}, svc : {"recParams"}]
  BY DEF Known, Typed, TypeOK
<1>2. /\ pc[t] \in {"initCheck", "initMark"} => robot.stopped_
      /\ robot.stopped_ => loop = "none"
      /\ Owner(t) => loop = "none"
  BY DEF Known, Orderly, Recovering, OneOwner, Users
<1>3. t = "svc" => ~InRead
  BY DEF InitLoop, InitCheck, InitMark, InitSpawn, Step, At, Known, Locked,
     InRestart, InitLabels
<1> USE <1>1, <1>2, <1>3 DEF Robot, Labels, Step, At, loopVars, CalmInv, Survives,
        FaultsAreReal, StartsAreClean, OneOperation, StopsAreJoined, InRead, Gone, Running,
        StopLabels, InitLabels, Owner, Users
<1>4. CASE t = "rt"
  <2>1. CASE InitCheck("rt") BY <1>4, <2>1 DEF InitCheck, Die
  <2>2. CASE InitMark("rt")  BY <1>4, <2>2 DEF InitMark
  <2>3. CASE InitSpawn("rt") BY <1>4, <2>3 DEF InitSpawn, Die
  <2> QED BY <1>4, <2>1, <2>2, <2>3 DEF InitLoop
<1>5. CASE t = "svc"
  <2>1. CASE InitCheck("svc") BY <1>5, <2>1 DEF InitCheck, Die
  <2>2. CASE InitMark("svc")  BY <1>5, <2>2 DEF InitMark
  <2>3. CASE InitSpawn("svc") BY <1>5, <2>3 DEF InitSpawn, Die
  <2> QED BY <1>5, <2>1, <2>2, <2>3 DEF InitLoop
<1> QED BY <1>4, <1>5 DEF Users

LEMMA RealTimeCalm ==
  ASSUME Calm, Known, CalmInv, RealTime
  PROVE  CalmInv'
<1>1. /\ robot \in Robot /\ pc \in Labels /\ loop \in LoopLabels
      /\ ret \in [rt : {"readDone", "initCheck", "write", "read"}, svc : {"recParams"}]
      /\ fault \in BOOLEAN /\ franka \in {"free", "loop", "rt"}
  BY DEF Known, Typed, TypeOK
<1>2. robot.stopped_ => loop = "none"
  BY DEF Known, OneOwner
<1> USE <1>1 DEF Robot, Labels, Step, At, loopVars, CalmInv, Survives,
        FaultsAreReal, StartsAreClean, OneOperation, StopsAreJoined, InRead, Gone,
        StopLabels, InitLabels, Owner, Users
<1>3. CASE ReadLock     BY <1>3 DEF ReadLock
<1>4. CASE ReadCheck    BY <1>4 DEF ReadCheck
<1>5. CASE ReadOnce     BY <1>2, <1>5 DEF ReadOnce, Running, LoopLabels
<1>6. CASE ReadOnceDone BY <1>6 DEF ReadOnceDone, Running
<1>7. CASE ReadRecheck  BY <1>7 DEF ReadRecheck
<1>8. CASE ReadDone     BY <1>8 DEF ReadDone
<1>9. CASE NoSwitch \/ Write \/ WriteCommand
  BY <1>9 DEF NoSwitch, Write, WriteCommand
<1>10. ASSUME NEW m \in Modes, Switch(m) PROVE CalmInv'
  BY <1>10 DEF Switch, Change, MayChange, Quiet, Calm
<1>11. CASE Deactivate
  BY <1>11 DEF Deactivate, Change, MayChange, Quiet, Calm
<1>12. CASE Activate
  BY <1>12 DEF Activate, Change, MayChange, Quiet, Calm
<1> QED BY <1>3, <1>4, <1>5, <1>6, <1>7, <1>8, <1>9, <1>10, <1>11, <1>12
        DEF RealTime

LEMMA RecoveryCalm ==
  ASSUME Calm, Known, CalmInv, Recovery
  PROVE  CalmInv'
<1>1. /\ robot \in Robot /\ pc \in Labels /\ loop \in LoopLabels
      /\ ret \in [rt : {"readDone", "initCheck", "write", "read"}, svc : {"recParams"}]
  BY DEF Known, Typed, TypeOK
<1>2. /\ pc.svc \in Recovering => robot.stopped_ /\ loop = "none"
      /\ pc.svc # "idle" => ~Switching
  BY DEF Known, Orderly, OneOwner
<1> USE <1>1, <1>2 DEF Robot, Labels, Step, At, loopVars, CalmInv, Survives,
        FaultsAreReal, StartsAreClean, OneOperation, StopsAreJoined, InRead, Recovering,
        StopLabels, InitLabels, Switching, Owner, Users
<1>3. CASE RecoveryRequest BY <1>3 DEF RecoveryRequest
<1>4. CASE RecoveryAuto    BY <1>4 DEF RecoveryAuto, Calm
<1>5. CASE RecoveryClear   BY <1>5 DEF RecoveryClear
<1>6. CASE RecoveryParams  BY <1>6 DEF RecoveryParams
<1>7. CASE RecoveryLock    BY <1>7 DEF RecoveryLock
<1>8. CASE RecoveryDone    BY <1>8 DEF RecoveryDone
<1> QED BY <1>3, <1>4, <1>5, <1>6, <1>7, <1>8 DEF Recovery

LEMMA OthersCalm ==
  ASSUME Calm, Known, CalmInv, Param \/ Fault \/ UNCHANGED vars
  PROVE  CalmInv'
<1> USE DEF CalmInv, Survives, FaultsAreReal, StartsAreClean, OneOperation,
            StopsAreJoined, InRead, Owner, loopVars, callVars
<1>1. CASE Param
  <2>1. /\ robot \in Robot /\ pc \in Labels
    BY DEF Known, Typed, TypeOK
  <2> QED BY <1>1, <2>1 DEF Param, ParamRequest, ParamLock, ParamDone, Step, At,
             Labels, Robot, Users
<1>2. CASE Fault
  BY <1>2 DEF Fault, Calm, Switching
<1>3. CASE UNCHANGED vars
  BY <1>3 DEF vars
<1> QED BY <1>1, <1>2, <1>3

LEMMA CalmAlways ==
  ASSUME Calm
  PROVE  Safety => [](Known /\ CalmInv)
<1>1. Safety => []Known
  <2>1. Safety => [](Typed /\ Orderly) /\ []OneOwner
    BY CalmIsTame, OrderlyAlways, OneOwnerAlways
  <2> QED BY <2>1, LockedAlways, PTL DEF Known
<1>2. Init => CalmInv
  BY InitCalm
<1>3. Known /\ CalmInv /\ [Next]_vars => CalmInv'
  BY LoopCalm, StopCalm, InitLoopCalm, RealTimeCalm, RecoveryCalm, OthersCalm
     DEF Next
<1> QED BY <1>1, <1>2, <1>3, PTL DEF Safety

-----------------------------------------------------------------------------
(* In a calm environment nothing brings the process down: no loop is       *)
(* started on one that runs or joined twice, no exception of libfranka     *)
(* leaves a thread and no parameters are sent to a faulty arm.             *)
THEOREM NothingTerminates ==
  ASSUME Calm
  PROVE  Safety => []NoAbort
<1>1. CalmInv => NoAbort
  BY DEF CalmInv, Survives, NoAbort
<1> QED BY <1>1, CalmAlways, PTL

(* In a calm environment has_error_ knows of every fault that ended a loop *)
(* and of nothing else (robot.cpp:153, setError).                          *)
THEOREM EveryErrorIsKnown ==
  ASSUME Calm
  PROVE  Safety => []ErrorsAreKnown
<1>1. CalmInv => ErrorsAreKnown
  BY DEF CalmInv, FaultsAreReal, StopsAreJoined, ErrorsAreKnown,
         ErrorMeansFault, DeadLoopIsFlagged, Users
<1> QED BY <1>1, CalmAlways, PTL

(* In a calm environment read() never joins, with read_mutex_ held, a loop *)
(* that waits for it (robot.cpp:93): who gets so far has seen that no loop *)
(* holds libfranka's lock, and recovery cannot start one meanwhile.        *)
THEOREM ReadMeetsNoLoop ==
  ASSUME Calm
  PROVE  Safety => []ReadNeverDeadlocks
<1>1. Known /\ CalmInv => ReadNeverDeadlocks
  BY DEF CalmInv, OneOperation, InRead, ReadNeverDeadlocks, StopLabels, Gone
<1> QED BY <1>1, CalmAlways, PTL

-----------------------------------------------------------------------------
(* RobotLoop's state, from the members that stand for it.                  *)
promised == <<IF robot.stopped_ THEN "stopped" ELSE loopMode, robot.has_error_>>

LEMMA ContractFrame ==
  ASSUME robot'.stopped_ = robot.stopped_, loopMode' = loopMode,
         robot'.has_error_ = robot.has_error_
  PROVE  UNCHANGED promised
BY DEF promised

LEMMA StartKeepsContract ==
  ASSUME NEW t \in Users, Known, CalmInv, InitMark(t)
  PROVE  \E m \in ControlModes : Contract!Start(m)
<1>1. /\ robot \in Robot /\ target.rt \in ControlModes
      /\ t = "svc" => target.svc \in ControlModes
  BY ModesAssumption DEF Known, Typed, TypeOK, InitMark, Step, At
<1>2. robot.stopped_ /\ ~robot.has_error_
  BY DEF Known, Orderly, Recovering, CalmInv, StartsAreClean, InitMark, Step, At,
     InitLabels, Users
<1>3. /\ loopMode' = target[t] /\ target[t] \in ControlModes
      /\ robot' = [robot EXCEPT !.stopped_ = FALSE]
  BY <1>1 DEF InitMark, Users
<1>4. ~robot'.stopped_ /\ robot'.has_error_ = robot.has_error_
  BY <1>1, <1>3 DEF Robot
<1>5. Contract!Start(target[t])
  BY <1>2, <1>3, <1>4 DEF Contract!Start, Contract!Stopped
<1> QED BY <1>3, <1>5

(* A loop that flags an error is one the callers believe to run.           *)
LEMMA LoopKeepsContract ==
  ASSUME Known, CalmInv, Loop
  PROVE  Contract!Fail \/ UNCHANGED promised
<1>1. robot \in Robot /\ loopMode \in ControlModes
  BY DEF Known, Typed, TypeOK
<1>2. ~robot.stopped_ /\ robot'.stopped_ = robot.stopped_
  BY LoopAlone, OthersIdle DEF Known, Loop, LoopStart, LoopPacket, LoopStore,
     LoopCheck, LoopUnwind, LoopCommand, LoopCatch, LoopStep
<1>3. loopMode' = loopMode
  BY DEF Loop, LoopStart, LoopPacket, LoopStore, LoopCheck, LoopUnwind,
     LoopCommand, LoopCatch, LoopStep, Die, loopVars
<1>4. robot'.has_error_ = robot.has_error_ \/ robot'.has_error_ = TRUE
  <2> USE <1>1 DEF Robot
  <2>1. CASE LoopStart \/ LoopPacket \/ LoopStore \/ LoopUnwind \/ LoopCommand
    BY <2>1 DEF LoopStart, LoopPacket, LoopStore, LoopUnwind, LoopCommand, Die
  <2>2. CASE LoopCheck \/ LoopCatch
    BY <2>2 DEF LoopCheck, LoopCatch
  <2> QED BY <2>1, <2>2 DEF Loop
<1>5. CASE robot'.has_error_ = robot.has_error_
  BY <1>2, <1>3, <1>5, ContractFrame
<1>6. CASE robot'.has_error_ /\ ~robot.has_error_
  <2>1. loopMode # "stopped"
    BY <1>1 DEF ControlModes, None, JointModes, CartesianModes
  <2> QED BY <1>2, <1>3, <1>6, <2>1 DEF Contract!Fail, Contract!Stopped
<1> QED BY <1>1, <1>4, <1>5, <1>6 DEF Robot

LEMMA StopKeepsContract ==
  ASSUME NEW t \in Users, Known, CalmInv, StopRobot(t)
  PROVE  Contract!Stop \/ UNCHANGED promised
<1>1. robot \in Robot /\ loopMode \in ControlModes
  BY DEF Known, Typed, TypeOK
<1>2. CASE StopMark(t)
  <2>1. loopMode # "stopped"
    BY <1>1 DEF ControlModes, None, JointModes, CartesianModes
  <2>2. robot'.stopped_ /\ robot'.has_error_ = robot.has_error_
    BY <1>1, <1>2 DEF StopMark, Robot
  <2> QED BY <2>1, <2>2 DEF Contract!Stop, Contract!Stopped, promised
<1>3. CASE StopCheck(t) \/ StopFinish(t) \/ StopJoin(t) \/ StopJoined(t) \/ StopReset(t)
  <2>1. /\ robot'.stopped_ = robot.stopped_ /\ loopMode' = loopMode
        /\ robot'.has_error_ = robot.has_error_
    BY <1>1, <1>3 DEF StopCheck, StopFinish, StopJoin, StopJoined, StopReset,
       Die, Robot, loopVars
  <2> QED BY <2>1, ContractFrame
<1> QED BY <1>2, <1>3 DEF StopRobot

LEMMA ClearKeepsContract ==
  ASSUME Known, CalmInv, RecoveryClear
  PROVE  Contract!Clear \/ UNCHANGED promised
<1>1. robot \in Robot /\ robot.stopped_
  BY DEF Known, Typed, TypeOK, Orderly, Recovering, RecoveryClear, Step, At
<1>2. /\ robot'.has_error_ = FALSE /\ robot'.stopped_ = TRUE
      /\ robot.stopped_ = TRUE /\ loopMode' = loopMode
  BY <1>1 DEF RecoveryClear, Robot, loopVars
<1>3. CASE robot.has_error_
  BY <1>1, <1>2, <1>3 DEF Contract!Clear, Contract!Stopped
<1>4. CASE ~robot.has_error_
  <2>1. robot.has_error_ = FALSE
    BY <1>1, <1>4 DEF Robot
  <2> QED BY <1>2, <2>1 DEF promised
<1> QED BY <1>3, <1>4

(* Nothing else touches what the contract speaks of.                       *)
LEMMA OthersKeepContract ==
  ASSUME Known,
         \/ RealTime \/ (Recovery /\ ~RecoveryClear) \/ Param \/ Fault
         \/ UNCHANGED vars \/ \E t \in Users : InitCheck(t) \/ InitSpawn(t)
  PROVE  UNCHANGED promised
<1>1. robot \in Robot
  BY DEF Known, Typed, TypeOK
<1>2. /\ robot'.stopped_ = robot.stopped_ /\ loopMode' = loopMode
      /\ robot'.has_error_ = robot.has_error_
  <2> USE <1>1 DEF Robot, loopVars, Die
  <2>1. CASE RealTime
    <3>1. CASE ReadLock \/ ReadCheck \/ ReadOnce \/ ReadOnceDone \/ ReadRecheck
      BY <3>1 DEF ReadLock, ReadCheck, ReadOnce, ReadOnceDone, ReadRecheck
    <3>2. CASE ReadDone \/ NoSwitch \/ Write \/ WriteCommand
      BY <3>2 DEF ReadDone, NoSwitch, Write, WriteCommand
    <3>3. CASE (\E m \in Modes : Switch(m)) \/ Deactivate \/ Activate
      BY <3>3 DEF Switch, Deactivate, Activate, Change
    <3> QED BY <2>1, <3>1, <3>2, <3>3 DEF RealTime
  <2>2. CASE Recovery /\ ~RecoveryClear
    BY <2>2 DEF Recovery, RecoveryRequest, RecoveryAuto, RecoveryParams,
       RecoveryLock, RecoveryDone
  <2>3. CASE Param \/ Fault
    BY <2>3 DEF Param, ParamRequest, ParamLock, ParamDone, Fault
  <2>4. CASE UNCHANGED vars
    BY <2>4 DEF vars
  <2>5. CASE \E t \in Users : InitCheck(t) \/ InitSpawn(t)
    BY <2>5 DEF InitCheck, InitSpawn
  <2> QED BY <2>1, <2>2, <2>3, <2>4, <2>5
<1> QED BY <1>2, ContractFrame

(* In a calm environment the class Robot, with its threads and mutexes,    *)
(* does what RobotLoop promises: one loop at a time, started only on a     *)
(* stopped arm without a pending error, which is cleared only when the     *)
(* failed loop is gone.                                                    *)
THEOREM RobotLoopImplemented ==
  ASSUME Calm
  PROVE  Safety => RobotLoopSpec
<1>1. Init => Contract!Init
  <2> SUFFICES ASSUME Init PROVE robot.stopped_ /\ robot.has_error_ = FALSE
    BY DEF Contract!Init, Contract!Stopped
  <2>1. fault = FALSE
    BY DEF Calm, Init
  <2> QED BY <2>1 DEF Init
<1>2. Known /\ CalmInv /\ [Next]_vars =>
        [Contract!Next]_<<IF robot.stopped_ THEN "stopped" ELSE loopMode,
                          robot.has_error_>>
  <2> SUFFICES ASSUME Known, CalmInv, [Next]_vars
               PROVE  Contract!Next \/ UNCHANGED promised
    BY DEF promised
  <2>1. CASE Loop
    BY <2>1, LoopKeepsContract DEF Contract!Next
  <2>2. ASSUME NEW t \in Users, StopRobot(t)
        PROVE  Contract!Next \/ UNCHANGED promised
    BY <2>2, StopKeepsContract DEF Contract!Next
  <2>3. ASSUME NEW t \in Users, InitMark(t)
        PROVE  Contract!Next
    <3>1. \E m \in ControlModes : Contract!Start(m)
      BY <2>3, StartKeepsContract
    <3>2. ControlModes = Contract!ControlModes
      BY DEF ControlModes, JointModes, CartesianModes, None, Contract!ControlModes,
         Contract!JointModes, Contract!CartesianModes, Contract!None
    <3> QED BY <3>1, <3>2 DEF Contract!Next
  <2>4. CASE RecoveryClear
    BY <2>4, ClearKeepsContract DEF Contract!Next
  <2>5. CASE ~Loop /\ ~RecoveryClear /\ ~(\E t \in Users : StopRobot(t) \/ InitMark(t))
    BY <2>5, OthersKeepContract DEF Next, InitLoop
  <2> QED BY <2>1, <2>2, <2>3, <2>4, <2>5
<1> QED BY <1>1, <1>2, CalmAlways, PTL DEF Safety, RobotLoopSpec, Contract!Spec

=============================================================================
