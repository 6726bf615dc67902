--------------------------- MODULE ImpedanceBridge ---------------------------
(***************************************************************************)
(* ImpedanceBridgeNode: an action server that plays planned trajectories   *)
(* to the joint impedance controller.  The callback of a goal loads its    *)
(* trajectory into members of the node and waits; a timer publishes one    *)
(* set point per period from them.  Both run on the threads of one pool,   *)
(* in a reentrant callback group and without a lock.                       *)
(*                                                                         *)
(* Every statement on a shared member is a step, but that a tick reads the *)
(* points and the names of a set point at once.  A pose is a number, times *)
(* count in periods, and a member that is filled from a trajectory is      *)
(* named by its goal.                                                      *)
(***************************************************************************)
EXTENDS GoalHandle, Integers, Sequences, FiniteSets

CONSTANTS
  Goals, NoGoal,
  Points,        (* the points of a goal's trajectory: a pose and a time   *)
  num_threads,   (* of the executor                                        *)
  Ticks,         (* bound: the ticks of the timer that run at a time       *)
  Environments   (* bound: the sets of races that are looked at            *)

(* What the environment may do beyond sending one goal after the other:    *)
(* goals that overlap, a timer that lags or overlaps with itself, and      *)
(* goals without points.                                                   *)
RaceKinds == {"overlap", "late", "empty"}

Trajectories == Goals \cup {NoGoal}
PointsOf(g) == IF g = NoGoal THEN <<>> ELSE Points[g]
Rising(path) ==
  \A i, j \in DOMAIN path : i < j => path[i].time < path[j].time

BridgeAssumption ==
  /\ Environments \subseteq SUBSET RaceKinds
  /\ NoGoal \notin Goals /\ num_threads \in Nat \ {0}
  /\ \A g \in Goals : Points[g] \in Seq([pose : Int, time : Nat]) /\ Rising(Points[g])

VARIABLES
  races,
  goal, thread,                  (* the goals and their callbacks          *)
  traj_joint_names, traj_points, times, elapsed, active,
  tick,                          (* where a tick is, and its locals        *)
  setpoint,                      (* the last message published             *)
  terminated                     (* an exception has left the executor     *)

trajectory == <<traj_joint_names, traj_points, times>>
vars == <<races, goal, thread, trajectory, elapsed, active, tick, setpoint, terminated>>

Loading == {"names", "points", "times", "elapsed", "active"}
IdleTick == [at |-> "idle", t |-> 0, times |-> NoGoal]
NoSetpoint == [names |-> NoGoal, points |-> NoGoal, pose |-> 0]

TypeOK ==
  /\ races \in Environments
  /\ goal \in [Goals -> Status]
  /\ thread \in [Goals -> {"none", "queued", "wait", "gone"} \cup Loading]
  /\ traj_joint_names \in Trajectories /\ traj_points \in Trajectories
  /\ times \in Trajectories /\ elapsed \in Nat /\ active \in BOOLEAN
  /\ tick \in [Ticks -> [at : {"idle", "read", "publish", "add", "store", "compare", "deactivate"},
                         t : Nat, times : Trajectories]]
  /\ setpoint.names \in Trajectories /\ setpoint.points \in Trajectories
  /\ setpoint.pose \in Int /\ terminated \in BOOLEAN

Init ==
  /\ races \in Environments
  /\ goal = [g \in Goals |-> "none"] /\ thread = [g \in Goals |-> "none"]
  /\ traj_joint_names = NoGoal /\ traj_points = NoGoal /\ times = NoGoal
  /\ elapsed = 0 /\ active = FALSE
  /\ tick = [i \in Ticks |-> IdleTick] /\ setpoint = NoSetpoint
  /\ terminated = FALSE

-----------------------------------------------------------------------------
(* The executor: callbacks wait in a queue for one of its threads.  A goal *)
(* keeps its thread until it ends.                                         *)
Waiting == {g \in Goals : thread[g] \notin {"none", "queued", "gone"}}
Ticking == {i \in Ticks : tick[i].at # "idle"}
Free == Cardinality(Waiting) + Cardinality(Ticking) < num_threads

(* Goals are accepted, and requests to cancel them rejected, by default.   *)
Accept(g) ==
  /\ ~terminated /\ goal[g] = "none"
  /\ "overlap" \in races \/ \A h \in Goals : goal[h] \notin Active
  /\ "empty" \in races \/ Points[g] # <<>>
  /\ goal' = [goal EXCEPT ![g] = "executing"]
  /\ thread' = [thread EXCEPT ![g] = "queued"]
  /\ UNCHANGED <<races, trajectory, elapsed, active, tick, setpoint, terminated>>

Begin(g) ==
  /\ ~terminated /\ thread[g] = "queued" /\ Free
  /\ thread' = [thread EXCEPT ![g] = "names"]
  /\ UNCHANGED <<races, goal, trajectory, elapsed, active, tick, setpoint, terminated>>

-----------------------------------------------------------------------------
(* execute_callback                                                        *)

From(g, here, next) ==
  /\ ~terminated /\ thread[g] = here
  /\ thread' = [thread EXCEPT ![g] = next]
  /\ UNCHANGED <<races, tick, setpoint, terminated>>

(* The times of a trajectory without points are [] as well.                *)
load_trajectory(g) ==
  \/ /\ From(g, "names", "points") /\ traj_joint_names' = g
     /\ UNCHANGED <<goal, traj_points, times, elapsed, active>>
  \/ /\ From(g, "points", "times") /\ traj_points' = g
     /\ UNCHANGED <<goal, traj_joint_names, times, elapsed, active>>
  \/ /\ From(g, "times", "elapsed") /\ times' = g
     /\ UNCHANGED <<goal, traj_joint_names, traj_points, elapsed, active>>

(* A wrong variant: a trajectory is begun where the last one ended.        *)
ActivateOnly(g) ==
  /\ From(g, "elapsed", "wait") /\ active' = TRUE
  /\ UNCHANGED <<goal, trajectory, elapsed>>

Activate(g) ==
  \/ /\ From(g, "elapsed", "active") /\ elapsed' = 0
     /\ UNCHANGED <<goal, trajectory, active>>
  \/ /\ From(g, "active", "wait") /\ active' = TRUE
     /\ UNCHANGED <<goal, trajectory, elapsed>>

(* The deadline is half a second after the end of the trajectory.  A timer *)
(* that keeps its period is done by then, if there is something to publish *)
(* and a thread to do it on.                                               *)
DeadlinePasses(g) == races \cap {"late", "overlap"} # {} \/ Points[g] = <<>>

Finish(g) ==
  /\ From(g, "wait", "gone") /\ (~active \/ DeadlinePasses(g))
  /\ goal' = [goal EXCEPT ![g] = "succeeded"]
  /\ UNCHANGED <<trajectory, elapsed, active>>

-----------------------------------------------------------------------------
(* The timer's callback                                                    *)

(* The pose that times and points, maybe of two trajectories, have at t;   *)
(* nothing if an index is out of range.                                    *)
interpolate_at(of, points, t) ==
  LET T == PointsOf(of)
      P == PointsOf(points)
      idx == IF T = <<>> \/ t <= T[1].time THEN 1
             ELSE IF t >= T[Len(T)].time THEN Len(P)
             ELSE CHOOSE i \in 1..(Len(T) - 1) : T[i].time <= t /\ t < T[i + 1].time
      between == T # <<>> /\ T[1].time < t /\ t < T[Len(T)].time
  IN  IF T = <<>> \/ P = <<>> \/ idx + (IF between THEN 1 ELSE 0) > Len(P) THEN {}
      ELSE IF ~between THEN {P[idx].pose}
      ELSE {P[idx].pose + ((P[idx + 1].pose - P[idx].pose) * (t - T[idx].time))
                            \div (T[idx + 1].time - T[idx].time)}

Step(i, here, next) ==
  /\ ~terminated /\ tick[i].at = here /\ next
  /\ UNCHANGED <<races, goal, thread, trajectory>>
Goto(i, there) ==
  tick' = [tick EXCEPT ![i] = [at |-> there, t |-> @.t, times |-> @.times]]

(* A tick with nothing to do is left out.                                  *)
Fire(i) ==
  /\ Step(i, "idle", Goto(i, "read"))
  /\ active /\ PointsOf(traj_points) # <<>> /\ Free
  /\ "late" \in races \/ \A j \in Ticks : tick[j].at = "idle"
  /\ UNCHANGED <<elapsed, active, setpoint, terminated>>

(* self._elapsed, and times in _interpolate_at                             *)
Read(i) ==
  /\ Step(i, "read", tick' = [tick EXCEPT ![i] = [at |-> "publish", t |-> elapsed,
                                                  times |-> times]])
  /\ UNCHANGED <<elapsed, active, setpoint, terminated>>

Publish(i) ==
  LET positions == interpolate_at(tick[i].times, traj_points, tick[i].t)
  IN  /\ Step(i, "publish", Goto(i, "add"))
      /\ terminated' = (positions = {})
      /\ setpoint' \in IF positions = {} THEN {setpoint}
                       ELSE [names : {traj_joint_names}, points : {traj_points}, pose : positions]
      /\ UNCHANGED <<elapsed, active>>

(* self._elapsed += self._period                                           *)
Add(i) ==
  \/ /\ Step(i, "add", tick' = [tick EXCEPT ![i] = [at |-> "store", t |-> elapsed + 1,
                                                   times |-> @.times]])
     /\ UNCHANGED <<elapsed, active, setpoint, terminated>>
  \/ /\ Step(i, "store", Goto(i, "compare"))
     /\ elapsed' = tick[i].t
     /\ UNCHANGED <<active, setpoint, terminated>>

LastTime(g) == PointsOf(g)[Len(PointsOf(g))].time

(* A wrong variant: the last point counts as published one period early.   *)
PlayedShort(t) == t >= LastTime(times)

PlayedOut(t) == t > LastTime(times) + 1

Compare(i) ==
  \/ /\ PointsOf(times) = <<>>
     /\ Step(i, "compare", Goto(i, "idle")) /\ terminated' = TRUE
     /\ UNCHANGED <<elapsed, active, setpoint>>
  \/ /\ PointsOf(times) # <<>> /\ PlayedOut(elapsed)
     /\ Step(i, "compare", Goto(i, "deactivate"))
     /\ UNCHANGED <<elapsed, active, setpoint, terminated>>
  \/ /\ PointsOf(times) # <<>> /\ ~PlayedOut(elapsed)
     /\ Step(i, "compare", tick' = [tick EXCEPT ![i] = IdleTick])
     /\ UNCHANGED <<elapsed, active, setpoint, terminated>>

Deactivate(i) ==
  /\ Step(i, "deactivate", tick' = [tick EXCEPT ![i] = IdleTick])
  /\ active' = FALSE
  /\ UNCHANGED <<elapsed, setpoint, terminated>>

-----------------------------------------------------------------------------
Callback(g) == load_trajectory(g) \/ Activate(g) \/ Finish(g)
Tick(i) == Read(i) \/ Publish(i) \/ Add(i) \/ Compare(i) \/ Deactivate(i)

Next ==
  \/ \E g \in Goals : Accept(g) \/ Begin(g) \/ Callback(g)
  \/ \E i \in Ticks : Fire(i) \/ Tick(i)

(* The threads go on and the timer fires again and again; the pool takes   *)
(* its callbacks first come, first served, so that goals get their turn.   *)
Fairness ==
  /\ \A g \in Goals : WF_vars(Callback(g))
  /\ SF_vars(\E g \in Goals : Begin(g))
  /\ WF_vars(\E i \in Ticks : Fire(i) \/ Tick(i))

Spec == Init /\ [][Next]_vars /\ Fairness

-----------------------------------------------------------------------------
(* Properties                                                              *)

Calm == races = {}
Distance(p, q) == IF p < q THEN q - p ELSE p - q

(* A goal that is reported as a success (execute_callback) has had the     *)
(* last point of its own trajectory published, if goals come one at a time *)
(* and the timer keeps its period.                                         *)
PlaysToTheEnd ==
  \A g \in Goals :
    Calm /\ goal[g] # "succeeded" /\ goal'[g] = "succeeded" =>
      setpoint.points = g /\ setpoint.pose = Points[g][Len(Points[g])].pose

(* "a steady stream of small setpoint steps"                               *)
(* (impedance_bridge_node.py:15): in the same environment a trajectory     *)
(* starts at its first point, every set point is of one trajectory, and    *)
(* none leaves out a part of it.                                           *)
MaxStep == 1
SmallSteps ==
  Calm /\ setpoint' # setpoint =>
    /\ setpoint'.names = setpoint'.points
    /\ IF setpoint'.points = setpoint.points
       THEN Distance(setpoint.pose, setpoint'.pose) <= MaxStep
       ELSE setpoint'.pose = Points[setpoint'.points][1].pose

(* Every accepted goal ends, whatever other goals and the timer do: the    *)
(* timer, or at last the deadline, ends its wait (execute_callback).       *)
GoalsEnd == []<>(terminated \/ \A g \in Goals : goal[g] \notin Active)

=============================================================================
