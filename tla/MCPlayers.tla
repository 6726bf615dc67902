------------------------------ MODULE MCPlayers ------------------------------
(* Instances for TLC of the nodes that play a path to a controller as a    *)
(* stream of commands: a motion generator or the impedance bridge.         *)
EXTENDS MotionGenerator

CONSTANTS Points, num_threads, Ticks, Environments,
          Players   (* which nodes are looked at                           *)

VARIABLES player, races, traj_joint_names, traj_points, times, elapsed, active,
          tick, setpoint

bridge == INSTANCE ImpedanceBridge

ASSUME PlayersAssumption == bridge!BridgeAssumption

MCGoals == {"one", "two", "bad"}

(* Goals of a generator                                                    *)
MCVia == [g \in MCGoals |->
  CASE g = "one" -> <<2>> [] g = "two" -> <<2, 1>> [] g = "bad" -> <<0>>]
MCValid == {"one", "two"}
MCPoses == 0..2
MCHome == {0}
MCScalings == {0, 2}
MCSteps == {2}

(* Goals of the bridge                                                     *)
Point(pose, time) == [pose |-> pose, time |-> time]
MCPoints == [g \in MCGoals |->
  CASE g = "one" -> <<Point(0, 0), Point(2, 2)>>
    [] g = "two" -> <<Point(2, 0), Point(2, 1), Point(1, 2)>>
    [] g = "bad" -> <<>>]
MCEnvironments == {{}, {"overlap"}, {"late"}, {"empty"}}

ofGenerator == <<node, pending, state_, progress_, plan, scales, request, world>>
ofBridge == <<races, traj_joint_names, traj_points, times, elapsed, active,
  tick, setpoint>>
playerVars == <<player, vars, ofBridge>>

(* The members of the node that is not looked at.                          *)
NoGenerator ==
  /\ kind = "none" /\ alone = FALSE /\ pending = NoGoal /\ state_ = "none"
  /\ progress_ = FALSE /\ trajectory = <<>> /\ current_section_ = 1
  /\ t_ = 0 /\ t_start_ = 0 /\ scaling_ = 1 /\ scaling_goal_ = 1
  /\ last_scaling_ = 1 /\ ramp = 0 /\ time_scaling_ = 1 /\ steps_ = 0
  /\ messages = 0 /\ control_goal_ = 0 /\ robot = 0 /\ controlling = FALSE
NoBridge ==
  /\ races = {} /\ traj_joint_names = NoGoal /\ traj_points = NoGoal
  /\ times = NoGoal /\ elapsed = 0 /\ active = FALSE
  /\ tick = [i \in Ticks |-> bridge!IdleTick] /\ setpoint = bridge!NoSetpoint

PlayerInit ==
  /\ player \in Players
  /\ \/ player = "generator" /\ Init /\ NoBridge
     \/ player = "bridge" /\ bridge!Init /\ NoGenerator

Generates(action) == player = "generator" /\ action /\ UNCHANGED <<player, ofBridge>>
Bridges(action) == player = "bridge" /\ action /\ UNCHANGED <<player, ofGenerator>>

PlayerNext == Generates(Next) \/ Bridges(bridge!Next)

PlayerFairness ==
  /\ \A g \in Goals :
       /\ WF_playerVars(Generates(Thread(g)) \/ Bridges(bridge!Callback(g)))
       /\ WF_playerVars(Generates(PoseTimeout(g) \/ Accept(g)))
  /\ SF_playerVars(Bridges(\E g \in Goals : bridge!Begin(g)))
  /\ WF_playerVars(Bridges(\E i \in Ticks : bridge!Fire(i) \/ bridge!Tick(i)))

PlayerSpec == PlayerInit /\ [][PlayerNext]_playerVars /\ PlayerFairness

PlayerTypeOK == IF player = "generator" THEN TypeOK ELSE bridge!TypeOK

(* A goal that succeeds has been played to its end (updateState of the     *)
(* generators, execute_callback of the bridge), each node in the           *)
(* environment its module names.                                           *)
PathsAreCompleted ==
  [][ /\ player = "generator" => CompletesFitting
      /\ player = "bridge" => bridge!PlaysToTheEnd ]_playerVars

(* The commands on the way do not jump (step, _tick): in particular not    *)
(* between two trajectories, two sections or two time scalings.            *)
MotionsAreSmooth ==
  [][ /\ player = "generator" => KeepsSpeed
      /\ player = "bridge" => bridge!SmallSteps ]_playerVars

(* A goal of the bridge ends by itself (execute_callback), one of a        *)
(* generator while it moves and is alone (updateState), and one that is    *)
(* asked to cancel also when goals overlap, a scaling of 0 pauses the      *)
(* motion or a second goal was rejected: as a goal is cancelled once,      *)
(* again and again there is none left to end.                              *)
EveryMotionEnds ==
  /\ []<>(IF player = "generator" THEN terminated \/ \A g \in Goals : goal[g] # "canceling"
          ELSE terminated \/ \A g \in Goals : goal[g] \notin Active)
  /\ GoalsEnd

=============================================================================
