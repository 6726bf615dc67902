------------------------------ MODULE MCGrippers ------------------------------
(* Instances of the gripper servers for TLC: a node with either of them,   *)
(* as the launch files start them, and clients that send some goals.       *)
EXTENDS Gripper

CONSTANTS Extra, Servers

ASSUME ExtraAssumption == Extra \in Nat

VARIABLES server, is_canceled_, command, loop, asked

sim == INSTANCE GripperSim

MCGoals == {"home", "close", "far"}
MCTask == [g \in MCGoals |-> IF g = "home" THEN "homing" ELSE "gripper_command"]
MCTarget == [g \in MCGoals |-> CASE g = "home" -> 2 [] g = "close" -> 0 [] g = "far" -> 3]
ARM == {"real", "sim"}
SIM == {"sim"}

onlySim == <<is_canceled_, command, loop, asked>>
nodeVars == <<server, vars, onlySim>>

NodeInit ==
  /\ server \in Servers
  /\ \/ /\ server = "real" /\ Init
        /\ is_canceled_ = FALSE /\ command = 0 /\ asked = {}
        /\ loop = [g \in Goals |-> sim!Idle]
     \/ server = "sim" /\ sim!Init /\ terminated = FALSE

Real(step) == server = "real" /\ step /\ UNCHANGED <<server, onlySim>>
Simulated(step) == server = "sim" /\ step /\ UNCHANGED <<server, terminated>>

NodeNext == Real(Next) \/ Simulated(sim!Next)

NodeFairness ==
  \A g \in Goals :
    /\ WF_nodeVars(Real(Thread(g)))
    /\ WF_nodeVars(Real(Send(g)))
    /\ WF_nodeVars(Real(Return(g)))
    /\ WF_nodeVars(Simulated(sim!Thread(g)))
    /\ WF_nodeVars(Simulated(sim!Motion(g)))

NodeSpec == NodeInit /\ [][NodeNext]_nodeVars /\ NodeFairness

NodeTypeOK == IF server = "real" THEN TypeOK ELSE sim!TypeOK

(* The real server keeps the promise of an action server (Gripper).        *)
realGoal == [g \in Goals |-> IF server = "real" THEN goal[g] ELSE "none"]
realMotion == [g \in Goals |-> IF server = "real" THEN motionOf[g] ELSE "none"]
Kept == INSTANCE GoalServer WITH goal <- realGoal, motion <- realMotion
RealKeepsPromise == Kept!Spec

(* The simulated server cuts only what was to be cut (GripperSim).         *)
CutWasAsked == server = "sim" => sim!CutWasAsked

(* "Returns true on success": the simulated server does not (GripperSim).  *)
SuccessMeansCompleted == sim!SuccessMeansCompleted

=============================================================================
