----------------------------- MODULE SceneData -----------------------------
(***************************************************************************)
(* The data MuJoCo keeps for a whole scene of arms and other things, and   *)
(* what the state and the model cut out of them for an arm are to be: its  *)
(* own, whatever the order of the scene.                                   *)
(*                                                                         *)
(* What is the case in a scene is known by the names of its parts; mjData  *)
(* lays it out in the arrays of MuJoCo, in the order of the scene.         *)
(***************************************************************************)
EXTENDS MjHardware, ModelSim

CONSTANTS
  Objects,   (* the things that are no arms; each of them moves freely     *)
  Layouts,   (* the orders in which the things come                        *)
  Facts      (* what may be the case                                       *)

World == "world"
Things == Arms \cup Objects

ASSUME ThingsAssumption == World \notin Things /\ Arms \cap Objects = {}
ASSUME LayoutsAssumption == \A layout \in Layouts : layout \in Seq(Things) /\ Arms \subseteq ToSet(layout)

-----------------------------------------------------------------------------
(* The parts of the scene, by name.                                        *)
JointNames ==
  (Arms \X {"joint"} \X Joints) \cup (Grippers \X {"finger_joint"} \X (1..2))
    \cup (Objects \X {"free"} \X {0})
BodyNames ==
  ({World} \X {"body"} \X {0}) \cup (Arms \X {"link"} \X Frames) \cup (Objects \X {"body"} \X {0})
SiteNames == Arms \X {"site"} \X Frames
ActuatorNames == Arms \X {"act_trq", "act_pos", "act_vel"} \X Joints

(* A thing that moves freely has a position and a quaternion.              *)
nq(joint) == IF joint[2] = "free" THEN 7 ELSE 1
nv(joint) == IF joint[2] = "free" THEN 6 ELSE 1
Coordinates == JointNames \X (1..7)
Dofs == JointNames \X (1..6)

Row(thing, part, first, n) == [i \in 1..n |-> <<thing, part, first + i - 1>>]
JointsOf ==
  [thing \in Things |->
    IF thing \in Objects THEN Row(thing, "free", 0, 1)
    ELSE Row(thing, "joint", 0, kNumberOfJoints)
           \o (IF thing \in Grippers THEN Row(thing, "finger_joint", 1, 2) ELSE <<>>)]
LinksOf ==
  [thing \in Things |->
    IF thing \in Objects THEN Row(thing, "body", 0, 1)
    ELSE Row(thing, "link", 0, kNumberOfJoints + 2)]
SitesOf ==
  [thing \in Things |->
    IF thing \in Objects THEN <<>> ELSE Row(thing, "site", 0, kNumberOfJoints + 2)]
ActuatorsOf ==
  [thing \in Things |->
    IF thing \in Objects THEN <<>>
    ELSE Row(thing, "act_trq", 0, kNumberOfJoints) \o Row(thing, "act_pos", 0, kNumberOfJoints)
           \o Row(thing, "act_vel", 0, kNumberOfJoints)]

All(of, layout) == FlattenSeq([i \in DOMAIN layout |-> of[layout[i]]])
mjModel(layout) ==
  LET names == All(JointsOf, layout)
  IN  [bodies |-> Row(World, "body", 0, 1) \o All(LinksOf, layout),
       sites |-> All(SitesOf, layout), joints |-> names,
       actuators |-> All(ActuatorsOf, layout),
       nq |-> [j \in ToSet(names) |-> nq(j)], nv |-> [j \in ToSet(names) |-> nv(j)]]

-----------------------------------------------------------------------------
(* What is the case: positions of coordinates; velocities, torques and     *)
(* inertias of degrees of freedom; forces of actuators; poses of bodies    *)
(* and sites; and how fast a site moves and turns with a degree of freedom *)
(* (rows 0 to 2 and 3 to 5).                                               *)
Unit == [r \in 0..2 |-> [c \in 0..2 |-> IF r = c THEN 1 ELSE 0]]
IsPose(P) ==
  /\ P.pos \in [0..2 -> Int] /\ P.rot \in [0..2 -> [0..2 -> Int]]
  /\ Times(P.rot, Transposed(P.rot)) = Unit

IsFact(fact) ==
  /\ fact.qpos \in [Coordinates -> Int]
  /\ fact.qvel \in [Dofs -> Int] /\ fact.applied \in [Dofs -> Int]
  /\ fact.gravity \in [Dofs -> Int] /\ fact.coriolis \in [Dofs -> Int]
  /\ fact.inertia \in [Dofs \X Dofs -> Int]
  /\ fact.force \in [ActuatorNames -> Int]
  /\ DOMAIN fact.pose = BodyNames \cup SiteNames
  /\ \A name \in BodyNames \cup SiteNames : IsPose(fact.pose[name])
  /\ fact.slope \in [SiteNames -> [0..5 -> [Dofs -> Int]]]

ASSUME FactsAssumption == \A fact \in Facts : IsFact(fact)

(* mj_kinematics and the functions after it: an array has an entry for     *)
(* every part, in the order of the parts.                                  *)
Entries(joints, n) ==
  FlattenSeq([i \in DOMAIN joints |-> [k \in 1..n[joints[i]] |-> <<joints[i], k>>]])
mjData(m, fact) ==
  LET coordinates == Entries(m.joints, m.nq)
      dofs == Entries(m.joints, m.nv)
      OfDofs(f) == [i \in DOMAIN dofs |-> f[dofs[i]]]
      Slopes(site, first) == [r \in 0..2 |-> OfDofs(fact.slope[site][first + r])]
  IN  [qpos |-> [i \in DOMAIN coordinates |-> fact.qpos[coordinates[i]]],
       qvel |-> OfDofs(fact.qvel), qfrc_applied |-> OfDofs(fact.applied),
       qfrc_gravcomp |-> OfDofs(fact.gravity),
       qfrc_bias |-> [i \in DOMAIN dofs |-> fact.gravity[dofs[i]] + fact.coriolis[dofs[i]]],
       M |-> [i \in DOMAIN dofs |-> [j \in DOMAIN dofs |-> fact.inertia[<<dofs[i], dofs[j]>>]]],
       actuator_force |-> [i \in DOMAIN m.actuators |-> fact.force[m.actuators[i]]],
       body |-> [i \in DOMAIN m.bodies |-> fact.pose[m.bodies[i]]],
       site |-> [i \in DOMAIN m.sites |-> fact.pose[m.sites[i]]],
       jacp |-> [i \in DOMAIN m.sites |-> Slopes(m.sites[i], 0)],
       jacr |-> [i \in DOMAIN m.sites |-> Slopes(m.sites[i], 3)]]

(* The parts of an arm.                                                    *)
Dof(a, j) == <<<<a, "joint", j>>, 1>>
Link(a, frame) == <<a, "link", frame>>
Site(a, frame) == <<a, "site", IF frame \in Frames THEN frame ELSE kNumberOfJoints + 1>>

-----------------------------------------------------------------------------
(* What is read of an arm is the position, the velocity and the effort of  *)
(* its own joints, wherever in the scene the arm comes, after fingers and  *)
(* objects with more coordinates than degrees of freedom                   *)
(* (populateIndices, populateFrankaState).                                 *)
OwnState ==
  \A layout \in Layouts, fact \in Facts, a \in Arms :
    LET m == mjModel(layout)
        state == populateFrankaState(mjData(m, fact), indices(m, a))
    IN  \A j \in Joints :
          /\ state.q[j] = fact.qpos[Dof(a, j)] /\ state.dq[j] = fact.qvel[Dof(a, j)]
          /\ state.tau_J[j] = fact.force[<<a, "act_trq", j>>] + fact.gravity[Dof(a, j)]
          /\ state.tau_ext_hat_filtered[j] = fact.applied[Dof(a, j)]

(* The model of an arm has the inertia, the Coriolis forces and the        *)
(* gravity of its own joints (setIndices, massImpl, coriolisImpl,          *)
(* gravityImpl).                                                           *)
OwnModel ==
  \A layout \in Layouts, fact \in Facts, a \in Arms :
    LET m == mjModel(layout)
        d == mjData(m, fact)
        idx == indices(m, a)
    IN  \A i, j \in Joints :
          /\ massImpl(d, idx)[i * kNumberOfJoints + j] = fact.inertia[<<Dof(a, i), Dof(a, j)>>]
          /\ coriolisImpl(d, idx)[i] = fact.coriolis[Dof(a, i)]
          /\ gravityImpl(d, idx)[i] = fact.gravity[Dof(a, i)]
OwnJoints == sim = "ready" => OwnState /\ OwnModel

(* A pose, read column by column as libfranka's are, and put behind the    *)
(* pose of the base gives that of the site of the frame, the end           *)
(* effector's for a frame without one (poseImpl); O_T_EE does so for the   *)
(* flange (populateFrankaState).                                           *)
Columns(v, rows, cols) == [r \in 0..(rows - 1) |-> [c \in 0..(cols - 1) |-> v[c * rows + r]]]
RelativePoses ==
  \A layout \in Layouts, fact \in Facts, a \in Arms :
    LET m == mjModel(layout)
        d == mjData(m, fact)
        idx == indices(m, a)
        Leads(pose, frame) ==
          Times(TMat(fact.pose[Link(a, 0)]), Columns(pose, 4, 4)) = TMat(fact.pose[Site(a, frame)])
    IN  /\ \A frame \in 0..(kNumberOfJoints + 2) : Leads(poseImpl(d, idx, frame), frame)
        /\ Leads(populateFrankaState(d, idx).O_T_EE, kNumberOfJoints)

(* The Jacobian "relative to the base frame" gives the velocities of a     *)
(* site in the frame of the base, from the velocities of the arm's own     *)
(* joints.  The rows of the angular velocity do so for a base that stands  *)
(* at the origin only: the transform they go through is that of forces.    *)
RelativeJacobian ==
  \A layout \in Layouts, fact \in Facts, a \in Arms, frame \in Frames :
    LET m == mjModel(layout)
        base == fact.pose[Link(a, 0)]
        J == Columns(zeroJacobianImpl(mjData(m, fact), indices(m, a), frame), 6, kNumberOfJoints)
        InWorld(first) == Times(base.rot, [r \in 0..2 |-> J[r + first]])
        Own(first) == [r \in 0..2 |-> [j \in Joints |->
                        fact.slope[Site(a, frame)][r + first][Dof(a, j)]]]
    IN  /\ InWorld(0) = Own(0)
        /\ base.pos = [i \in 0..2 |-> 0] => InWorld(3) = Own(3)
InBaseFrame == sim = "ready" => RelativePoses /\ RelativeJacobian

=============================================================================
