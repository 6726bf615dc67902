------------------------------ MODULE ModelSim ------------------------------
(***************************************************************************)
(* RobotSim and ModelSim: how the state and the model of one arm are cut   *)
(* out of the arrays MuJoCo keeps for the whole scene, and brought into    *)
(* the frames and the order of libfranka.                                  *)
(*                                                                         *)
(* Indices start at 0 as in the code, except into the sequences m and d    *)
(* are made of.  Rotations are matrices, also where the code turns them    *)
(* into quaternions and back; a matrix is a function of its rows.  Numbers *)
(* are integers: nothing here divides or rounds.                           *)
(***************************************************************************)
EXTENDS Integers, FiniteSets, Sequences, SequencesExt

CONSTANT kNumberOfJoints

ASSUME JointsAssumption == kNumberOfJoints \in Nat \ {0}

Joints == 0..(kNumberOfJoints - 1)
Frames == 0..(kNumberOfJoints + 1)   (* the joints, the flange, the end effector *)

-----------------------------------------------------------------------------
(* The sums of the first components of a vector, and of all of them.       *)
Sums(v) ==
  LET sum[i \in 0..Cardinality(DOMAIN v)] == IF i = 0 THEN 0 ELSE sum[i - 1] + v[i - 1]
  IN  sum
SumOf(v) == Sums(v)[Cardinality(DOMAIN v)]

(* MuJoCo: names are numbered kind by kind, in the order of the scene; the *)
(* addresses of a joint come after those of the joints before it, and a    *)
(* joint has nq coordinates and nv degrees of freedom.                     *)
mj_name2id(list, name) ==
  IF name \in ToSet(list) THEN (CHOOSE i \in DOMAIN list : list[i] = name) - 1 ELSE -1
jnt_qposadr(m, id) == SumOf([i \in 0..(id - 1) |-> m.nq[m.joints[i + 1]]])
jnt_dofadr(m, id) == SumOf([i \in 0..(id - 1) |-> m.nv[m.joints[i + 1]]])

Times(A, B) ==   (* the product of two matrices *)
  [r \in DOMAIN A |-> [c \in DOMAIN B[0] |-> SumOf([i \in DOMAIN B |-> A[r][i] * B[i][c]])]]
Applied(A, v) == [r \in DOMAIN A |-> SumOf([i \in DOMAIN v |-> A[r][i] * v[i]])]
Transposed(A) == [r \in DOMAIN A[0] |-> [c \in DOMAIN A |-> A[c][r]]]

mju_mulPose(A, B) ==
  [pos |-> [i \in 0..2 |-> A.pos[i] + Applied(A.rot, B.pos)[i]], rot |-> Times(A.rot, B.rot)]
mju_negPose(A) ==
  [pos |-> [i \in 0..2 |-> -Applied(Transposed(A.rot), A.pos)[i]], rot |-> Transposed(A.rot)]

-----------------------------------------------------------------------------
(* The indices of an arm, looked up by the names of its parts.             *)
Ids(list, arm, part, S) == [n \in S |-> mj_name2id(list, <<arm, part, n>>)]

(* A wrong variant: coordinates are looked for at the number of the joint. *)
JointNumbers(m, arm) ==
  LET joint == Ids(m.joints, arm, "joint", Joints)
  IN  [qpos |-> joint, qvel |-> [n \in Joints |-> jnt_dofadr(m, joint[n])]]
Addresses(m, arm) ==
  LET joint == Ids(m.joints, arm, "joint", Joints)
  IN  [qpos |-> [n \in Joints |-> jnt_qposadr(m, joint[n])],
       qvel |-> [n \in Joints |-> jnt_dofadr(m, joint[n])]]

(* populateIndices of an arm whose parts are all there, and setIndices of  *)
(* its model.                                                              *)
indices(m, arm) ==
  [link |-> Ids(m.bodies, arm, "link", Frames), site |-> Ids(m.sites, arm, "site", Frames),
   qpos |-> Addresses(m, arm).qpos, qvel |-> Addresses(m, arm).qvel,
   act_trq |-> Ids(m.actuators, arm, "act_trq", Joints)]

-----------------------------------------------------------------------------
(* Parts of ModelSim.                                                      *)
getXPosQuatbyLink(d, l) == d.body[l + 1]
getXPosQuatbySite(d, s) == d.site[s + 1]
getBSiteInALinkframe(d, A, B) ==
  mju_mulPose(mju_negPose(getXPosQuatbyLink(d, A)), getXPosQuatbySite(d, B))

pCross(p) == [r \in 0..2 |-> [c \in 0..2 |->
  CASE r = c -> 0 [] c = (r + 1) % 3 -> -p[(r + 2) % 3] [] c = (r + 2) % 3 -> p[(r + 1) % 3]]]

composeForceTransform(P) ==
  [r \in 0..5 |-> [c \in 0..5 |->
    CASE r < 3 /\ c < 3 -> P.rot[r][c]
      [] r < 3 /\ c >= 3 -> 0
      [] r >= 3 /\ c < 3 -> Times(pCross(P.pos), P.rot)[r - 3][c]
      [] r >= 3 /\ c >= 3 -> P.rot[r - 3][c - 3]]]

get6x7Jacobian(d, idx, s) ==
  [r \in 0..5 |-> [j \in Joints |->
    IF r < 3 THEN d.jacp[s + 1][r][idx.qvel[j] + 1] ELSE d.jacr[s + 1][r - 3][idx.qvel[j] + 1]]]

(* A wrong variant: the order of MuJoCo is kept.                           *)
RowMajor(M, rows, cols) ==
  [k \in 0..(rows * cols - 1) |-> M[k \div cols][k % cols]]
convertToColMajor(M, rows, cols) ==
  [k \in 0..(rows * cols - 1) |-> M[k % rows][k \div rows]]

TMat(P) ==
  [r \in 0..3 |-> [c \in 0..3 |->
    IF r = 3 THEN (IF c = 3 THEN 1 ELSE 0) ELSE IF c = 3 THEN P.pos[r] ELSE P.rot[r][c]]]

-----------------------------------------------------------------------------
(* The functions of the model.  A frame of libfranka without a site of its *)
(* own gets that of the end effector.                                      *)
SiteOf(idx, frame) == idx.site[IF frame \in Frames THEN frame ELSE kNumberOfJoints + 1]

poseImpl(d, idx, frame) ==
  convertToColMajor(TMat(getBSiteInALinkframe(d, idx.link[0], SiteOf(idx, frame))), 4, 4)

(* The number of the site is also taken for that of a body.                *)
bodyJacobianImpl(d, idx, frame) ==
  LET l == SiteOf(idx, frame)
  IN  convertToColMajor(Times(composeForceTransform(mju_negPose(getXPosQuatbyLink(d, l))),
                              get6x7Jacobian(d, idx, l)), 6, kNumberOfJoints)

zeroJacobianImpl(d, idx, frame) ==
  convertToColMajor(
    Times(composeForceTransform(mju_negPose(getXPosQuatbyLink(d, idx.link[0]))),
          get6x7Jacobian(d, idx, SiteOf(idx, frame))), 6, kNumberOfJoints)

massImpl(d, idx) ==
  [k \in 0..(kNumberOfJoints * kNumberOfJoints - 1) |->
    d.M[idx.qvel[k \div kNumberOfJoints] + 1][idx.qvel[k % kNumberOfJoints] + 1]]
coriolisImpl(d, idx) ==
  [i \in Joints |-> d.qfrc_bias[idx.qvel[i] + 1] - d.qfrc_gravcomp[idx.qvel[i] + 1]]
gravityImpl(d, idx) == [i \in Joints |-> d.qfrc_gravcomp[idx.qvel[i] + 1]]

-----------------------------------------------------------------------------
(* RobotSim::populateFrankaState, without what it leaves alone.  The force *)
(* is the Jacobian times the torques, turned into the frame of link 8.     *)
populateFrankaState(d, idx) ==
  LET last == kNumberOfJoints + 1
      tau_ext == [i \in Joints |-> d.qfrc_applied[idx.qvel[i] + 1]]
  IN  [q |-> [i \in Joints |-> d.qpos[idx.qpos[i] + 1]],
       dq |-> [i \in Joints |-> d.qvel[idx.qvel[i] + 1]],
       tau_J |-> [i \in Joints |-> d.actuator_force[idx.act_trq[i] + 1]
                                     + d.qfrc_gravcomp[idx.qvel[i] + 1]],
       tau_ext_hat_filtered |-> tau_ext,
       O_F_ext_hat_K |->
         Applied(Times(composeForceTransform(mju_negPose(getXPosQuatbyLink(d, idx.link[last]))),
                       get6x7Jacobian(d, idx, idx.site[last])), tau_ext),
       O_T_EE |->
         convertToColMajor(TMat(getBSiteInALinkframe(d, idx.link[0],
                                                     idx.site[kNumberOfJoints])), 4, 4)]

=============================================================================
