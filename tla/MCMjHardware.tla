---------------------------- MODULE MCMjHardware ----------------------------
(* An instance of MjHardware for TLC: two arms, one of them with a         *)
(* gripper, controllers for one arm, for both and for none of them; and    *)
(* data for scenes that hold the arms and an object.                       *)
EXTENDS SceneData

CONSTANTS left, right

MCOrder == <<left, right>>
MCGrippers == {left}
MCControllers == {"left_effort", "both_velocity", "left_position", "right_half"}
MCClaim == [c \in MCControllers |->
  CASE c = "left_effort" -> [arms |-> {left}, kind |-> "effort", complete |-> TRUE]
    [] c = "both_velocity" -> [arms |-> {left, right}, kind |-> "velocity", complete |-> TRUE]
    [] c = "left_position" -> [arms |-> {left}, kind |-> "position", complete |-> TRUE]
    [] c = "right_half" -> [arms |-> {right}, kind |-> "effort", complete |-> FALSE]]
MCUnstable == {"both_velocity"}

(* A scene with everything, and one without the right arm's actuators.     *)
MCScenes ==
  {[a \in {left, right} |-> Elements],
   [a \in {left, right} |-> IF a = right THEN Elements \ {"actuators"} ELSE Elements]}

-----------------------------------------------------------------------------
(* A scene of the arms and of a cup, in three orders.                      *)
MCObjects == {"cup"}
MCLayouts == {<<"cup", left, right>>, <<left, "cup", right>>, <<right, left, "cup">>}

(* Quantities of the parts of the scene, all different.                    *)
Number(thing) == CASE thing = left -> 1 [] thing = right -> 2 [] OTHER -> 3
Quantity(what, name, k) ==
  1000 * what + 100 * Number(name[1]) + 10 * (IF name[2] = "finger_joint" THEN 7 ELSE name[3]) + k
OfDofs(what) == [dof \in Dofs |-> Quantity(what, dof[1], dof[2])]
Slope(site, r, name) ==
  ((2 * Number(name[1]) + 3 * name[3] + r * site[3] + site[3]) % 5) - 2

(* Poses: those of the bases and one for every other body and site.        *)
Unturned == <<<<1, 0, 0>>, <<0, 1, 0>>, <<0, 0, 1>>>>
Turned == <<<<0, -1, 0>>, <<1, 0, 0>>, <<0, 0, 1>>>>
Tilted == <<<<0, 0, 1>>, <<1, 0, 0>>, <<0, 1, 0>>>>
PoseAt(p, R) == [pos |-> [i \in 0..2 |-> p[i + 1]],
                 rot |-> [r \in 0..2 |-> [c \in 0..2 |-> R[r + 1][c + 1]]]]
Bases ==
  {PoseAt(<<0, 0, 0>>, Unturned), PoseAt(<<0, 0, 0>>, Turned),
   PoseAt(<<0, 26, 0>>, Unturned), PoseAt(<<2, 0, 1>>, Tilted)}
PoseOf(name, base) ==
  IF name[2] = "link" /\ name[3] = 0 THEN base
  ELSE PoseAt(<<name[3], Number(name[1]), 4>>, IF name[3] % 2 = 0 THEN Tilted ELSE Turned)

Fact(base) ==
  [qpos |-> [at \in Coordinates |-> Quantity(1, at[1], at[2])],
   qvel |-> OfDofs(2), applied |-> OfDofs(3), gravity |-> OfDofs(4), coriolis |-> OfDofs(5),
   inertia |-> [p \in Dofs \X Dofs |-> OfDofs(6)[p[1]] * OfDofs(6)[p[2]]],
   force |-> [name \in ActuatorNames |-> IF name[2] = "act_trq" THEN Quantity(7, name, 1) ELSE 0],
   pose |-> [name \in BodyNames \cup SiteNames |-> PoseOf(name, base)],
   slope |-> [site \in SiteNames |-> [r \in 0..5 |-> [dof \in Dofs |-> Slope(site, r, dof[1])]]]]
MCFacts == {Fact(base) : base \in Bases}

=============================================================================
