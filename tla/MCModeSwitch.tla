----------------------------- MODULE MCModeSwitch -----------------------------
(* Instances of ModeSwitch for TLC: two arms, controllers for one arm and  *)
(* for both, as in franka_example_controllers.                             *)
EXTENDS ModeSwitch

CONSTANTS left, right

MCOrder == <<left, right>>
DistinctNames == [a \in {left, right} |-> {a}]

Joint(arms, what) ==
  [arms |-> arms, space |-> "joint", what |-> what, complete |-> TRUE]
Cartesian(arms, what) ==
  [arms |-> arms, space |-> "cartesian", what |-> what, complete |-> TRUE]

MCControllers == {"left_effort", "right_effort", "both_velocity", "half_velocity"}
MCClaim == [c \in MCControllers |->
  CASE c = "left_effort" -> Joint({left}, "effort")
    [] c = "right_effort" -> Joint({right}, "effort")
    [] c = "both_velocity" -> Joint({left, right}, "velocity")
    [] c = "half_velocity" -> [Joint({left}, "velocity") EXCEPT !.complete = FALSE]]

TwoControllers == {"one", "other"}
TwinClaim == [c \in TwoControllers |->
  IF c = "one" THEN Joint({left}, "effort") ELSE Joint({left, right}, "velocity")]
CartesianClaim == [c \in TwoControllers |->
  IF c = "one" THEN Cartesian({left}, "velocity") ELSE Cartesian({left, right}, "velocity")]
NoArms == {}
LeftArm == {left}

=============================================================================
