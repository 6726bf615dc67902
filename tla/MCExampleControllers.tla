------------------------ MODULE MCExampleControllers ------------------------
(***************************************************************************)
(* Controllers of every class, alone and in pairs that take turns or run   *)
(* together; two arms, two poses, two goals, of which one is complete.     *)
(***************************************************************************)
EXTENDS ExampleControllers

MCScenarios ==
  { {"joint_position", "state_broadcaster"}, {"joint_velocity", "model_example"},
    {"multi_joint_impedance"}, {"dual_joint_velocity", "gravity_compensation"},
    {"joint_impedance_example", "move_to_start"}, {"joint_impedance"},
    {"cartesian_impedance"}, {"cartesian_impedance_example", "model_broadcaster"},
    {"mobile_base"}, {"head"} }

=============================================================================
