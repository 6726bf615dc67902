---------------------------- MODULE MCFrankaRobot ----------------------------
(* Instances of FrankaRobot for TLC: mode sets and environments.           *)
EXTENDS FrankaRobot

MCModes == {None, "JointTorque"}
MCThreeModes == {None, "JointTorque", "CartesianPose"}

Calm == {}
StartInError == {"start_in_error"}
InactiveRecovery == {"inactive_recovery"}

=============================================================================
