----------------------------- MODULE ControlMode -----------------------------
(***************************************************************************)
(* The control modes of franka_hardware: enum class ControlMode.  None is  *)
(* the mode of an arm that only runs libfranka's reading loop.             *)
(***************************************************************************)

None == "None"

JointModes == {"JointTorque", "JointPosition", "JointVelocity"}

CartesianModes == {"CartesianPose", "CartesianVelocity"}

ControlModes == {None} \cup JointModes \cup CartesianModes

=============================================================================
