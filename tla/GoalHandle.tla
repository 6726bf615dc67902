------------------------------ MODULE GoalHandle ------------------------------
(***************************************************************************)
(* A goal of a ROS action as its server sees it (rclcpp_action, external): *)
(* accepted and executing, asked to cancel, or ended in one of three ways. *)
(***************************************************************************)
Active == {"executing", "canceling"}
Ended == {"succeeded", "aborted", "canceled"}
Status == {"none"} \cup Active \cup Ended

(* The request to cancel, once the server's callback has accepted it; it   *)
(* has no effect on a goal that ended in the meantime.                     *)
Canceling(status) == IF status = "executing" THEN "canceling" ELSE status

=============================================================================
