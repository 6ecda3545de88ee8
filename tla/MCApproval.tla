----------------------------- MODULE MCApproval -----------------------------
(* Two projects of one installation, one workflow each. *)
EXTENDS Approval
CONSTANTS p1, p2
=============================================================================
