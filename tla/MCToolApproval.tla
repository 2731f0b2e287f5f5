-------------------------- MODULE MCToolApproval --------------------------
(* ToolApproval on small instances: one session, one sensitive target, two *)
(* operators and two requests, ages up to one past both time limits.  No   *)
(* symmetry, since the runs check liveness as well.                        *)
EXTENDS ToolApproval
=============================================================================
