-------------------------- MODULE MCPolicyReload --------------------------
(* PolicyReload on small instances: one dashboard handler at a time beside *)
(* the watcher and a text editor.  Rules without a secret pattern are those *)
(* of the empty policy.  No symmetry, since the runs check liveness.       *)
EXTENDS PolicyReload
=============================================================================
