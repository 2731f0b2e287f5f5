------------------------------ MODULE MCSkills ------------------------------
(* The instance of Skills for TLC: a skill with two documents, which one    *)
(* policy searches by embeddings and another quarantines.                   *)
EXTENDS Skills, TLC

CONSTANTS s1, d1, d2

MCOwner == d1 :> s1 @@ d2 :> s1

MCPolicies ==
  {[toxic |-> {}, rag |-> TRUE, auto |-> TRUE], [toxic |-> {s1}, rag |-> FALSE, auto |-> FALSE]}
=============================================================================
