--------------------------- MODULE MCAgentTokens ---------------------------
(* AgentTokens on small instances: a root signed outside and two tokens    *)
(* issued here, one agent that may spawn itself twice deep.                *)
EXTENDS AgentTokens, TLC

MCRoutes == Agents \X Agents
MCMaxSpawnDepth == [a \in Agents |-> 2]
MCSymmetry == Permutations(Tokens \ Minted)
=============================================================================
