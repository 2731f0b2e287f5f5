-------------------------- MODULE MCAgentSessions --------------------------
(* AgentSessions on small instances: two connections of one agent.  No     *)
(* symmetry, since the runs check liveness.                                *)
EXTENDS AgentSessions

MCThreshold == [t \in Triggers |-> 2]
=============================================================================
