---------------------------- MODULE MCFrontDoor ----------------------------
(* The instance of FrontDoor for TLC: two providers, whose groups make the  *)
(* same person an admin at one and a user at the other.                     *)
EXTENDS FrontDoor, TLC

CONSTANTS c1, c2, staff, guests

MCAdminGroups == c1 :> {staff} @@ c2 :> {guests} @@ NoConfig :> {}
MCUserGroups == c1 :> {} @@ c2 :> {staff} @@ NoConfig :> {}
MCClaims == c1 :> {staff} @@ c2 :> {staff} @@ NoConfig :> {}

MCPolicies ==
  {[on |-> FALSE, config |-> NoConfig, maps |-> FALSE],
   [on |-> TRUE, config |-> c1, maps |-> TRUE], [on |-> TRUE, config |-> c2, maps |-> FALSE]}
=============================================================================
