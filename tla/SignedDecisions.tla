-------------------------- MODULE SignedDecisions --------------------------
(***************************************************************************)
(* What the approval queue and the escalation matrix promise an auditor,   *)
(* without sessions, locks or handlers: a request is decided once, by an   *)
(* operator or by the timeout, and what an operator decided is signed at   *)
(* most once, as it was decided and over the payload shown at that moment, *)
(* for ever (proxy/compliance/hitl/matrix.go, the comments of              *)
(* SignedApproval, Resolve and Enrich).                                    *)
(***************************************************************************)
CONSTANTS Requests,    \* names of the requests that can be made
          Payloads     \* what an escalation can show

VARIABLES verdict,     \* per request, its status and who gave it
          seal         \* per request, the escalation once it is signed

bookVars == <<verdict, seal>>

Unasked == [status |-> "none", by |-> "none"]
Asked == [status |-> "pending", by |-> "none"]
Unsigned == [payload |-> "none", decision |-> "none", digest |-> "none"]

BookInit ==
  /\ verdict = [r \in Requests |-> Unasked]
  /\ seal = [r \in Requests |-> Unsigned]

Ask(r) ==
  /\ verdict[r] = Unasked
  /\ verdict' = [verdict EXCEPT ![r] = Asked]
  /\ UNCHANGED seal

Rule(r, d) ==
  /\ verdict[r] = Asked
  /\ verdict' = [verdict EXCEPT ![r] = [status |-> d, by |-> "operator"]]
  /\ UNCHANGED seal

TimeOut(late) ==
  /\ \A r \in late : verdict[r] = Asked
  /\ verdict' = [r \in Requests |-> IF r \in late THEN [status |-> "denied", by |-> "timeout"]
                                    ELSE verdict[r]]
  /\ UNCHANGED seal

Sign(r, p) ==
  /\ verdict[r].by = "operator" /\ seal[r] = Unsigned
  /\ seal' = [seal EXCEPT ![r] = [payload |-> p, decision |-> verdict[r].status, digest |-> p]]
  /\ UNCHANGED verdict

BookNext ==
  \/ \E r \in Requests : Ask(r) \/ Rule(r, "approved") \/ Rule(r, "denied")
  \/ \E late \in SUBSET Requests : TimeOut(late)
  \/ \E r \in Requests, p \in Payloads : Sign(r, p)

BookSpec == BookInit /\ [][BookNext]_bookVars
=============================================================================
