---------------------------- MODULE ToolApproval ----------------------------
(***************************************************************************)
(* Zero-trust approval of high-risk tool calls: scanPayload, the approval  *)
(* queue and its endpoints (proxy/main.go), and the escalation matrix that *)
(* binds an operator's signature to a decision (proxy/hitlchain.go,        *)
(* compliance/hitl/matrix.go).                                             *)
(*                                                                         *)
(* Three tables, each under its own lock: sessions (sessionHistoryLock),   *)
(* requests (toolApprovalsLock), escalations (Matrix.mu).  A step is what  *)
(* runs under one lock; between two of them any other goroutine may run.   *)
(* A tool with its target's fingerprint is an approval key; a sensitive    *)
(* key determines the arguments.  Ages stop growing at MaxAge, past every  *)
(* time limit.  A sessions entry is deleted by killSession, by             *)
(* killAllSessions, by a risk sequence and by idle eviction.               *)
(***************************************************************************)
EXTENDS Naturals, Sequences, FiniteSets

CONSTANTS
  Sessions, Keys,    \* session keys; approval keys (tool, or tool|fingerprint)
  Sensitive,         \* the keys that name a sensitive target
  Args,              \* arguments of the calls of the other keys
  Callers,           \* goroutines in scanPayload
  Operators,         \* goroutines answering an approve or deny request
  GrantTTL,          \* grant_ttl_minutes, 0 for never
  Timeout,           \* auto_deny_after_minutes
  HITL,              \* the escalation matrix is active
  SharedSlot,        \* two requests may fall into one 65 microsecond slot
  MaxRequests        \* bound: approval requests made

ASSUME ToolApprovalAssumption ==
  /\ Sensitive \subseteq Keys /\ Sensitive \cap Args = {}
  /\ GrantTTL \in Nat /\ Timeout \in Nat \ {0} /\ MaxRequests \in Nat
  /\ HITL \in BOOLEAN /\ SharedSlot \in BOOLEAN

IDs == 1 .. MaxRequests
NoID == 0
MaxAge == IF GrantTTL > Timeout THEN GrantTTL ELSE Timeout + 1
Never == MaxAge + 1
Ages == 0 .. Never
Decisions == {"approved", "denied"}
Payloads == Args \cup Sensitive \cup {"bare"}

VARIABLES
  sessions,      \* sessionHistory: ApprovedTools (ages of the grants), DeniedTools
  requests,      \* toolApprovals
  made,          \* the id of the newest request
  escalations,   \* Matrix.items, in the order they were raised
  callers,       \* locals of scanPayload
  operators,     \* locals of the approve and deny handlers
  answers,       \* history: age of the last approval applied, per session and key
  current        \* history: requests whose session was never deleted since

vars == <<sessions, requests, made, escalations, callers, operators, answers, current>>

-----------------------------------------------------------------------------
NoSession == [live |-> FALSE, approved |-> [k \in Keys |-> Never], denied |-> {}]
NoRequest == [status |-> "none", by |-> "none"]
IdleCaller == [pc |-> "idle"]
IdleOperator == [pc |-> "idle"]

Status(id) == requests[id].status
SameCall(id, s, k) == Status(id) # "none" /\ requests[id].session = s /\ requests[id].key = k

(* Changed: the grant lives one minute too long.                            *)
ExpiredLate(s, k) == k \in Sensitive /\ GrantTTL > 0 /\ sessions[s].approved[k] > GrantTTL

(* A plain grant never expires; one for a sensitive target does.            *)
Expired(s, k) == k \in Sensitive /\ GrantTTL > 0 /\ sessions[s].approved[k] >= GrantTTL

(* Changed: a grant wins over a denial.                                     *)
DeniedUnlessGranted(s, k) == k \in sessions[s].denied /\ sessions[s].approved[k] = Never

Denied(s, k) == k \in sessions[s].denied
Granted(s, k) == sessions[s].approved[k] # Never /\ ~Expired(s, k)

ArgsOf(k) == IF k \in Sensitive THEN {k} ELSE Args

-----------------------------------------------------------------------------
(* scanPayload *)

(* One critical section: the session is created if need be, a denial wins   *)
(* over a grant, and without either the call must be approved first.        *)
Call(c, s, k, a) ==
  /\ callers[c].pc = "idle"
  /\ sessions' = [sessions EXCEPT ![s].live = TRUE]
  /\ callers' = [callers EXCEPT ![c] =
        IF Denied(s, k) THEN IdleCaller
        ELSE [pc |-> IF Granted(s, k) THEN "passed" ELSE "request",
              session |-> s, key |-> k, args |-> a]]
  /\ UNCHANGED <<requests, made, escalations, operators, answers, current>>

Return(c) ==
  /\ callers[c].pc = "passed"
  /\ callers' = [callers EXCEPT ![c] = IdleCaller]
  /\ UNCHANGED <<sessions, requests, made, escalations, operators, answers, current>>

(* requestToolApproval: a pending request for the same call is shared.  The *)
(* id is the time with the low digits cut off, so that two requests of one  *)
(* slot have the same id and the second replaces the first; a slot is over  *)
(* before an operator or the clock gets to it.                              *)
Pending(s, k) == {id \in IDs : SameCall(id, s, k) /\ Status(id) = "pending"}

InSlot(id) ==
  /\ SharedSlot /\ id # NoID /\ id = made
  /\ Status(id) = "pending" /\ requests[id].age = 0
  /\ \A o \in Operators : operators[o].pc = "decide" => operators[o].id # id

FreshIDs == {id \in IDs : id = made + 1 \/ InSlot(id)}

NewRequest(s, k) ==
  [session |-> s, key |-> k, status |-> "pending", by |-> "none", age |-> 0,
   esc |-> IF HITL THEN Len(escalations) + 1 ELSE 0, signed |-> "none"]

(* Escalate queues the escalation as it is then: without the arguments.     *)
Escalation == [payload |-> "bare", decision |-> "none", digest |-> "none"]

RequestApproval(c) ==
  LET s == callers[c].session
      k == callers[c].key
      Go(id) == callers' = [callers EXCEPT ![c] =
                  IF HITL THEN [pc |-> "lookUp", session |-> s, key |-> k,
                                args |-> callers[c].args, id |-> id]
                  ELSE IdleCaller]
  IN
  /\ callers[c].pc = "request"
  /\ \/ \E id \in Pending(s, k) :
          Go(id) /\ UNCHANGED <<requests, made, escalations, current>>
     \/ \E id \in FreshIDs :
          /\ Pending(s, k) = {}
          /\ requests' = [requests EXCEPT ![id] = NewRequest(s, k)]
          /\ made' = id
          /\ escalations' = IF HITL THEN Append(escalations, Escalation) ELSE escalations
          /\ current' = IF sessions[s].live THEN current \cup {id} ELSE current \ {id}
          /\ Go(id)
  /\ UNCHANGED <<sessions, operators, answers>>

(* hitlEnrichEscalation: the escalation is looked up under one lock and     *)
(* given the call's arguments and prompt, in the place of those of an       *)
(* earlier call that shares it, under another.                              *)
LookUp(c) ==
  /\ callers[c].pc = "lookUp"
  /\ callers' = [callers EXCEPT ![c] =
        [pc |-> "enrich", args |-> @.args, esc |-> requests[@.id].esc]]
  /\ UNCHANGED <<sessions, requests, made, escalations, operators, answers, current>>

(* Changed: a resolved escalation is enriched too.                          *)
EnrichAnyTime(c) ==
  /\ callers[c].pc = "enrich"
  /\ escalations' = [escalations EXCEPT ![callers[c].esc].payload = callers[c].args]
  /\ callers' = [callers EXCEPT ![c] = IdleCaller]
  /\ UNCHANGED <<sessions, requests, made, operators, answers, current>>

Enrich(c) ==
  LET e == callers[c].esc IN
  /\ callers[c].pc = "enrich"
  /\ escalations' = IF escalations[e].decision = "none"
                      THEN [escalations EXCEPT ![e].payload = callers[c].args]
                      ELSE escalations
  /\ callers' = [callers EXCEPT ![c] = IdleCaller]
  /\ UNCHANGED <<sessions, requests, made, operators, answers, current>>

-----------------------------------------------------------------------------
(* The endpoints: an operator picks a request from the list and answers it. *)

Answer(o, id, d) ==
  /\ operators[o].pc = "idle" /\ Status(id) # "none"
  /\ operators' = [operators EXCEPT ![o] =
        [pc |-> "decide", id |-> id, decision |-> d, esc |-> requests[id].esc]]
  /\ UNCHANGED <<sessions, requests, made, escalations, callers, answers, current>>

(* Changed: a request that is decided already is decided again.             *)
DecideAgain(o) ==
  LET id == operators[o].id IN
  /\ operators[o].pc = "decide"
  /\ requests' = [requests EXCEPT ![id].status = operators[o].decision, ![id].by = "operator"]
  /\ operators' = [operators EXCEPT ![o] =
       [pc |-> "apply", id |-> id, decision |-> @.decision, esc |-> @.esc,
        session |-> requests[id].session, key |-> requests[id].key]]
  /\ UNCHANGED <<sessions, made, escalations, callers, answers, current>>

(* approveToolRequest and denyToolRequest, first section: the status.       *)
Decide(o) ==
  LET id == operators[o].id IN
  /\ operators[o].pc = "decide"
  /\ IF Status(id) = "pending"
       THEN /\ requests' = [requests EXCEPT ![id].status = operators[o].decision,
                                            ![id].by = "operator"]
            /\ operators' = [operators EXCEPT ![o] =
                 [pc |-> "apply", id |-> id, decision |-> @.decision, esc |-> @.esc,
                  session |-> requests[id].session, key |-> requests[id].key]]
       ELSE operators' = [operators EXCEPT ![o] = IdleOperator] /\ UNCHANGED requests
  /\ UNCHANGED <<sessions, made, escalations, callers, answers, current>>

(* The second section: the session's grants and denials, if there is still  *)
(* a session.                                                               *)
Apply(o) ==
  LET s == operators[o].session
      k == operators[o].key
      approved == operators[o].decision = "approved"
  IN
  /\ operators[o].pc = "apply"
  /\ sessions' = IF ~sessions[s].live THEN sessions
                 ELSE IF approved THEN [sessions EXCEPT ![s].approved[k] = 0]
                 ELSE [sessions EXCEPT ![s].denied = @ \cup {k}]
  /\ answers' = IF approved THEN [answers EXCEPT ![s][k] = 0] ELSE answers
  /\ operators' = [operators EXCEPT ![o] =
        IF @.esc = 0 THEN IdleOperator
        ELSE [pc |-> "resolve", id |-> @.id, decision |-> @.decision, esc |-> @.esc]]
  /\ UNCHANGED <<requests, made, escalations, callers, current>>

(* recordHITLDecision: Resolve signs the decision over the payload, unless  *)
(* the escalation is resolved already, and the signature is put on whatever *)
(* request has the id.                                                      *)
Resolve(o) ==
  LET e == operators[o].esc
      resolved == escalations[e].decision # "none"
  IN
  /\ operators[o].pc = "resolve"
  /\ escalations' = IF resolved THEN escalations
                    ELSE [escalations EXCEPT ![e].decision = operators[o].decision,
                                             ![e].digest = escalations[e].payload]
  /\ operators' = [operators EXCEPT ![o] =
        [pc |-> "attach", id |-> @.id,
         decision |-> IF resolved THEN escalations[e].decision ELSE @.decision]]
  /\ UNCHANGED <<sessions, requests, made, callers, answers, current>>

Attach(o) ==
  /\ operators[o].pc = "attach"
  /\ requests' = [requests EXCEPT ![operators[o].id].signed = operators[o].decision]
  /\ operators' = [operators EXCEPT ![o] = IdleOperator]
  /\ UNCHANGED <<sessions, made, escalations, callers, answers, current>>

-----------------------------------------------------------------------------
(* Time, and the end of a session *)

(* Changed: the comparison with the cutoff is the wrong way round.          *)
OverdueYoung(id) == Status(id) = "pending" /\ requests[id].age < Timeout

(* cleanupExpiredApprovals: the status and nothing else.                    *)
Overdue(id) == Status(id) = "pending" /\ requests[id].age > Timeout

CleanUp ==
  /\ \E id \in IDs : Overdue(id)
  /\ requests' = [id \in IDs |-> IF Overdue(id)
                    THEN [requests[id] EXCEPT !.status = "denied", !.by = "timeout"]
                    ELSE requests[id]]
  /\ UNCHANGED <<sessions, made, escalations, callers, operators, answers, current>>

(* The age of a grant counts for a sensitive target only, and that of a     *)
(* request while it is pending.                                             *)
Older(age) == IF age < MaxAge THEN age + 1 ELSE age
OlderGrant(k, age) == IF k \in Sensitive THEN Older(age) ELSE age

Minute ==
  /\ sessions' = [s \in Sessions |->
        [sessions[s] EXCEPT !.approved = [k \in Keys |-> OlderGrant(k, sessions[s].approved[k])]]]
  /\ requests' = [id \in IDs |-> IF Status(id) = "pending"
                    THEN [requests[id] EXCEPT !.age = Older(@)] ELSE requests[id]]
  /\ answers' = [s \in Sessions |-> [k \in Keys |-> OlderGrant(k, answers[s][k])]]
  /\ UNCHANGED <<made, escalations, callers, operators, current>>

DeleteSession(s) ==
  /\ sessions[s].live
  /\ sessions' = [sessions EXCEPT ![s] = NoSession]
  /\ current' = {id \in current : requests[id].session # s}
  /\ UNCHANGED <<requests, made, escalations, callers, operators, answers>>

-----------------------------------------------------------------------------
Init ==
  /\ sessions = [s \in Sessions |-> NoSession]
  /\ requests = [id \in IDs |-> NoRequest]
  /\ made = NoID
  /\ escalations = << >>
  /\ callers = [c \in Callers |-> IdleCaller]
  /\ operators = [o \in Operators |-> IdleOperator]
  /\ current = {}
  /\ answers = [s \in Sessions |-> [k \in Keys |-> Never]]

Caller(c) ==
  \/ \E s \in Sessions, k \in Keys : \E a \in ArgsOf(k) : Call(c, s, k, a)
  \/ Return(c) \/ RequestApproval(c) \/ LookUp(c) \/ Enrich(c)

Finish(o) == Decide(o) \/ Apply(o) \/ Resolve(o) \/ Attach(o)
Operator(o) == Finish(o) \/ \E id \in IDs, d \in Decisions : Answer(o, id, d)

Next ==
  \/ \E c \in Callers : Caller(c)
  \/ \E o \in Operators : Operator(o)
  \/ CleanUp \/ Minute
  \/ \E s \in Sessions : DeleteSession(s)

Spec == Init /\ [][Next]_vars

(* Time passes, the cleaner's ticker ticks, and a handler runs to its end.  *)
FairSpec == /\ Spec /\ WF_vars(Minute) /\ WF_vars(CleanUp)
            /\ \A o \in Operators : WF_vars(Finish(o))

-----------------------------------------------------------------------------
(* Properties *)

RequestType ==
  [session : Sessions, key : Keys, status : {"pending"} \cup Decisions,
   by : {"none", "operator", "timeout"}, age : 0 .. MaxAge, esc : Nat,
   signed : {"none"} \cup Decisions]

EscalationType ==
  [payload : Payloads, decision : {"none"} \cup Decisions, digest : Payloads \cup {"none"}]

CallerType ==
  {IdleCaller}
  \cup [pc : {"request", "passed"}, session : Sessions, key : Keys, args : Args \cup Sensitive]
  \cup [pc : {"lookUp"}, session : Sessions, key : Keys, args : Args \cup Sensitive, id : IDs]
  \cup [pc : {"enrich"}, args : Args \cup Sensitive, esc : Nat \ {0}]

OperatorType ==
  {IdleOperator}
  \cup [pc : {"decide"}, id : IDs, decision : Decisions, esc : Nat]
  \cup [pc : {"apply"}, id : IDs, decision : Decisions, esc : Nat, session : Sessions, key : Keys]
  \cup [pc : {"resolve"}, id : IDs, decision : Decisions, esc : Nat \ {0}]
  \cup [pc : {"attach"}, id : IDs, decision : Decisions]

(* The three tables and the locals of the handlers keep their types.        *)
TypeOK ==
  /\ sessions \in [Sessions -> [live : BOOLEAN, approved : [Keys -> Ages], denied : SUBSET Keys]]
  /\ requests \in [IDs -> RequestType \cup {NoRequest}]
  /\ made \in 0 .. MaxRequests
  /\ escalations \in Seq(EscalationType)
  /\ callers \in [Callers -> CallerType]
  /\ operators \in [Operators -> OperatorType]
  /\ current \subseteq IDs
  /\ answers \in [Sessions -> [Keys -> Ages]]

Passes(c) == callers[c].pc = "idle" /\ callers'[c].pc = "passed"

(* A high-risk call passes only if an operator's approval of this very call *)
(* was applied before, and for a sensitive target within the time to live   *)
(* of a grant, whatever the order of the handlers' steps.                   *)
PassOnlyIfApproved ==
  [][\A c \in Callers : Passes(c) =>
       LET age == answers[callers'[c].session][callers'[c].key] IN
       /\ age # Never
       /\ callers'[c].key \in Sensitive /\ GrantTTL > 0 => age < GrantTTL]_vars

(* Once an operator has denied a request and the handler applied it, no     *)
(* call it covers passes for as long as its session lives, not even with an *)
(* approval of another request for the same call.                           *)
DenialHolds ==
  [][\A c \in Callers : Passes(c) =>
       ~ \E id \in current :
           /\ SameCall(id, callers'[c].session, callers'[c].key)
           /\ Status(id) = "denied" /\ requests[id].by = "operator"
           /\ \A o \in Operators : operators[o].pc = "apply" => operators[o].id # id]_vars

(* A call waits in the queue once, however often the agent retries it.      *)
OnePendingPerCall ==
  \A i, j \in IDs :
    /\ Status(i) = "pending" /\ Status(j) = "pending"
    /\ requests[i].session = requests[j].session /\ requests[i].key = requests[j].key
    => i = j

(* What an operator signed is what was decided: a resolved escalation's     *)
(* decision is the status of the request it was raised for, also when two   *)
(* operators and the timeout answer the same request.                       *)
SignedAsDecided ==
  \A id \in IDs :
    Status(id) # "none" /\ requests[id].esc # 0 =>
      LET e == escalations[requests[id].esc] IN
      /\ e.decision # "none" => e.decision = Status(id) /\ requests[id].by = "operator"
      /\ requests[id].signed # "none" => requests[id].signed = e.decision

(* The payload under a signature never changes (matrix.go:143, "it can      *)
(* never mutate a payload an operator has already signed").                 *)
SignedPayloadFixed ==
  [][\A e \in DOMAIN escalations : escalations[e].decision # "none" =>
       /\ escalations'[e].payload = escalations[e].payload
       /\ escalations'[e].digest = escalations[e].payload]_vars

(* No request waits for ever: operators or the timeout decide it.           *)
PendingIsDecided == \A id \in IDs : Status(id) = "pending" ~> Status(id) # "pending"

(* The book of decisions as the tables tell it: the verdict on a request,   *)
(* and its escalation once that is signed.                                  *)
Verdict == [id \in IDs |-> [status |-> Status(id), by |-> requests[id].by]]

Unsigned == [payload |-> "none", decision |-> "none", digest |-> "none"]

SealOf(id) ==
  IF Status(id) = "none" \/ requests[id].esc = 0 THEN Unsigned
  ELSE LET e == escalations[requests[id].esc] IN
       IF e.decision = "none" THEN Unsigned ELSE e

Book == INSTANCE SignedDecisions WITH
          Requests <- IDs, verdict <- Verdict, seal <- [id \in IDs |-> SealOf(id)]

(* The queue and the matrix implement the book: one verdict per request,    *)
(* one signature per operator's verdict, which agrees with it and with the  *)
(* payload of that moment for ever (matrix.go:14, SignedApproval), whatever *)
(* handlers and ticks interleave.                                           *)
ImplementsBook == Book!BookSpec

=============================================================================
