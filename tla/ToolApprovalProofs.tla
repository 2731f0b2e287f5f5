------------------------- MODULE ToolApprovalProofs -------------------------
(***************************************************************************)
(* What holds of the approval queue for every number of sessions, keys,    *)
(* callers, operators and requests.  The inductive invariant ties the      *)
(* three tables together: an operator's locals agree with the request they *)
(* are about, every request has an escalation of its own, and a grant is   *)
(* never younger than the answer it came from.                             *)
(***************************************************************************)
EXTENDS ToolApproval, TLAPS

SessionType == [live : BOOLEAN, approved : [Keys -> Ages], denied : SUBSET Keys]
Arguments == Args \cup Sensitive

IDsInOrder == \A id \in IDs : Status(id) # "none" => id <= made

Linked ==
  /\ \A id \in IDs : Status(id) # "none" =>
       /\ requests[id].esc <= Len(escalations)
       /\ HITL => requests[id].esc # 0
  /\ \A c \in Callers :
       /\ callers[c].pc = "lookUp" => HITL /\ Status(callers[c].id) # "none"
       /\ callers[c].pc = "enrich" => callers[c].esc <= Len(escalations)

OwnEscalation ==
  \A i, j \in IDs :
    /\ Status(i) # "none" /\ Status(j) # "none"
    /\ requests[i].esc # 0 /\ requests[i].esc = requests[j].esc
    => i = j

Following(o) ==
  LET op == operators[o] IN
  /\ op.pc # "idle" => Status(op.id) # "none"
  /\ op.pc \in {"decide", "apply", "resolve"} => op.esc = requests[op.id].esc
  /\ op.pc \in {"apply", "resolve", "attach"} =>
       Status(op.id) = op.decision /\ requests[op.id].by = "operator"
  /\ op.pc = "apply" => op.session = requests[op.id].session /\ op.key = requests[op.id].key
  /\ op.pc = "attach" => /\ requests[op.id].esc # 0
                         /\ escalations[requests[op.id].esc].decision = op.decision

OperatorsFollow == \A o \in Operators : Following(o)

GrantsAnswered ==
  \A s \in Sessions, k \in Keys :
    sessions[s].approved[k] # Never => answers[s][k] <= sessions[s].approved[k]

Applied(id) ==
  /\ Status(id) # "none" /\ sessions[requests[id].session].live
  /\ Status(id) = "denied" /\ requests[id].by = "operator"
     /\ (\A o \in Operators : operators[o].pc = "apply" => operators[o].id # id)
     => requests[id].key \in sessions[requests[id].session].denied

DenialsApplied == \A id \in current : Applied(id)

(* The inductive invariant.                                                 *)
IInv ==
  /\ TypeOK /\ IDsInOrder /\ Linked /\ OwnEscalation /\ OperatorsFollow
  /\ OnePendingPerCall /\ SignedAsDecided /\ GrantsAnswered /\ DenialsApplied

-----------------------------------------------------------------------------
(* Types *)

(* Ages are numbers, and Never is past the oldest of them.                  *)
LEMMA AgeFacts ==
  /\ MaxAge \in Nat /\ Never = MaxAge + 1 /\ Ages = 0 .. Never
  /\ IDs = 1 .. MaxRequests /\ MaxRequests \in Nat
  /\ GrantTTL <= MaxAge /\ GrantTTL \in Nat
BY ToolApprovalAssumption DEF MaxAge, Never, Ages, IDs

(* Growing older keeps the type, the order and the value of Never.          *)
LEMMA OlderFacts ==
  /\ \A a \in Ages : Older(a) \in Ages
  /\ \A a \in 0 .. MaxAge : Older(a) \in 0 .. MaxAge
  /\ \A a, b \in Ages : a <= b => Older(a) <= Older(b)
  /\ \A a \in Ages : Older(a) = Never <=> a = Never
BY AgeFacts DEF Older

LEMMA OlderGrantFacts ==
  ASSUME NEW k
  PROVE  /\ \A a \in Ages : OlderGrant(k, a) \in Ages
         /\ \A a, b \in Ages : a <= b => OlderGrant(k, a) <= OlderGrant(k, b)
         /\ \A a \in Ages : OlderGrant(k, a) = Never <=> a = Never
<1>1. CASE k \in Sensitive
  BY <1>1, OlderFacts DEF OlderGrant
<1>2. CASE k \notin Sensitive
  BY <1>2 DEF OlderGrant
<1> QED BY <1>1, <1>2

(* What a caller and an operator hold, by where they are.                   *)
LEMMA CallerAt ==
  ASSUME NEW r \in CallerType
  PROVE  /\ r.pc \in {"request", "passed"} =>
              r.session \in Sessions /\ r.key \in Keys /\ r.args \in Arguments
         /\ r.pc = "lookUp" => /\ r.session \in Sessions /\ r.key \in Keys
                               /\ r.args \in Arguments /\ r.id \in IDs
         /\ r.pc = "enrich" => r.args \in Arguments /\ r.esc \in Nat \ {0}
BY DEF CallerType, IdleCaller, Arguments

LEMMA OperatorAt ==
  ASSUME NEW r \in OperatorType
  PROVE  /\ r.pc \in {"idle", "decide", "apply", "resolve", "attach"}
         /\ r.pc # "idle" => r.id \in IDs /\ r.decision \in Decisions
         /\ r.pc \in {"decide", "apply"} => r.esc \in Nat
         /\ r.pc = "resolve" => r.esc \in Nat \ {0}
         /\ r.pc = "apply" => r.session \in Sessions /\ r.key \in Keys
BY DEF OperatorType, IdleOperator

LEMMA RequestAt ==
  ASSUME TypeOK, NEW id \in IDs, Status(id) # "none"
  PROVE  /\ requests[id] \in RequestType
         /\ requests[id].session \in Sessions /\ requests[id].key \in Keys
         /\ requests[id].age \in 0 .. MaxAge /\ requests[id].esc \in Nat
         /\ Status(id) \in {"pending"} \cup Decisions
         /\ requests[id].signed \in {"none"} \cup Decisions
<1>1. requests[id] # NoRequest
  BY DEF NoRequest, Status
<1>2. requests[id] \in RequestType
  BY <1>1 DEF TypeOK
<1> QED BY <1>2 DEF RequestType, Status

THEOREM InitType == Init => TypeOK
<1> SUFFICES ASSUME Init PROVE TypeOK
  OBVIOUS
<1>1. sessions \in [Sessions -> SessionType]
  BY AgeFacts DEF Init, NoSession, SessionType
<1>2. answers \in [Sessions -> [Keys -> Ages]]
  BY AgeFacts DEF Init
<1>3. escalations \in Seq(EscalationType)
  BY DEF Init
<1>4. callers \in [Callers -> CallerType] /\ operators \in [Operators -> OperatorType]
  BY DEF Init, CallerType, OperatorType
<1>5. requests \in [IDs -> RequestType \cup {NoRequest}] /\ made \in 0 .. MaxRequests /\ current \subseteq IDs
  BY AgeFacts DEF Init, NoID
<1> QED BY <1>1, <1>2, <1>3, <1>4, <1>5 DEF TypeOK, SessionType

LEMMA CallType ==
  ASSUME TypeOK, NEW c \in Callers, NEW s \in Sessions, NEW k \in Keys, NEW a \in ArgsOf(k),
         Call(c, s, k, a)
  PROVE  TypeOK'
<1>1. sessions' \in [Sessions -> SessionType]
  <2>1. sessions \in [Sessions -> SessionType]
    BY DEF TypeOK, SessionType
  <2>2. sessions[s] \in SessionType
    BY <2>1
  <2>3. [sessions[s] EXCEPT !.live = TRUE] \in SessionType
    BY <2>2 DEF SessionType
  <2>4. sessions' = [sessions EXCEPT ![s] = [sessions[s] EXCEPT !.live = TRUE]]
    BY <2>1 DEF Call
  <2> QED BY <2>1, <2>3, <2>4
<1>2. a \in Arguments
  BY DEF ArgsOf, Arguments
<1>3. [pc |-> IF Granted(s, k) THEN "passed" ELSE "request",
       session |-> s, key |-> k, args |-> a] \in CallerType
  BY <1>2 DEF CallerType, Arguments
<1>4. callers' \in [Callers -> CallerType]
  BY <1>3 DEF TypeOK, Call, CallerType
<1> QED BY <1>1, <1>4 DEF TypeOK, Call, SessionType

LEMMA ReturnType == ASSUME TypeOK, NEW c \in Callers, Return(c) PROVE TypeOK'
BY DEF TypeOK, Return, CallerType

LEMMA RequestApprovalType ==
  ASSUME TypeOK, NEW c \in Callers, RequestApproval(c)
  PROVE  TypeOK'
<1> DEFINE s == callers[c].session
           k == callers[c].key
           Waiting(id) == [pc |-> "lookUp", session |-> s, key |-> k,
                           args |-> callers[c].args, id |-> id]
<1>0. s \in Sessions /\ k \in Keys /\ callers[c].args \in Arguments
  BY CallerAt DEF TypeOK, RequestApproval
<1>1. \A id \in IDs : Waiting(id) \in CallerType
  BY <1>0 DEF CallerType, Arguments
<1>2. PICK id \in IDs : callers' = [callers EXCEPT ![c] = IF HITL THEN Waiting(id) ELSE IdleCaller]
  BY DEF RequestApproval, Pending, FreshIDs
<1>3. (IF HITL THEN Waiting(id) ELSE IdleCaller) \in CallerType
  BY <1>1, IdleCaller \in CallerType DEF CallerType
<1>4. callers' \in [Callers -> CallerType]
  BY <1>2, <1>3 DEF TypeOK
<1>5. CASE UNCHANGED <<requests, made, escalations, current>>
  BY <1>4, <1>5 DEF TypeOK, RequestApproval
<1>6. CASE ~ UNCHANGED <<requests, made, escalations, current>>
  <2>1. PICK n \in FreshIDs :
          /\ requests' = [requests EXCEPT ![n] = NewRequest(s, k)]
          /\ made' = n
          /\ escalations' = IF HITL THEN Append(escalations, Escalation) ELSE escalations
          /\ current' = IF sessions[s].live THEN current \cup {n} ELSE current \ {n}
    BY <1>6 DEF RequestApproval
  <2>2. Len(escalations) \in Nat
    BY DEF TypeOK
  <2>3. NewRequest(s, k) \in RequestType
    BY <1>0, <2>2, AgeFacts DEF NewRequest, RequestType
  <2>4. n \in IDs /\ n \in 0 .. MaxRequests
    BY AgeFacts DEF FreshIDs
  <2>5. requests' \in [IDs -> RequestType \cup {NoRequest}]
    BY <2>1, <2>3, <2>4 DEF TypeOK
  <2>6. Escalation \in EscalationType
    BY DEF Escalation, EscalationType, Payloads
  <2>7. escalations' \in Seq(EscalationType)
    BY <2>1, <2>6 DEF TypeOK
  <2>8. current' \subseteq IDs
    BY <2>1, <2>4 DEF TypeOK
  <2> QED BY <1>4, <2>1, <2>4, <2>5, <2>7, <2>8 DEF TypeOK, RequestApproval
<1> QED BY <1>5, <1>6

LEMMA LookUpType == ASSUME TypeOK, Linked, NEW c \in Callers, LookUp(c) PROVE TypeOK'
<1>1. callers[c].id \in IDs /\ callers[c].args \in Arguments
  BY CallerAt DEF TypeOK, LookUp
<1>2. HITL /\ Status(callers[c].id) # "none" /\ requests[callers[c].id].esc # 0
  BY <1>1 DEF Linked, LookUp
<1>3. requests[callers[c].id].esc \in Nat \ {0}
  BY <1>1, <1>2, RequestAt
<1>4. [pc |-> "enrich", args |-> callers[c].args, esc |-> requests[callers[c].id].esc] \in CallerType
  BY <1>1, <1>3 DEF CallerType, Arguments
<1> QED BY <1>4 DEF TypeOK, LookUp

LEMMA EnrichType == ASSUME TypeOK, Linked, NEW c \in Callers, Enrich(c) PROVE TypeOK'
<1>1. callers[c].args \in Arguments /\ callers[c].esc \in Nat \ {0}
  BY CallerAt DEF TypeOK, Enrich
<1>2. callers[c].esc \in 1 .. Len(escalations) /\ Len(escalations) \in Nat
  BY <1>1 DEF Linked, Enrich, TypeOK
<1>3. [escalations[callers[c].esc] EXCEPT !.payload = callers[c].args] \in EscalationType
  <2>1. escalations[callers[c].esc] \in EscalationType
    BY <1>2 DEF TypeOK
  <2>2. callers[c].args \in Payloads
    BY <1>1 DEF Payloads, Arguments
  <2> QED BY <2>1, <2>2 DEF EscalationType
<1>4. escalations' \in Seq(EscalationType)
  BY <1>2, <1>3 DEF TypeOK, Enrich
<1>5. callers' \in [Callers -> CallerType]
  BY DEF TypeOK, Enrich, CallerType
<1> QED BY <1>4, <1>5 DEF TypeOK, Enrich

LEMMA AnswerType ==
  ASSUME TypeOK, NEW o \in Operators, NEW id \in IDs, NEW d \in Decisions, Answer(o, id, d)
  PROVE  TypeOK'
<1>1. requests[id].esc \in Nat
  BY RequestAt DEF Answer
<1>2. [pc |-> "decide", id |-> id, decision |-> d, esc |-> requests[id].esc] \in OperatorType
  BY <1>1 DEF OperatorType
<1> QED BY <1>2 DEF TypeOK, Answer

LEMMA DecideType == ASSUME TypeOK, NEW o \in Operators, Decide(o) PROVE TypeOK'
<1> DEFINE id == operators[o].id
           d == operators[o].decision
           Applying == [pc |-> "apply", id |-> id, decision |-> d, esc |-> operators[o].esc,
                        session |-> requests[id].session, key |-> requests[id].key]
<1>1. id \in IDs /\ d \in Decisions /\ operators[o].esc \in Nat
  BY OperatorAt DEF TypeOK, Decide
<1>2. CASE Status(id) = "pending"
  <2>1. /\ requests[id] \in RequestType
        /\ requests[id].session \in Sessions /\ requests[id].key \in Keys
    BY <1>1, <1>2, RequestAt
  <2>2. [requests[id] EXCEPT !.status = d] \in RequestType
    BY <1>1, <2>1 DEF RequestType
  <2>3. [[requests[id] EXCEPT !.status = d] EXCEPT !.by = "operator"] \in RequestType
    BY <2>2 DEF RequestType
  <2>4. requests' = [requests EXCEPT ![id] =
                       [[requests[id] EXCEPT !.status = d] EXCEPT !.by = "operator"]]
    BY <1>1, <1>2 DEF Decide, TypeOK
  <2>5. requests' \in [IDs -> RequestType \cup {NoRequest}]
    BY <2>3, <2>4 DEF TypeOK
  <2>6. Applying \in OperatorType
    BY <1>1, <2>1 DEF OperatorType
  <2>7. operators' = [operators EXCEPT ![o] = Applying]
    BY <1>2 DEF Decide
  <2> HIDE DEF Applying
  <2> QED BY <2>5, <2>6, <2>7 DEF TypeOK, Decide
<1>3. CASE Status(id) # "pending"
  <2>1. operators' \in [Operators -> OperatorType]
    BY <1>3 DEF TypeOK, Decide, OperatorType
  <2> QED BY <1>3, <2>1 DEF TypeOK, Decide
<1> QED BY <1>2, <1>3

LEMMA ApplyType == ASSUME TypeOK, NEW o \in Operators, Apply(o) PROVE TypeOK'
<1> DEFINE s == operators[o].session
           k == operators[o].key
           Resolving == [pc |-> "resolve", id |-> operators[o].id,
                         decision |-> operators[o].decision, esc |-> operators[o].esc]
<1>1. /\ operators[o].id \in IDs /\ operators[o].decision \in Decisions
      /\ operators[o].esc \in Nat /\ s \in Sessions /\ k \in Keys
  BY OperatorAt DEF TypeOK, Apply
<1>2. sessions' \in [Sessions -> SessionType]
  <2>1. sessions[s] \in SessionType
    BY <1>1 DEF TypeOK, SessionType
  <2>2. [sessions[s].approved EXCEPT ![k] = 0] \in [Keys -> Ages]
    BY <1>1, <2>1, AgeFacts DEF SessionType
  <2>3. [sessions[s] EXCEPT !.approved = [sessions[s].approved EXCEPT ![k] = 0]] \in SessionType
    BY <2>1, <2>2 DEF SessionType
  <2>4. [sessions[s] EXCEPT !.denied = @ \cup {k}] \in SessionType
    BY <1>1, <2>1 DEF SessionType
  <2>5. \/ sessions' = sessions
        \/ sessions' = [sessions EXCEPT ![s] =
              [sessions[s] EXCEPT !.approved = [sessions[s].approved EXCEPT ![k] = 0]]]
        \/ sessions' = [sessions EXCEPT ![s] = [sessions[s] EXCEPT !.denied = @ \cup {k}]]
    BY <1>1 DEF Apply, TypeOK
  <2>6. sessions \in [Sessions -> SessionType]
    BY DEF TypeOK, SessionType
  <2> QED BY <2>3, <2>4, <2>5, <2>6
<1>3. answers' \in [Sessions -> [Keys -> Ages]]
  <2>1. [answers[s] EXCEPT ![k] = 0] \in [Keys -> Ages]
    BY <1>1, AgeFacts DEF TypeOK
  <2>2. answers' = answers \/ answers' = [answers EXCEPT ![s] = [answers[s] EXCEPT ![k] = 0]]
    BY <1>1 DEF Apply, TypeOK
  <2> QED BY <2>1, <2>2 DEF TypeOK
<1>4. operators' \in [Operators -> OperatorType]
  <2>1. operators[o].esc # 0 => Resolving \in OperatorType
    BY <1>1 DEF OperatorType
  <2>2. IdleOperator \in OperatorType
    BY DEF OperatorType
  <2>3. \/ operators' = [operators EXCEPT ![o] = IdleOperator]
        \/ operators[o].esc # 0 /\ operators' = [operators EXCEPT ![o] = Resolving]
    BY DEF Apply
  <2> HIDE DEF Resolving
  <2> QED BY <2>1, <2>2, <2>3 DEF TypeOK
<1> QED BY <1>2, <1>3, <1>4 DEF TypeOK, Apply, SessionType

(* The escalation an operator is about to resolve is there.                 *)
LEMMA ResolveAt ==
  ASSUME IInv, NEW o \in Operators, operators[o].pc = "resolve"
  PROVE  /\ operators[o].id \in IDs /\ operators[o].decision \in Decisions
         /\ Status(operators[o].id) = operators[o].decision
         /\ requests[operators[o].id].by = "operator"
         /\ operators[o].esc = requests[operators[o].id].esc
         /\ operators[o].esc \in 1 .. Len(escalations)
         /\ escalations[operators[o].esc] \in EscalationType
<1>1. operators[o].id \in IDs /\ operators[o].decision \in Decisions /\ operators[o].esc \in Nat \ {0}
  BY OperatorAt DEF TypeOK, IInv
<1>2. /\ Status(operators[o].id) # "none" /\ Status(operators[o].id) = operators[o].decision
      /\ requests[operators[o].id].by = "operator"
      /\ operators[o].esc = requests[operators[o].id].esc
  BY DEF IInv, OperatorsFollow, Following
<1>3. operators[o].esc \in 1 .. Len(escalations)
  BY <1>1, <1>2 DEF IInv, Linked, TypeOK
<1> QED BY <1>1, <1>2, <1>3 DEF IInv, TypeOK

LEMMA ResolveType == ASSUME IInv, NEW o \in Operators, Resolve(o) PROVE TypeOK'
<1> DEFINE e == operators[o].esc
           d == operators[o].decision
           Signed == [[escalations[e] EXCEPT !.decision = d] EXCEPT !.digest = escalations[e].payload]
           final == IF escalations[e].decision # "none" THEN escalations[e].decision ELSE d
           Attaching == [pc |-> "attach", id |-> operators[o].id, decision |-> final]
<1>0. TypeOK /\ operators[o].pc = "resolve"
  BY DEF IInv, Resolve
<1>1. /\ operators[o].id \in IDs /\ d \in Decisions /\ e \in 1 .. Len(escalations)
      /\ escalations[e] \in EscalationType
  BY <1>0, ResolveAt
<1>2. [escalations[e] EXCEPT !.decision = d] \in EscalationType
  BY <1>1 DEF EscalationType
<1>3. escalations[e].payload \in Payloads
  BY <1>1 DEF EscalationType
<1>4. Signed \in EscalationType
  BY <1>2, <1>3 DEF EscalationType
<1>5. escalations' = escalations \/ escalations' = [escalations EXCEPT ![e] = Signed]
  BY <1>0, <1>1 DEF Resolve, TypeOK
<1>6. final \in Decisions
  BY <1>1 DEF EscalationType
<1>7. Attaching \in OperatorType
  BY <1>1, <1>6 DEF OperatorType
<1>8. operators' = [operators EXCEPT ![o] = Attaching]
  BY DEF Resolve
<1> HIDE DEF Signed, Attaching
<1>9. escalations' \in Seq(EscalationType) /\ operators' \in [Operators -> OperatorType]
  BY <1>0, <1>1, <1>4, <1>5, <1>7, <1>8 DEF TypeOK
<1> QED BY <1>0, <1>9 DEF TypeOK, Resolve

LEMMA AttachType == ASSUME IInv, NEW o \in Operators, Attach(o) PROVE TypeOK'
<1> DEFINE id == operators[o].id
<1>0. TypeOK /\ id \in IDs /\ operators[o].decision \in Decisions
  BY OperatorAt DEF TypeOK, Attach, IInv
<1>1. Status(id) # "none"
  BY DEF IInv, OperatorsFollow, Following, Attach
<1>2. [requests[id] EXCEPT !.signed = operators[o].decision] \in RequestType
  BY <1>0, <1>1, RequestAt DEF RequestType
<1>3. requests' \in [IDs -> RequestType \cup {NoRequest}]
  BY <1>0, <1>2 DEF TypeOK, Attach
<1>4. operators' \in [Operators -> OperatorType]
  BY <1>0 DEF TypeOK, Attach, OperatorType
<1> QED BY <1>0, <1>3, <1>4 DEF TypeOK, Attach

LEMMA CleanUpType == ASSUME TypeOK, CleanUp PROVE TypeOK'
<1>1. ASSUME NEW id \in IDs, Overdue(id)
      PROVE  [requests[id] EXCEPT !.status = "denied", !.by = "timeout"] \in RequestType
  <2>1. requests[id] \in RequestType
    BY <1>1, RequestAt DEF Overdue
  <2>2. [requests[id] EXCEPT !.status = "denied"] \in RequestType
    BY <2>1 DEF RequestType, Decisions
  <2> QED BY <2>2 DEF RequestType
<1>2. requests' \in [IDs -> RequestType \cup {NoRequest}]
  BY <1>1 DEF TypeOK, CleanUp
<1> QED BY <1>2 DEF TypeOK, CleanUp

LEMMA MinuteType == ASSUME TypeOK, Minute PROVE TypeOK'
<1>1. sessions' \in [Sessions -> SessionType]
  <2>1. ASSUME NEW s \in Sessions
        PROVE  [sessions[s] EXCEPT !.approved = [k \in Keys |-> OlderGrant(k, sessions[s].approved[k])]]
                 \in SessionType
    <3>1. sessions[s] \in SessionType /\ \A k \in Keys : sessions[s].approved[k] \in Ages
      BY DEF TypeOK, SessionType
    <3>2. [k \in Keys |-> OlderGrant(k, sessions[s].approved[k])] \in [Keys -> Ages]
      BY <3>1, OlderGrantFacts
    <3> QED BY <3>1, <3>2 DEF SessionType
  <2> QED BY <2>1 DEF Minute
<1>2. requests' \in [IDs -> RequestType \cup {NoRequest}]
  <2>1. ASSUME NEW id \in IDs, Status(id) = "pending"
        PROVE  [requests[id] EXCEPT !.age = Older(@)] \in RequestType
    BY <2>1, RequestAt, OlderFacts DEF RequestType
  <2> QED BY <2>1 DEF TypeOK, Minute
<1>3. answers' \in [Sessions -> [Keys -> Ages]]
  <2>1. \A s \in Sessions, k \in Keys : answers[s][k] \in Ages
    BY DEF TypeOK
  <2>2. \A s \in Sessions, k \in Keys : OlderGrant(k, answers[s][k]) \in Ages
    BY <2>1, OlderGrantFacts
  <2>3. answers' = [s \in Sessions |-> [k \in Keys |-> OlderGrant(k, answers[s][k])]]
    BY DEF Minute
  <2> QED BY <2>2, <2>3
<1> QED BY <1>1, <1>2, <1>3 DEF TypeOK, Minute, SessionType

LEMMA DeleteSessionType == ASSUME TypeOK, NEW s \in Sessions, DeleteSession(s) PROVE TypeOK'
<1>1. NoSession \in SessionType
  BY AgeFacts DEF NoSession, SessionType
<1>2. sessions' \in [Sessions -> SessionType]
  BY <1>1 DEF TypeOK, DeleteSession, SessionType
<1> QED BY <1>2 DEF TypeOK, DeleteSession, SessionType

-----------------------------------------------------------------------------
(* The steps of a caller *)

Rest ==
  /\ IDsInOrder /\ Linked /\ OwnEscalation /\ OperatorsFollow
  /\ OnePendingPerCall /\ SignedAsDecided /\ GrantsAnswered /\ DenialsApplied

THEOREM InitInv == Init => IInv
<1> SUFFICES ASSUME Init PROVE IInv
  OBVIOUS
<1>1. TypeOK
  BY InitType
<1>2. \A id \in IDs : Status(id) = "none"
  BY DEF Init, Status, NoRequest
<1>3. \A s \in Sessions, k \in Keys : sessions[s].approved[k] = Never
  BY DEF Init, NoSession
<1>4. \A c \in Callers : callers[c].pc = "idle"
  BY DEF Init, IdleCaller
<1>5. \A o \in Operators : operators[o].pc = "idle"
  BY DEF Init, IdleOperator
<1>6. IDsInOrder /\ Linked /\ OwnEscalation /\ OnePendingPerCall /\ SignedAsDecided
  BY <1>2, <1>4 DEF IDsInOrder, Linked, OwnEscalation, OnePendingPerCall, SignedAsDecided
<1>7. OperatorsFollow
  BY <1>5 DEF OperatorsFollow, Following
<1>8. GrantsAnswered /\ DenialsApplied
  BY <1>3 DEF GrantsAnswered, DenialsApplied, Init
<1> QED BY <1>1, <1>6, <1>7, <1>8 DEF IInv

LEMMA CallInv ==
  ASSUME IInv, NEW c \in Callers, NEW s \in Sessions, NEW k \in Keys, NEW a \in ArgsOf(k),
         Call(c, s, k, a)
  PROVE  Rest'
<1>0. TypeOK
  BY DEF IInv
<1>1. \A id \in IDs : Status(id)' = Status(id)
  BY DEF Call, Status
<1>2. \A r \in Sessions : /\ sessions'[r].approved = sessions[r].approved
                          /\ sessions'[r].denied = sessions[r].denied
                          /\ sessions[r].live => sessions'[r].live
  BY <1>0 DEF Call, TypeOK
<1>3. \A d \in Callers : callers'[d] = callers[d] \/ callers'[d].pc \in {"idle", "passed", "request"}
  BY <1>0 DEF Call, TypeOK, IdleCaller
<1>4. IDsInOrder' /\ OwnEscalation' /\ OnePendingPerCall' /\ SignedAsDecided'
  BY DEF IInv, IDsInOrder, OwnEscalation, OnePendingPerCall, SignedAsDecided, Call, Status
<1>5. OperatorsFollow'
  BY DEF IInv, OperatorsFollow, Following, Call, Status
<1>6. Linked'
  BY <1>3 DEF IInv, Linked, Call, Status
<1>7. GrantsAnswered'
  BY <1>2 DEF IInv, GrantsAnswered, Call
<1>8. DenialsApplied'
  <2> SUFFICES ASSUME NEW id \in current PROVE Applied(id)'
    BY DEF DenialsApplied, Call
  <2>1. Applied(id) /\ id \in IDs
    BY <1>0 DEF IInv, DenialsApplied, TypeOK
  <2>2. requests[id].session \in Sessions
    BY <1>0, <2>1, RequestAt DEF Applied
  <2> QED BY <1>2, <2>1, <2>2 DEF Applied, Call, Status
<1> QED BY <1>4, <1>5, <1>6, <1>7, <1>8 DEF Rest

(* A step that changes the callers only.                                    *)
LEMMA CallersOnly ==
  ASSUME IInv, UNCHANGED <<sessions, requests, made, escalations, operators, answers, current>>,
         \A d \in Callers : \/ callers'[d] = callers[d]
                            \/ callers'[d].pc \in {"idle", "passed", "request"}
                            \/ callers'[d].pc = "enrich" /\ callers'[d].esc <= Len(escalations)
  PROVE  Rest'
<1>1. IDsInOrder' /\ OwnEscalation' /\ OnePendingPerCall' /\ SignedAsDecided'
  BY DEF IInv, IDsInOrder, OwnEscalation, OnePendingPerCall, SignedAsDecided, Status
<1>2. OperatorsFollow'
  BY DEF IInv, OperatorsFollow, Following, Status
<1>3. Linked'
  BY DEF IInv, Linked, Status
<1>4. GrantsAnswered' /\ DenialsApplied'
  BY DEF IInv, GrantsAnswered, DenialsApplied, Applied, Status
<1> QED BY <1>1, <1>2, <1>3, <1>4 DEF Rest

LEMMA ReturnInv == ASSUME IInv, NEW c \in Callers, Return(c) PROVE Rest'
BY CallersOnly DEF IInv, TypeOK, Return, IdleCaller

LEMMA LookUpInv == ASSUME IInv, NEW c \in Callers, LookUp(c) PROVE Rest'
<1>1. callers[c].id \in IDs /\ Status(callers[c].id) # "none"
  BY CallerAt DEF IInv, TypeOK, LookUp, Linked
<1>2. requests[callers[c].id].esc <= Len(escalations)
  BY <1>1 DEF IInv, Linked
<1> QED BY <1>2, CallersOnly DEF IInv, TypeOK, LookUp

LEMMA EnrichInv == ASSUME IInv, NEW c \in Callers, Enrich(c) PROVE Rest'
<1> DEFINE e == callers[c].esc
<1>0. TypeOK /\ e \in 1 .. Len(escalations) /\ Len(escalations) \in Nat
  BY CallerAt DEF IInv, TypeOK, Linked, Enrich
<1>1. /\ Len(escalations') = Len(escalations)
      /\ \A i \in 1 .. Len(escalations) : escalations'[i].decision = escalations[i].decision
  BY <1>0 DEF Enrich, TypeOK, EscalationType
<1>2. IDsInOrder' /\ OwnEscalation' /\ OnePendingPerCall' /\ GrantsAnswered' /\ DenialsApplied'
  BY DEF IInv, IDsInOrder, OwnEscalation, OnePendingPerCall, GrantsAnswered, DenialsApplied,
         Applied, Enrich, Status
<1>3. Linked'
  BY <1>0, <1>1 DEF IInv, Linked, Enrich, Status, IdleCaller, TypeOK
<1>4. \A id \in IDs : Status(id) # "none" /\ requests[id].esc # 0 =>
        requests[id].esc \in 1 .. Len(escalations)
  BY <1>0, RequestAt DEF IInv, Linked
<1>5. SignedAsDecided'
  BY <1>1, <1>4 DEF IInv, SignedAsDecided, Enrich, Status
<1>6. OperatorsFollow'
  <2> SUFFICES ASSUME NEW o \in Operators PROVE Following(o)'
    BY DEF OperatorsFollow
  <2>1. Following(o) /\ (operators[o].pc # "idle" => operators[o].id \in IDs)
    BY <1>0, OperatorAt DEF IInv, OperatorsFollow, TypeOK
  <2> QED BY <1>1, <1>4, <2>1 DEF Following, Enrich, Status
<1> QED BY <1>2, <1>3, <1>5, <1>6 DEF Rest

(* What a step that queues a request leaves of the other requests.          *)
LEMMA NewRequestInv ==
  ASSUME IInv, NEW c \in Callers, RequestApproval(c), NEW n \in FreshIDs,
         NEW s \in Sessions, NEW k \in Keys, Pending(s, k) = {},
         requests' = [requests EXCEPT ![n] = NewRequest(s, k)],
         made' = n,
         escalations' = IF HITL THEN Append(escalations, Escalation) ELSE escalations,
         current' = IF sessions[s].live THEN current \cup {n} ELSE current \ {n},
         \A d \in Callers :
           callers'[d] = callers[d] \/ callers'[d].pc = "idle"
             \/ (HITL /\ callers'[d].pc = "lookUp" /\ callers'[d].id = n)
  PROVE  Rest'
<1>0. TypeOK /\ n \in IDs /\ UNCHANGED <<sessions, operators, answers>>
      /\ Len(escalations) \in Nat
  BY DEF IInv, TypeOK, FreshIDs, RequestApproval
<1>1. /\ requests'[n] = NewRequest(s, k)
      /\ \A id \in IDs \ {n} : requests'[id] = requests[id]
  BY <1>0 DEF TypeOK
<1>2. /\ Status(n)' = "pending" /\ requests'[n].session = s /\ requests'[n].key = k
      /\ requests'[n].esc = IF HITL THEN Len(escalations) + 1 ELSE 0
      /\ requests'[n].signed = "none"
      /\ \A id \in IDs \ {n} : Status(id)' = Status(id)
  BY <1>1 DEF NewRequest, Status
<1>3. Status(n) \in {"none", "pending"}
  BY <1>0, AgeFacts DEF FreshIDs, InSlot, IInv, IDsInOrder, TypeOK
<1>4. n >= made /\ made \in Nat
  BY <1>0, AgeFacts DEF FreshIDs, InSlot, TypeOK
<1>5. /\ Len(escalations') = (IF HITL THEN Len(escalations) + 1 ELSE Len(escalations))
      /\ \A i \in 1 .. Len(escalations) : escalations'[i] = escalations[i]
      /\ HITL => escalations'[Len(escalations) + 1].decision = "none"
  BY <1>0 DEF TypeOK, Escalation
<1>6. \A id \in IDs : Status(id) # "none" =>
        requests[id].esc \in 0 .. Len(escalations)
  BY <1>0, RequestAt DEF IInv, Linked
<1>7. IDsInOrder'
  BY <1>0, <1>2, <1>4, AgeFacts DEF IInv, IDsInOrder
<1>8. Linked'
  <2>1. \A id \in IDs : Status(id)' # "none" =>
          requests'[id].esc <= Len(escalations') /\ (HITL => requests'[id].esc # 0)
    BY <1>0, <1>1, <1>2, <1>5, <1>6 DEF IInv, Linked
  <2>2. ASSUME NEW d \in Callers
        PROVE  (/\ callers[d].pc = "lookUp" => HITL /\ Status(callers[d].id) # "none"
                /\ callers[d].pc = "enrich" => callers[d].esc <= Len(escalations))'
    <3>1. CASE callers'[d] = callers[d]
      <4>1. callers[d].pc = "lookUp" => callers[d].id \in IDs
        BY <1>0, CallerAt DEF TypeOK
      <4>2. callers[d].pc = "enrich" => callers[d].esc \in Nat
        BY <1>0, CallerAt DEF TypeOK
      <4> QED BY <1>0, <1>2, <1>5, <3>1, <4>1, <4>2 DEF IInv, Linked
    <3>2. CASE callers'[d] # callers[d]
      BY <1>2, <3>2
    <3> QED BY <3>1, <3>2
  <2> QED BY <2>1, <2>2 DEF Linked
<1>9. OwnEscalation'
  BY <1>0, <1>1, <1>2, <1>6 DEF IInv, OwnEscalation
<1>10. \A o \in Operators : operators[o].pc # "idle" => operators[o].id \in IDs \ {n}
  <2> SUFFICES ASSUME NEW o \in Operators, operators[o].pc # "idle", operators[o].id = n PROVE FALSE
    BY <1>0, OperatorAt DEF TypeOK
  <2>1. Following(o) /\ operators[o].decision \in Decisions
        /\ operators[o].pc \in {"decide", "apply", "resolve", "attach"}
    BY <1>0, OperatorAt DEF IInv, OperatorsFollow, TypeOK
  <2>2. Status(n) = "pending"
    BY <1>3, <2>1 DEF Following
  <2>3. operators[o].pc = "decide"
    BY <2>1, <2>2 DEF Following, Decisions
  <2>4. n <= made
    BY <1>0, <2>2 DEF IInv, IDsInOrder
  <2>5. n # made + 1
    BY <1>4, <2>4
  <2>6. InSlot(n)
    BY <2>5 DEF FreshIDs
  <2> QED BY <2>3, <2>6 DEF InSlot
<1>11. OperatorsFollow'
  <2> SUFFICES ASSUME NEW o \in Operators PROVE Following(o)'
    BY DEF OperatorsFollow
  <2>1. Following(o)
    BY DEF IInv, OperatorsFollow
  <2> QED BY <1>0, <1>1, <1>2, <1>5, <1>6, <1>10, <2>1 DEF Following
<1>12. OnePendingPerCall'
  <2>1. \A j \in IDs \ {n} : ~ (/\ Status(j) = "pending"
                                /\ requests[j].session = s /\ requests[j].key = k)
    BY DEF Pending, SameCall
  <2> QED BY <1>0, <1>1, <1>2, <2>1 DEF IInv, OnePendingPerCall
<1>13. SignedAsDecided'
  BY <1>0, <1>1, <1>2, <1>5, <1>6 DEF IInv, SignedAsDecided
<1>14. GrantsAnswered'
  BY <1>0 DEF IInv, GrantsAnswered
<1>15. DenialsApplied'
  <2> SUFFICES ASSUME NEW id \in current' PROVE Applied(id)'
    BY DEF DenialsApplied
  <2>1. CASE id = n
    BY <1>0, <1>2, <2>1 DEF Applied
  <2>2. CASE id # n
    <3>1. id \in current /\ id \in IDs
      BY <1>0, <2>2 DEF TypeOK
    <3>2. Applied(id)
      BY <3>1 DEF IInv, DenialsApplied
    <3> QED BY <1>0, <1>1, <1>2, <2>2, <3>1, <3>2 DEF Applied
  <2> QED BY <2>1, <2>2
<1> QED BY <1>7, <1>8, <1>9, <1>11, <1>12, <1>13, <1>14, <1>15 DEF Rest

(* A step that changes the callers only, one of them to look up a request.  *)
LEMMA SharedRequestInv ==
  ASSUME IInv, UNCHANGED <<sessions, requests, made, escalations, operators, answers, current>>,
         NEW id \in IDs, Status(id) # "none",
         \A d \in Callers : \/ callers'[d] = callers[d] \/ callers'[d].pc = "idle"
                            \/ (HITL /\ callers'[d].pc = "lookUp" /\ callers'[d].id = id)
  PROVE  Rest'
<1>1. IDsInOrder' /\ OwnEscalation' /\ OnePendingPerCall' /\ SignedAsDecided'
  BY DEF IInv, IDsInOrder, OwnEscalation, OnePendingPerCall, SignedAsDecided, Status
<1>2. OperatorsFollow'
  BY DEF IInv, OperatorsFollow, Following, Status
<1>3. Linked'
  BY DEF IInv, Linked, Status
<1>4. GrantsAnswered' /\ DenialsApplied'
  BY DEF IInv, GrantsAnswered, DenialsApplied, Applied, Status
<1> QED BY <1>1, <1>2, <1>3, <1>4 DEF Rest

LEMMA RequestApprovalInv == ASSUME IInv, NEW c \in Callers, RequestApproval(c) PROVE Rest'
<1> DEFINE s == callers[c].session
           k == callers[c].key
           Waiting(id) == IF HITL THEN [pc |-> "lookUp", session |-> s, key |-> k,
                                        args |-> callers[c].args, id |-> id]
                          ELSE IdleCaller
<1>0. TypeOK /\ s \in Sessions /\ k \in Keys
  BY CallerAt DEF IInv, TypeOK, RequestApproval
<1>1. UNCHANGED <<sessions, operators, answers>>
  BY DEF RequestApproval
<1>2. ASSUME NEW id, callers' = [callers EXCEPT ![c] = Waiting(id)]
      PROVE  \A d \in Callers : callers'[d] = callers[d] \/ callers'[d].pc = "idle"
                \/ (HITL /\ callers'[d].pc = "lookUp" /\ callers'[d].id = id)
  <2>1. HITL => Waiting(id).pc = "lookUp" /\ Waiting(id).id = id
    OBVIOUS
  <2>2. ~HITL => Waiting(id).pc = "idle"
    BY DEF IdleCaller
  <2>3. PICK w : w = Waiting(id)
    OBVIOUS
  <2>4. callers' = [callers EXCEPT ![c] = w]
    BY <1>2, <2>3
  <2>0. callers \in [Callers -> CallerType]
    BY <1>0 DEF TypeOK
  <2>5. \A d \in Callers : callers'[d] = IF d = c THEN w ELSE callers[d]
    BY <2>0, <2>4
  <2> QED BY <2>1, <2>2, <2>3, <2>5
<1>3. \/ \E id \in Pending(s, k) :
           /\ callers' = [callers EXCEPT ![c] = Waiting(id)]
           /\ UNCHANGED <<requests, made, escalations, current>>
      \/ \E id \in FreshIDs :
           /\ Pending(s, k) = {}
           /\ requests' = [requests EXCEPT ![id] = NewRequest(s, k)]
           /\ made' = id
           /\ escalations' = IF HITL THEN Append(escalations, Escalation) ELSE escalations
           /\ current' = IF sessions[s].live THEN current \cup {id} ELSE current \ {id}
           /\ callers' = [callers EXCEPT ![c] = Waiting(id)]
  BY DEF RequestApproval
<1> HIDE DEF Waiting
<1>4. CASE \E id \in Pending(s, k) :
             /\ callers' = [callers EXCEPT ![c] = Waiting(id)]
             /\ UNCHANGED <<requests, made, escalations, current>>
  <2>1. PICK id \in Pending(s, k) :
          /\ callers' = [callers EXCEPT ![c] = Waiting(id)]
          /\ UNCHANGED <<requests, made, escalations, current>>
    BY <1>4
  <2>2. id \in IDs /\ Status(id) # "none"
    BY DEF Pending
  <2>3. \A d \in Callers : callers'[d] = callers[d] \/ callers'[d].pc = "idle"
            \/ (HITL /\ callers'[d].pc = "lookUp" /\ callers'[d].id = id)
    BY <1>2, <2>1
  <2> QED BY <1>1, <2>1, <2>2, <2>3, SharedRequestInv
<1>5. CASE \E id \in FreshIDs :
             /\ Pending(s, k) = {}
             /\ requests' = [requests EXCEPT ![id] = NewRequest(s, k)]
             /\ made' = id
             /\ escalations' = IF HITL THEN Append(escalations, Escalation) ELSE escalations
             /\ current' = IF sessions[s].live THEN current \cup {id} ELSE current \ {id}
             /\ callers' = [callers EXCEPT ![c] = Waiting(id)]
  <2>1. PICK id \in FreshIDs :
             /\ Pending(s, k) = {}
             /\ requests' = [requests EXCEPT ![id] = NewRequest(s, k)]
             /\ made' = id
             /\ escalations' = IF HITL THEN Append(escalations, Escalation) ELSE escalations
             /\ current' = IF sessions[s].live THEN current \cup {id} ELSE current \ {id}
             /\ callers' = [callers EXCEPT ![c] = Waiting(id)]
    BY <1>5
  <2> HIDE DEF s, k
  <2>2. \A d \in Callers : callers'[d] = callers[d] \/ callers'[d].pc = "idle"
            \/ (HITL /\ callers'[d].pc = "lookUp" /\ callers'[d].id = id)
    BY <1>2, <2>1
  <2> QED BY <1>0, <2>1, <2>2, NewRequestInv
<1> QED BY <1>3, <1>4, <1>5

-----------------------------------------------------------------------------
(* The steps of an operator *)

(* A step that changes neither the sessions nor the tables.                 *)
LEMMA OperatorOnly ==
  ASSUME IInv, UNCHANGED <<sessions, requests, made, escalations, callers, answers, current>>,
         NEW o \in Operators, OperatorsFollow',
         operators[o].pc # "apply",
         \A p \in Operators \ {o} : operators'[p] = operators[p]
  PROVE  Rest'
<1>1. IDsInOrder' /\ OwnEscalation' /\ OnePendingPerCall' /\ SignedAsDecided' /\ Linked'
  BY DEF IInv, IDsInOrder, OwnEscalation, OnePendingPerCall, SignedAsDecided, Linked, Status
<1>2. GrantsAnswered'
  BY DEF IInv, GrantsAnswered
<1>3. ASSUME NEW id, \A p \in Operators : operators'[p].pc = "apply" => operators'[p].id # id
      PROVE  \A p \in Operators : operators[p].pc = "apply" => operators[p].id # id
  BY <1>3
<1>4. DenialsApplied'
  BY <1>3 DEF IInv, DenialsApplied, Applied, Status
<1> QED BY <1>1, <1>2, <1>4 DEF Rest

LEMMA AnswerInv ==
  ASSUME IInv, NEW o \in Operators, NEW id \in IDs, NEW d \in Decisions, Answer(o, id, d)
  PROVE  Rest'
<1> DEFINE new == [pc |-> "decide", id |-> id, decision |-> d, esc |-> requests[id].esc]
<1>0. \A p \in Operators : operators'[p] = IF p = o THEN new ELSE operators[p]
  BY DEF IInv, TypeOK, Answer
<1>1. OperatorsFollow'
  <2> SUFFICES ASSUME NEW p \in Operators PROVE Following(p)'
    BY DEF OperatorsFollow
  <2>1. CASE p = o
    <3>1. operators'[o] = new
      BY <1>0
    <3>2. Status(id)' # "none" /\ requests' = requests
      BY DEF Answer, Status
    <3> QED BY <2>1, <3>1, <3>2 DEF Following
  <2>2. CASE p # o
    <3>1. operators'[p] = operators[p]
      BY <1>0, <2>2
    <3> QED BY <3>1 DEF IInv, OperatorsFollow, Following, Answer, Status
  <2> QED BY <2>1, <2>2
<1> HIDE DEF new
<1>2. operators[o].pc # "apply" /\ UNCHANGED <<sessions, requests, made, escalations, callers, answers, current>>
  BY DEF Answer
<1> QED BY <1>0, <1>1, <1>2, OperatorOnly

LEMMA DecideInv == ASSUME IInv, NEW o \in Operators, Decide(o) PROVE Rest'
<1>a. PICK id \in IDs, d \in Decisions : id = operators[o].id /\ d = operators[o].decision
  BY OperatorAt DEF IInv, TypeOK, Decide
<1> DEFINE Applying == [pc |-> "apply", id |-> id, decision |-> d, esc |-> operators[o].esc,
                        session |-> requests[id].session, key |-> requests[id].key]
<1>0. /\ TypeOK /\ operators[o].pc = "decide"
      /\ operators[o].esc = requests[id].esc /\ Following(o)
      /\ UNCHANGED <<sessions, made, escalations, callers, answers, current>>
  BY <1>a, OperatorAt DEF IInv, TypeOK, OperatorsFollow, Following, Decide
<1>1. CASE Status(id) # "pending"
  <2>1. /\ requests' = requests
        /\ \A p \in Operators : operators'[p] = IF p = o THEN IdleOperator ELSE operators[p]
    BY <1>a, <1>0, <1>1 DEF Decide, TypeOK
  <2>2. OperatorsFollow'
    BY <1>0, <2>1 DEF IInv, OperatorsFollow, Following, IdleOperator, Status
  <2> QED BY <1>0, <2>1, <2>2, OperatorOnly
<1>2. CASE Status(id) = "pending"
  <2>1. \A p \in Operators : operators'[p] = IF p = o THEN Applying ELSE operators[p]
    BY <1>a, <1>0, <1>2 DEF Decide, TypeOK
  <2>2. /\ requests'[id].status = d /\ requests'[id].by = "operator"
        /\ requests'[id].esc = requests[id].esc /\ requests'[id].signed = requests[id].signed
        /\ requests'[id].session = requests[id].session /\ requests'[id].key = requests[id].key
        /\ \A i \in IDs \ {id} : requests'[i] = requests[i]
    <3>1. requests[id] \in RequestType
      BY <1>0, <1>2, RequestAt
    <3>2. requests' = [requests EXCEPT ![id].status = d, ![id].by = "operator"]
      BY <1>a, <1>2 DEF Decide
    <3>3. requests'[id] = [requests[id] EXCEPT !.status = d, !.by = "operator"]
      BY <1>0, <3>2 DEF TypeOK
    <3>4. \A i \in IDs \ {id} : requests'[i] = requests[i]
      BY <1>0, <3>2 DEF TypeOK
    <3> QED BY <3>1, <3>3, <3>4 DEF RequestType
  <2>3. /\ Status(id)' = d /\ d # "none" /\ d # "pending"
        /\ \A i \in IDs \ {id} : Status(i)' = Status(i)
    BY <1>0, <2>2 DEF Status, Decisions
  <2>4. \A i \in IDs : /\ (Status(i)' # "none" <=> Status(i) # "none")
                       /\ requests'[i].esc = requests[i].esc
                       /\ requests'[i].signed = requests[i].signed
                       /\ requests'[i].session = requests[i].session
                       /\ requests'[i].key = requests[i].key
    BY <1>2, <2>2, <2>3
  <2>5. IDsInOrder' /\ OwnEscalation' /\ GrantsAnswered'
    BY <1>0, <2>4 DEF IInv, IDsInOrder, OwnEscalation, GrantsAnswered
  <2>6. Linked'
    <3>1. \A c \in Callers : callers[c].pc = "lookUp" => callers[c].id \in IDs
      BY <1>0, CallerAt DEF TypeOK
    <3> QED BY <1>0, <2>4, <3>1 DEF IInv, Linked
  <2>7. OnePendingPerCall'
    BY <2>3, <2>4 DEF IInv, OnePendingPerCall
  <2>8. /\ requests[id].esc # 0 => escalations[requests[id].esc].decision = "none"
        /\ requests[id].esc # 0 => requests[id].signed = "none"
    <3> SUFFICES ASSUME requests[id].esc # 0
                 PROVE  /\ escalations[requests[id].esc].decision = "none"
                        /\ requests[id].signed = "none"
      OBVIOUS
    <3>1. requests[id].esc \in 1 .. Len(escalations)
      <4>1. requests[id].esc \in Nat /\ requests[id].esc <= Len(escalations)
        BY <1>0, <1>2, RequestAt DEF IInv, Linked
      <4> QED BY <1>0, <4>1 DEF TypeOK
    <3>2. escalations[requests[id].esc].decision \in {"none"} \cup Decisions
      <4>1. escalations[requests[id].esc] \in EscalationType
        BY <1>0, <3>1 DEF TypeOK
      <4> QED BY <4>1 DEF EscalationType
    <3>3. escalations[requests[id].esc].decision = "none"
      BY <1>0, <1>2, <3>2 DEF IInv, SignedAsDecided, Decisions
    <3> QED BY <1>0, <1>2, <3>3 DEF IInv, SignedAsDecided
  <2>9. SignedAsDecided'
    BY <1>0, <2>2, <2>3, <2>4, <2>8 DEF IInv, SignedAsDecided
  <2>10. OperatorsFollow'
    <3> SUFFICES ASSUME NEW p \in Operators PROVE Following(p)'
      BY DEF OperatorsFollow
    <3>1. CASE p = o
      <4>1. operators'[p] = Applying
        BY <2>1, <3>1
      <4> QED BY <1>a, <1>0, <2>2, <2>3, <4>1 DEF Following
    <3>2. CASE p # o
      <4>1. operators'[p] = operators[p] /\ Following(p)
            /\ (operators[p].pc # "idle" => operators[p].id \in IDs /\ operators[p].decision \in Decisions)
        BY <1>0, <2>1, <3>2, OperatorAt DEF TypeOK, IInv, OperatorsFollow
      <4>2. operators[p].pc \in {"apply", "resolve", "attach"} => operators[p].id # id
        BY <1>2, <4>1 DEF Following, Decisions
      <4> QED BY <1>0, <2>2, <2>3, <2>4, <4>1, <4>2 DEF Following
    <3> QED BY <3>1, <3>2
  <2>11. DenialsApplied'
    <3> SUFFICES ASSUME NEW i \in current PROVE Applied(i)'
      BY <1>0 DEF DenialsApplied
    <3>1. i \in IDs /\ Applied(i)
      BY <1>0 DEF TypeOK, IInv, DenialsApplied
    <3>2. operators'[o].pc = "apply" /\ operators'[o].id = id
      BY <2>1
    <3>3. CASE i = id
      BY <1>0, <2>4, <3>1, <3>2, <3>3 DEF Applied
    <3>4. CASE i # id
      <4>1. \A p \in Operators : operators[p].pc = "apply" =>
              operators'[p].pc = "apply" /\ operators'[p].id = operators[p].id
        BY <1>0, <2>1
      <4>2. requests'[i] = requests[i] /\ Status(i)' = Status(i)
        BY <2>2, <2>3, <3>1, <3>4
      <4> QED BY <1>0, <3>1, <4>1, <4>2 DEF Applied
    <3> QED BY <3>3, <3>4
  <2> QED BY <2>5, <2>6, <2>7, <2>9, <2>10, <2>11 DEF Rest
<1> QED BY <1>1, <1>2

LEMMA ApplyInv == ASSUME IInv, NEW o \in Operators, Apply(o) PROVE Rest'
<1>a. PICK id \in IDs, d \in Decisions, s \in Sessions, k \in Keys :
        /\ id = operators[o].id /\ d = operators[o].decision
        /\ s = operators[o].session /\ k = operators[o].key
  BY OperatorAt DEF IInv, TypeOK, Apply
<1> DEFINE Resolving == [pc |-> "resolve", id |-> id, decision |-> d, esc |-> operators[o].esc]
<1>0. /\ TypeOK /\ operators[o].pc = "apply" /\ Following(o)
      /\ UNCHANGED <<requests, made, escalations, callers, current>>
  BY DEF IInv, OperatorsFollow, Apply
<1>1. /\ Status(id) = d /\ requests[id].by = "operator"
      /\ requests[id].session = s /\ requests[id].key = k
      /\ operators[o].esc = requests[id].esc
  BY <1>a, <1>0 DEF Following
<1>2. /\ operators'[o] = (IF operators[o].esc = 0 THEN IdleOperator ELSE Resolving)
      /\ \A p \in Operators \ {o} : operators'[p] = operators[p]
  BY <1>a, <1>0 DEF Apply, TypeOK
<1>3. IDsInOrder' /\ OwnEscalation' /\ OnePendingPerCall' /\ SignedAsDecided' /\ Linked'
  BY <1>0 DEF IInv, IDsInOrder, OwnEscalation, OnePendingPerCall, SignedAsDecided, Linked, Status
<1>4. OperatorsFollow'
  <2> SUFFICES ASSUME NEW p \in Operators PROVE Following(p)'
    BY DEF OperatorsFollow
  <2>1. CASE p = o
    <3>1. CASE operators[o].esc = 0
      BY <1>2, <2>1, <3>1 DEF Following, IdleOperator
    <3>2. CASE operators[o].esc # 0
      <4>1. operators'[p] = Resolving
        BY <1>2, <2>1, <3>2
      <4>2. Status(id)' = d /\ d # "none" /\ requests' = requests
        BY <1>0, <1>1 DEF Status, Decisions
      <4> QED BY <1>1, <4>1, <4>2 DEF Following
    <3> QED BY <3>1, <3>2
  <2>2. CASE p # o
    <3>1. operators'[p] = operators[p]
      BY <1>2, <2>2
    <3> QED BY <1>0, <3>1 DEF IInv, OperatorsFollow, Following, Status
  <2> QED BY <2>1, <2>2
<1>5. sessions' = IF ~sessions[s].live THEN sessions
                  ELSE IF d = "approved" THEN [sessions EXCEPT ![s].approved[k] = 0]
                  ELSE [sessions EXCEPT ![s].denied = @ \cup {k}]
  BY <1>a DEF Apply
<1>6. answers' = IF d = "approved" THEN [answers EXCEPT ![s][k] = 0] ELSE answers
  BY <1>a DEF Apply
<1>7. GrantsAnswered'
  <2> SUFFICES ASSUME NEW r \in Sessions, NEW j \in Keys, sessions'[r].approved[j] # Never
               PROVE  answers'[r][j] <= sessions'[r].approved[j]
    BY DEF GrantsAnswered
  <2>1. /\ \A i \in Sessions, h \in Keys : answers[i][h] \in Ages
        /\ sessions[r].approved[j] \in Ages
        /\ sessions[r].approved \in [Keys -> Ages]
    BY <1>0 DEF TypeOK
  <2>2. CASE d = "approved"
    <3>1. answers'[r][j] = IF r = s /\ j = k THEN 0 ELSE answers[r][j]
      BY <1>0, <1>6, <2>2 DEF TypeOK
    <3>2. sessions'[r].approved[j] = sessions[r].approved[j]
          \/ (r = s /\ j = k /\ sessions'[r].approved[j] = 0)
      BY <1>0, <1>5, <2>1, <2>2 DEF TypeOK
    <3> QED BY <2>1, <3>1, <3>2, AgeFacts DEF IInv, GrantsAnswered
  <2>3. CASE d # "approved"
    <3>1. answers' = answers /\ sessions'[r].approved = sessions[r].approved
      BY <1>0, <1>5, <1>6, <2>3 DEF TypeOK
    <3> QED BY <3>1 DEF IInv, GrantsAnswered
  <2> QED BY <2>2, <2>3
<1>8. DenialsApplied'
  <2> SUFFICES ASSUME NEW i \in current PROVE Applied(i)'
    BY <1>0 DEF DenialsApplied
  <2>1. i \in IDs /\ Applied(i)
    BY <1>0 DEF TypeOK, IInv, DenialsApplied
  <2>2. requests[i].session \in Sessions
    BY <1>0, <2>1, RequestAt DEF Applied
  <2>3. /\ sessions'[requests[i].session].live
        /\ sessions[requests[i].session].denied \subseteq sessions'[requests[i].session].denied
    BY <1>0, <1>5, <2>1, <2>2 DEF Applied, TypeOK
  <2>4. CASE i = id /\ d = "denied"
    <3>1. sessions'[s].denied = sessions[s].denied \cup {k}
      BY <1>0, <1>1, <1>5, <2>1, <2>4 DEF Applied, TypeOK
    <3> QED BY <1>0, <1>1, <2>1, <2>3, <2>4, <3>1 DEF Applied, Status
  <2>5. CASE ~(i = id /\ d = "denied")
    <3>1. Status(i) = "denied" => i # id
      BY <1>1, <2>5
    <3>2. ASSUME Status(i) = "denied",
                 \A p \in Operators : operators'[p].pc = "apply" => operators'[p].id # i
          PROVE  \A p \in Operators : operators[p].pc = "apply" => operators[p].id # i
      BY <1>a, <1>2, <3>1, <3>2
    <3> QED BY <1>0, <2>1, <2>3, <3>2 DEF Applied, Status
  <2> QED BY <2>4, <2>5
<1> QED BY <1>3, <1>4, <1>7, <1>8 DEF Rest

LEMMA ResolveInv == ASSUME IInv, NEW o \in Operators, Resolve(o) PROVE Rest'
<1>a. PICK id \in IDs, d \in Decisions, e \in 1 .. Len(escalations) :
        /\ id = operators[o].id /\ d = operators[o].decision /\ e = operators[o].esc
  BY ResolveAt DEF Resolve
<1> DEFINE final == IF escalations[e].decision # "none" THEN escalations[e].decision ELSE d
           Attaching == [pc |-> "attach", id |-> id, decision |-> final]
<1>0. /\ TypeOK /\ operators[o].pc = "resolve"
      /\ UNCHANGED <<sessions, requests, made, callers, answers, current>>
  BY DEF IInv, Resolve
<1>1. /\ Status(id) = d /\ requests[id].by = "operator" /\ requests[id].esc = e
      /\ escalations[e] \in EscalationType /\ d # "none" /\ e # 0
  BY <1>a, <1>0, ResolveAt DEF Decisions
<1>2. /\ operators'[o] = Attaching
      /\ \A p \in Operators \ {o} : operators'[p] = operators[p]
  BY <1>a, <1>0 DEF Resolve, TypeOK
<1>3. /\ Len(escalations') = Len(escalations)
      /\ escalations'[e].decision = final
      /\ \A i \in 1 .. Len(escalations) \ {e} : escalations'[i] = escalations[i]
  <2>1. CASE escalations[e].decision # "none"
    BY <1>a, <2>1 DEF Resolve
  <2>2. CASE escalations[e].decision = "none"
    <3>1. escalations' = [escalations EXCEPT ![e].decision = d, ![e].digest = escalations[e].payload]
      BY <1>a, <2>2 DEF Resolve
    <3>2. PICK x : x = [escalations[e] EXCEPT !.decision = d, !.digest = escalations[e].payload]
      OBVIOUS
    <3>5. escalations' = [escalations EXCEPT ![e] = x]
      BY <3>1, <3>2
    <3>6. escalations'[e] = x
      BY <1>0, <3>5 DEF TypeOK
    <3>3. escalations'[e].decision = d
      BY <1>1, <3>2, <3>6 DEF EscalationType
    <3>4. Len(escalations') = Len(escalations) /\ \A i \in 1 .. Len(escalations) \ {e} : escalations'[i] = escalations[i]
      BY <1>0, <3>1 DEF TypeOK
    <3> QED BY <2>2, <3>3, <3>4
  <2> QED BY <2>1, <2>2
<1>4. final = d
  BY <1>1 DEF IInv, SignedAsDecided
<1>5. \A i \in IDs : Status(i) # "none" /\ requests[i].esc # 0 => requests[i].esc \in 1 .. Len(escalations)
  BY <1>0, RequestAt DEF IInv, Linked, TypeOK
<1>6. \A i \in IDs \ {id} : Status(i) # "none" => requests[i].esc # e
  BY <1>1 DEF IInv, OwnEscalation
<1>7. IDsInOrder' /\ OwnEscalation' /\ OnePendingPerCall' /\ GrantsAnswered'
  BY <1>0 DEF IInv, IDsInOrder, OwnEscalation, OnePendingPerCall, GrantsAnswered, Status
<1>8. Linked'
  BY <1>0, <1>3 DEF IInv, Linked, Status
<1>9. SignedAsDecided'
  <2> SUFFICES ASSUME NEW i \in IDs, Status(i) # "none", requests[i].esc # 0
               PROVE  LET x == escalations'[requests[i].esc] IN
                      /\ x.decision # "none" => x.decision = Status(i) /\ requests[i].by = "operator"
                      /\ requests[i].signed # "none" => requests[i].signed = x.decision
    BY <1>0 DEF SignedAsDecided, Status
  <2>1. /\ escalations[requests[i].esc].decision # "none" =>
             escalations[requests[i].esc].decision = Status(i) /\ requests[i].by = "operator"
        /\ requests[i].signed # "none" => requests[i].signed = escalations[requests[i].esc].decision
    BY DEF IInv, SignedAsDecided
  <2>2. CASE i = id
    <3>1. requests[id].signed = "none" \/ requests[id].signed = d
      BY <1>1, <1>4, <2>1, <2>2
    <3> QED BY <1>1, <1>3, <1>4, <2>2, <3>1
  <2>3. CASE i # id
    BY <1>3, <1>5, <1>6, <2>1, <2>3
  <2> QED BY <2>2, <2>3
<1>10. OperatorsFollow'
  <2> SUFFICES ASSUME NEW p \in Operators PROVE Following(p)'
    BY DEF OperatorsFollow
  <2>1. CASE p = o
    <3>1. operators'[p] = Attaching /\ Status(id)' = d /\ requests' = requests
      BY <1>0, <1>1, <1>2, <2>1 DEF Status
    <3> QED BY <1>1, <1>3, <1>4, <3>1 DEF Following
  <2>2. CASE p # o
    <3>1. operators'[p] = operators[p] /\ requests' = requests /\ Following(p)
          /\ (operators[p].pc # "idle" => operators[p].id \in IDs)
      BY <1>0, <1>2, <2>2, OperatorAt DEF IInv, OperatorsFollow, TypeOK
    <3>2. CASE operators[p].pc # "attach"
      BY <3>1, <3>2 DEF Following, Status
    <3>3. CASE operators[p].pc = "attach"
      <4>1. PICK x \in IDs : x = operators[p].id
        BY <3>1, <3>3
      <4>2. /\ Status(x) = operators[p].decision /\ requests[x].by = "operator"
            /\ requests[x].esc # 0 /\ escalations[requests[x].esc].decision = operators[p].decision
            /\ Status(x) # "none"
        BY <3>1, <3>3, <4>1 DEF Following
      <4>3. escalations'[requests[x].esc].decision = operators[p].decision
        <5>1. CASE x = id
          BY <1>1, <1>3, <1>4, <4>2, <5>1
        <5>2. CASE x # id
          BY <1>3, <1>5, <1>6, <4>2, <5>2
        <5> QED BY <5>1, <5>2
      <4> QED BY <3>1, <3>3, <4>1, <4>2, <4>3 DEF Following, Status
    <3> QED BY <3>2, <3>3
  <2> QED BY <2>1, <2>2
<1>11. DenialsApplied'
  <2>1. ASSUME NEW i, \A p \in Operators : operators'[p].pc = "apply" => operators'[p].id # i
        PROVE  \A p \in Operators : operators[p].pc = "apply" => operators[p].id # i
    BY <1>0, <1>2, <2>1
  <2> QED BY <1>0, <2>1 DEF IInv, DenialsApplied, Applied, Status
<1> QED BY <1>7, <1>8, <1>9, <1>10, <1>11 DEF Rest

LEMMA AttachInv == ASSUME IInv, NEW o \in Operators, Attach(o) PROVE Rest'
<1>a. PICK id \in IDs, d \in Decisions : id = operators[o].id /\ d = operators[o].decision
  BY OperatorAt DEF IInv, TypeOK, Attach
<1>0. /\ TypeOK /\ operators[o].pc = "attach" /\ Following(o)
      /\ UNCHANGED <<sessions, made, escalations, callers, answers, current>>
  BY DEF IInv, OperatorsFollow, Attach
<1>1. /\ Status(id) = d /\ requests[id].esc # 0 /\ d # "none"
      /\ escalations[requests[id].esc].decision = d
  BY <1>a, <1>0 DEF Following, Decisions
<1>2. \A p \in Operators : operators'[p] = IF p = o THEN IdleOperator ELSE operators[p]
  BY <1>0 DEF Attach, TypeOK
<1>3. /\ requests'[id] = [requests[id] EXCEPT !.signed = d]
      /\ \A i \in IDs \ {id} : requests'[i] = requests[i]
  BY <1>a, <1>0 DEF Attach, TypeOK
<1>4. requests[id] \in RequestType
  BY <1>0, <1>1, RequestAt
<1>5. /\ requests'[id].signed = d
      /\ \A i \in IDs \ {id} : requests'[i].signed = requests[i].signed
      /\ \A i \in IDs : /\ Status(i)' = Status(i)
                        /\ requests'[i].esc = requests[i].esc
                        /\ requests'[i].by = requests[i].by
                        /\ requests'[i].session = requests[i].session
                        /\ requests'[i].key = requests[i].key
  BY <1>3, <1>4 DEF RequestType, Status
<1>6. IDsInOrder' /\ OwnEscalation' /\ OnePendingPerCall' /\ GrantsAnswered'
  BY <1>0, <1>5 DEF IInv, IDsInOrder, OwnEscalation, OnePendingPerCall, GrantsAnswered
<1>7. Linked'
  <2>1. \A c \in Callers : callers[c].pc = "lookUp" => callers[c].id \in IDs
    BY <1>0, CallerAt DEF TypeOK
  <2> QED BY <1>0, <1>5, <2>1 DEF IInv, Linked
<1>8. SignedAsDecided'
  BY <1>0, <1>1, <1>5 DEF IInv, SignedAsDecided
<1>9. OperatorsFollow'
  <2> SUFFICES ASSUME NEW p \in Operators PROVE Following(p)'
    BY DEF OperatorsFollow
  <2>1. CASE p = o
    BY <1>2, <2>1 DEF Following, IdleOperator
  <2>2. CASE p # o
    <3>1. operators'[p] = operators[p] /\ Following(p)
          /\ (operators[p].pc # "idle" => operators[p].id \in IDs)
          /\ operators[p].pc \in {"idle", "decide", "apply", "resolve", "attach"}
      BY <1>0, <1>2, <2>2, OperatorAt DEF IInv, OperatorsFollow, TypeOK
    <3> QED BY <1>0, <1>5, <3>1 DEF Following
  <2> QED BY <2>1, <2>2
<1>10. DenialsApplied'
  <2> SUFFICES ASSUME NEW i \in current PROVE Applied(i)'
    BY <1>0 DEF DenialsApplied
  <2>1. i \in IDs /\ Applied(i)
    BY <1>0 DEF TypeOK, IInv, DenialsApplied
  <2>2. ASSUME \A p \in Operators : operators'[p].pc = "apply" => operators'[p].id # i
        PROVE  \A p \in Operators : operators[p].pc = "apply" => operators[p].id # i
    BY <1>0, <1>2, <2>2
  <2> QED BY <1>0, <1>5, <2>1, <2>2 DEF Applied
<1> QED BY <1>6, <1>7, <1>8, <1>9, <1>10 DEF Rest

-----------------------------------------------------------------------------
(* Time, and the end of a session *)

(* A step that changes neither a status nor a session, except for ages.     *)
LEMMA CleanUpInv == ASSUME IInv, CleanUp PROVE Rest'
<1>0. TypeOK /\ UNCHANGED <<sessions, made, escalations, callers, operators, answers, current>>
  BY DEF IInv, CleanUp
<1>1. ASSUME NEW i \in IDs
      PROVE  /\ Status(i)' = (IF Overdue(i) THEN "denied" ELSE Status(i))
             /\ requests'[i].by = (IF Overdue(i) THEN "timeout" ELSE requests[i].by)
             /\ Status(i)' # "none" =>
                  /\ Status(i) # "none" /\ requests'[i].esc = requests[i].esc
                  /\ requests'[i].signed = requests[i].signed
                  /\ requests'[i].session = requests[i].session
                  /\ requests'[i].key = requests[i].key
             /\ Status(i) # "none" => Status(i)' # "none"
             /\ Overdue(i) => Status(i) = "pending"
  <2>1. CASE Overdue(i)
    <3>1. requests'[i] = [requests[i] EXCEPT !.status = "denied", !.by = "timeout"]
      BY <2>1 DEF CleanUp
    <3>2. requests[i] \in RequestType
      BY <1>0, <2>1, RequestAt DEF Overdue
    <3>3. Status(i) = "pending"
      BY <2>1 DEF Overdue
    <3> QED BY <2>1, <3>1, <3>2, <3>3 DEF RequestType, Status
  <2>2. CASE ~Overdue(i)
    <3>1. requests'[i] = requests[i]
      BY <2>2 DEF CleanUp
    <3> QED BY <2>2, <3>1 DEF Status
  <2> QED BY <2>1, <2>2
<1>2. IDsInOrder' /\ OwnEscalation' /\ GrantsAnswered'
  BY <1>0, <1>1 DEF IInv, IDsInOrder, OwnEscalation, GrantsAnswered
<1>3. OnePendingPerCall'
  <2>1. \A i \in IDs : Status(i)' = "pending" => Status(i) = "pending" /\ Status(i)' # "none"
    BY <1>1
  <2> QED BY <1>1, <2>1 DEF IInv, OnePendingPerCall
<1>4. Linked'
  <2>1. \A c \in Callers : callers[c].pc = "lookUp" => callers[c].id \in IDs
    BY <1>0, CallerAt DEF TypeOK
  <2> QED BY <1>0, <1>1, <2>1 DEF IInv, Linked
<1>5. ASSUME NEW i \in IDs, Overdue(i), requests[i].esc # 0
      PROVE  escalations[requests[i].esc].decision = "none" /\ requests[i].signed = "none"
  <2>1. Status(i) = "pending"
    BY <1>5 DEF Overdue
  <2>2. requests[i].esc \in 1 .. Len(escalations)
    BY <1>0, <1>5, <2>1, RequestAt DEF IInv, Linked, TypeOK
  <2>3. escalations[requests[i].esc] \in EscalationType
    BY <1>0, <2>2 DEF TypeOK
  <2> QED BY <1>5, <2>1, <2>3 DEF IInv, SignedAsDecided, EscalationType, Decisions
<1>6. SignedAsDecided'
  BY <1>0, <1>1, <1>5 DEF IInv, SignedAsDecided
<1>7. OperatorsFollow'
  <2> SUFFICES ASSUME NEW p \in Operators PROVE Following(p)'
    BY DEF OperatorsFollow
  <2>1. /\ Following(p)
        /\ operators[p].pc # "idle" => operators[p].id \in IDs /\ operators[p].decision \in Decisions
        /\ operators[p].pc \in {"idle", "decide", "apply", "resolve", "attach"}
    BY <1>0, OperatorAt DEF IInv, OperatorsFollow, TypeOK
  <2>2. operators[p].pc \in {"apply", "resolve", "attach"} => ~Overdue(operators[p].id)
    BY <2>1 DEF Following, Overdue, Decisions
  <2> QED BY <1>0, <1>1, <2>1, <2>2 DEF Following
<1>8. DenialsApplied'
  <2> SUFFICES ASSUME NEW i \in current PROVE Applied(i)'
    BY <1>0 DEF DenialsApplied
  <2>1. i \in IDs /\ Applied(i)
    BY <1>0 DEF TypeOK, IInv, DenialsApplied
  <2> QED BY <1>0, <1>1, <2>1 DEF Applied
<1> QED BY <1>2, <1>3, <1>4, <1>6, <1>7, <1>8 DEF Rest

LEMMA MinuteInv == ASSUME IInv, Minute PROVE Rest'
<1>0. TypeOK /\ UNCHANGED <<made, escalations, callers, operators, current>>
  BY DEF IInv, Minute
<1>1. ASSUME NEW i \in IDs
      PROVE  /\ Status(i)' = Status(i) /\ requests'[i].by = requests[i].by
             /\ Status(i) # "none" =>
                  /\ requests'[i].esc = requests[i].esc
                  /\ requests'[i].signed = requests[i].signed
                  /\ requests'[i].session = requests[i].session
                  /\ requests'[i].key = requests[i].key
  <2>1. CASE Status(i) = "pending"
    <3>1. requests'[i] = [requests[i] EXCEPT !.age = Older(@)]
      BY <2>1 DEF Minute
    <3>2. requests[i] \in RequestType
      BY <1>0, <2>1, RequestAt
    <3> QED BY <3>1, <3>2 DEF RequestType, Status
  <2>2. CASE Status(i) # "pending"
    <3>1. requests'[i] = requests[i]
      BY <2>2 DEF Minute
    <3> QED BY <3>1 DEF Status
  <2> QED BY <2>1, <2>2
<1>2. \A s \in Sessions : /\ sessions'[s].live = sessions[s].live
                          /\ sessions'[s].denied = sessions[s].denied
                          /\ sessions'[s].approved = [k \in Keys |-> OlderGrant(k, sessions[s].approved[k])]
  <2> SUFFICES ASSUME NEW s \in Sessions
               PROVE  /\ sessions'[s].live = sessions[s].live
                      /\ sessions'[s].denied = sessions[s].denied
                      /\ sessions'[s].approved = [k \in Keys |-> OlderGrant(k, sessions[s].approved[k])]
    OBVIOUS
  <2>1. PICK x : x = [k \in Keys |-> OlderGrant(k, sessions[s].approved[k])]
    OBVIOUS
  <2>2. sessions'[s] = [sessions[s] EXCEPT !.approved = x]
    BY <2>1 DEF Minute
  <2>3. sessions[s] \in SessionType
    BY <1>0 DEF TypeOK, SessionType
  <2> QED BY <2>1, <2>2, <2>3 DEF SessionType
<1>3. IDsInOrder' /\ OwnEscalation' /\ OnePendingPerCall'
  BY <1>0, <1>1 DEF IInv, IDsInOrder, OwnEscalation, OnePendingPerCall
<1>4. Linked'
  <2>1. \A c \in Callers : callers[c].pc = "lookUp" => callers[c].id \in IDs
    BY <1>0, CallerAt DEF TypeOK
  <2> QED BY <1>0, <1>1, <2>1 DEF IInv, Linked
<1>5. SignedAsDecided'
  BY <1>0, <1>1 DEF IInv, SignedAsDecided
<1>6. OperatorsFollow'
  <2> SUFFICES ASSUME NEW p \in Operators PROVE Following(p)'
    BY DEF OperatorsFollow
  <2>1. Following(p) /\ (operators[p].pc # "idle" => operators[p].id \in IDs)
        /\ operators[p].pc \in {"idle", "decide", "apply", "resolve", "attach"}
    BY <1>0, OperatorAt DEF IInv, OperatorsFollow, TypeOK
  <2> QED BY <1>0, <1>1, <2>1 DEF Following
<1>7. GrantsAnswered'
  <2> SUFFICES ASSUME NEW s \in Sessions, NEW k \in Keys, sessions'[s].approved[k] # Never
               PROVE  answers'[s][k] <= sessions'[s].approved[k]
    BY DEF GrantsAnswered
  <2>1. sessions[s].approved[k] \in Ages /\ answers[s][k] \in Ages
    BY <1>0 DEF TypeOK
  <2>2. sessions'[s].approved[k] = OlderGrant(k, sessions[s].approved[k])
    BY <1>2
  <2>3. answers'[s][k] = OlderGrant(k, answers[s][k])
    BY DEF Minute
  <2>4. answers[s][k] <= sessions[s].approved[k]
    BY <2>1, <2>2, OlderGrantFacts DEF IInv, GrantsAnswered
  <2> QED BY <2>1, <2>2, <2>3, <2>4, OlderGrantFacts
<1>8. DenialsApplied'
  <2> SUFFICES ASSUME NEW i \in current PROVE Applied(i)'
    BY <1>0 DEF DenialsApplied
  <2>1. i \in IDs /\ Applied(i)
    BY <1>0 DEF TypeOK, IInv, DenialsApplied
  <2>2. requests[i].session \in Sessions
    BY <1>0, <2>1, RequestAt DEF Applied
  <2> QED BY <1>0, <1>1, <1>2, <2>1, <2>2 DEF Applied
<1> QED BY <1>3, <1>4, <1>5, <1>6, <1>7, <1>8 DEF Rest

LEMMA DeleteSessionInv == ASSUME IInv, NEW s \in Sessions, DeleteSession(s) PROVE Rest'
<1>0. TypeOK /\ UNCHANGED <<requests, made, escalations, callers, operators, answers>>
  BY DEF IInv, DeleteSession
<1>1. /\ sessions'[s].approved = [k \in Keys |-> Never]
      /\ \A r \in Sessions \ {s} : sessions'[r] = sessions[r]
  BY <1>0 DEF DeleteSession, NoSession, TypeOK
<1>2. IDsInOrder' /\ OwnEscalation' /\ OnePendingPerCall' /\ SignedAsDecided' /\ Linked'
  BY <1>0 DEF IInv, IDsInOrder, OwnEscalation, OnePendingPerCall, SignedAsDecided, Linked, Status
<1>3. OperatorsFollow'
  BY <1>0 DEF IInv, OperatorsFollow, Following, Status
<1>4. GrantsAnswered'
  BY <1>0, <1>1 DEF IInv, GrantsAnswered
<1>5. DenialsApplied'
  <2> SUFFICES ASSUME NEW i \in current' PROVE Applied(i)'
    BY DEF DenialsApplied
  <2>1. i \in current /\ i \in IDs /\ requests[i].session # s /\ Applied(i)
    BY <1>0 DEF DeleteSession, TypeOK, IInv, DenialsApplied
  <2>2. requests[i].session \in Sessions
    BY <1>0, <2>1, RequestAt DEF Applied
  <2> QED BY <1>0, <1>1, <2>1, <2>2 DEF Applied, Status
<1> QED BY <1>2, <1>3, <1>4, <1>5 DEF Rest

-----------------------------------------------------------------------------
(* The theorems *)

LEMMA StepInv == ASSUME IInv, [Next]_vars PROVE IInv'
<1>0. TypeOK /\ Linked
  BY DEF IInv
<1>1. ASSUME NEW c \in Callers, Caller(c) PROVE IInv'
  <2>1. ASSUME NEW s \in Sessions, NEW k \in Keys, NEW a \in ArgsOf(k), Call(c, s, k, a) PROVE IInv'
    BY <1>0, <2>1, CallType, CallInv DEF IInv, Rest
  <2>2. CASE Return(c)
    BY <1>0, <2>2, ReturnType, ReturnInv DEF IInv, Rest
  <2>3. CASE RequestApproval(c)
    BY <1>0, <2>3, RequestApprovalType, RequestApprovalInv DEF IInv, Rest
  <2>4. CASE LookUp(c)
    BY <1>0, <2>4, LookUpType, LookUpInv DEF IInv, Rest
  <2>5. CASE Enrich(c)
    BY <1>0, <2>5, EnrichType, EnrichInv DEF IInv, Rest
  <2> QED BY <1>1, <2>1, <2>2, <2>3, <2>4, <2>5 DEF Caller
<1>2. ASSUME NEW o \in Operators, Operator(o) PROVE IInv'
  <2>1. ASSUME NEW id \in IDs, NEW d \in Decisions, Answer(o, id, d) PROVE IInv'
    BY <1>0, <2>1, AnswerType, AnswerInv DEF IInv, Rest
  <2>2. CASE Decide(o)
    BY <1>0, <2>2, DecideType, DecideInv DEF IInv, Rest
  <2>3. CASE Apply(o)
    BY <1>0, <2>3, ApplyType, ApplyInv DEF IInv, Rest
  <2>4. CASE Resolve(o)
    BY <2>4, ResolveType, ResolveInv DEF IInv, Rest
  <2>5. CASE Attach(o)
    BY <2>5, AttachType, AttachInv DEF IInv, Rest
  <2> QED BY <1>2, <2>1, <2>2, <2>3, <2>4, <2>5 DEF Operator, Finish
<1>3. CASE CleanUp
  BY <1>0, <1>3, CleanUpType, CleanUpInv DEF IInv, Rest
<1>4. CASE Minute
  BY <1>0, <1>4, MinuteType, MinuteInv DEF IInv, Rest
<1>5. ASSUME NEW s \in Sessions, DeleteSession(s) PROVE IInv'
  BY <1>0, <1>5, DeleteSessionType, DeleteSessionInv DEF IInv, Rest
<1>6. CASE UNCHANGED vars
  BY <1>6 DEF vars, IInv, TypeOK, IDsInOrder, Linked, OwnEscalation, OperatorsFollow, Following,
     OnePendingPerCall, SignedAsDecided, GrantsAnswered, DenialsApplied, Applied, Status
<1> QED BY <1>1, <1>2, <1>3, <1>4, <1>5, <1>6 DEF Next

THEOREM Invariance == Spec => []IInv
<1>1. Init => IInv
  BY InitInv
<1>2. IInv /\ [Next]_vars => IInv'
  BY StepInv
<1> QED BY <1>1, <1>2, PTL DEF Spec

(* The types of the tables and of the handlers' locals (main.go, the        *)
(* approval queue).                                                         *)
THEOREM TypeInvariant == Spec => []TypeOK
<1>1. IInv => TypeOK
  BY DEF IInv
<1> QED BY <1>1, Invariance, PTL

(* A call waits in the queue once: the scan of requestToolApproval under    *)
(* its lock is enough.                                                      *)
THEOREM OnePending == Spec => []OnePendingPerCall
<1>1. IInv => OnePendingPerCall
  BY DEF IInv
<1> QED BY <1>1, Invariance, PTL

(* What recordHITLDecision has signed is what approveToolRequest or         *)
(* denyToolRequest decided, for any number of operators.                    *)
THEOREM SignaturesFollow == Spec => []SignedAsDecided
<1>1. IInv => SignedAsDecided
  BY DEF IInv
<1> QED BY <1>1, Invariance, PTL

(* A call passes in its first critical section and nowhere else.            *)
LEMMA PassesByCall ==
  ASSUME IInv, [Next]_vars, NEW c \in Callers, Passes(c)
  PROVE  \E s \in Sessions, k \in Keys :
           /\ callers'[c].session = s /\ callers'[c].key = k
           /\ Granted(s, k) /\ ~Denied(s, k)
<1>0. callers \in [Callers -> CallerType]
  BY DEF IInv, TypeOK
<1>1. callers'[c] # callers[c] /\ callers'[c].pc = "passed" /\ callers[c].pc = "idle"
  BY DEF Passes
<1>2. PICK d \in Callers : Caller(d)
  <2>1. ASSUME NEW o \in Operators, Operator(o) PROVE callers' = callers
    BY <2>1 DEF Operator, Finish, Answer, Decide, Apply, Resolve, Attach
  <2>2. ASSUME NEW s \in Sessions, DeleteSession(s) PROVE callers' = callers
    BY <2>2 DEF DeleteSession
  <2>3. CleanUp \/ Minute \/ UNCHANGED vars => callers' = callers
    BY DEF CleanUp, Minute, vars
  <2> QED BY <1>1, <2>1, <2>2, <2>3 DEF Next
<1>3. PICK s \in Sessions, k \in Keys : \E a \in ArgsOf(k) : Call(d, s, k, a)
  <2>1. ~Return(d) /\ ~RequestApproval(d) /\ ~LookUp(d) /\ ~Enrich(d)
    <3>1. ASSUME Return(d) \/ Enrich(d) PROVE FALSE
      <4>1. callers' = [callers EXCEPT ![d] = IdleCaller]
        BY <3>1 DEF Return, Enrich
      <4> QED BY <1>0, <1>1, <4>1 DEF IdleCaller
    <3>2. ASSUME RequestApproval(d) \/ LookUp(d) PROVE FALSE
      <4>1. callers[d].pc \in {"request", "lookUp"}
        BY <3>2 DEF RequestApproval, LookUp
      <4>2. \A e \in Callers \ {d} : callers'[e] = callers[e]
        BY <1>0, <3>2 DEF RequestApproval, LookUp, Pending, FreshIDs
      <4> QED BY <1>1, <4>1, <4>2
    <3> QED BY <3>1, <3>2
  <2> QED BY <1>2, <2>1 DEF Caller
<1>4. PICK a \in ArgsOf(k) : Call(d, s, k, a)
  BY <1>3
<1>5. PICK w : w = IF Denied(s, k) THEN IdleCaller
                   ELSE [pc |-> IF Granted(s, k) THEN "passed" ELSE "request",
                         session |-> s, key |-> k, args |-> a]
  OBVIOUS
<1>6. callers' = [callers EXCEPT ![d] = w]
  BY <1>4, <1>5 DEF Call
<1>7. c = d /\ callers'[c] = w
  BY <1>0, <1>1, <1>6
<1>8. ~Denied(s, k)
  BY <1>1, <1>5, <1>7 DEF IdleCaller
<1>9. Granted(s, k) /\ w.session = s /\ w.key = k
  BY <1>1, <1>5, <1>7, <1>8
<1> QED BY <1>7, <1>8, <1>9

(* No high-risk call passes without a current approval of that very call:   *)
(* the double lock of approveToolRequest loses grants but never makes one.  *)
THEOREM PassesAreApproved == Spec => PassOnlyIfApproved
<1>1. ASSUME IInv, [Next]_vars, NEW c \in Callers, Passes(c)
      PROVE  LET age == answers[callers'[c].session][callers'[c].key] IN
             /\ age # Never
             /\ callers'[c].key \in Sensitive /\ GrantTTL > 0 => age < GrantTTL
  <2>1. PICK s \in Sessions, k \in Keys :
          /\ callers'[c].session = s /\ callers'[c].key = k
          /\ Granted(s, k) /\ ~Denied(s, k)
    BY <1>1, PassesByCall
  <2>2. sessions[s].approved[k] \in Ages /\ answers[s][k] \in Ages
    BY <1>1 DEF IInv, TypeOK
  <2>3. sessions[s].approved[k] # Never /\ answers[s][k] <= sessions[s].approved[k]
    BY <1>1, <2>1 DEF Granted, IInv, GrantsAnswered
  <2>4. k \in Sensitive /\ GrantTTL > 0 => ~(sessions[s].approved[k] >= GrantTTL)
    BY <2>1 DEF Granted, Expired
  <2> QED BY <2>1, <2>2, <2>3, <2>4, AgeFacts
<1>2. IInv /\ [Next]_vars =>
        [\A c \in Callers : Passes(c) =>
           LET age == answers[callers'[c].session][callers'[c].key] IN
           /\ age # Never
           /\ callers'[c].key \in Sensitive /\ GrantTTL > 0 => age < GrantTTL]_vars
  BY <1>1
<1> QED BY <1>2, Invariance, PTL DEF Spec, PassOnlyIfApproved

(* Once denyToolRequest has returned, the denial outlives every later       *)
(* approval of the same call in that session.                               *)
THEOREM DenialsHold == Spec => DenialHolds
<1>1. ASSUME IInv, [Next]_vars, NEW c \in Callers, Passes(c), NEW id \in current,
             SameCall(id, callers'[c].session, callers'[c].key),
             Status(id) = "denied", requests[id].by = "operator",
             \A o \in Operators : operators[o].pc = "apply" => operators[o].id # id
      PROVE  FALSE
  <2>1. PICK s \in Sessions, k \in Keys :
          /\ callers'[c].session = s /\ callers'[c].key = k
          /\ Granted(s, k) /\ ~Denied(s, k)
    BY <1>1, PassesByCall
  <2>2. requests[id].session = s /\ requests[id].key = k /\ Applied(id)
    BY <1>1, <2>1 DEF SameCall, IInv, DenialsApplied
  <2>3. k \in sessions[s].denied
    BY <1>1, <2>2 DEF Applied
  <2> QED BY <2>1, <2>3 DEF Denied
<1>2. IInv /\ [Next]_vars =>
        [\A c \in Callers : Passes(c) =>
           ~ \E id \in current :
               /\ SameCall(id, callers'[c].session, callers'[c].key)
               /\ Status(id) = "denied" /\ requests[id].by = "operator"
               /\ \A o \in Operators : operators[o].pc = "apply" => operators[o].id # id]_vars
  BY <1>1
<1> QED BY <1>2, Invariance, PTL DEF Spec, DenialHolds

-----------------------------------------------------------------------------
(* What a signature is of *)

(* The digest of a resolved escalation is that of the payload it has.       *)
DigestFits ==
  \A e \in DOMAIN escalations : escalations[e].decision # "none" =>
    escalations[e].digest = escalations[e].payload

SignedStays ==
  \A e \in DOMAIN escalations : escalations[e].decision # "none" =>
    /\ escalations'[e].payload = escalations[e].payload
    /\ escalations'[e].digest = escalations[e].payload

LEMMA EnrichSigned ==
  ASSUME IInv, DigestFits, NEW c \in Callers, Enrich(c) PROVE DigestFits' /\ SignedStays
<1> DEFINE n == callers[c].esc
           new == [escalations[n] EXCEPT !.payload = callers[c].args]
<1>1. escalations \in Seq(EscalationType)
  BY DEF IInv, TypeOK
<1>2. CASE escalations' = escalations
  BY <1>2 DEF DigestFits, SignedStays
<1>3. CASE escalations[n].decision = "none" /\ escalations' = [escalations EXCEPT ![n] = new]
  <2>1. n \in DOMAIN escalations => new.decision = "none"
    BY <1>1, <1>3 DEF EscalationType
  <2> HIDE DEF new
  <2> QED BY <1>1, <1>3, <2>1 DEF DigestFits, SignedStays
<1> QED BY <1>1, <1>2, <1>3 DEF Enrich

LEMMA ResolveSigned ==
  ASSUME IInv, DigestFits, NEW o \in Operators, Resolve(o) PROVE DigestFits' /\ SignedStays
<1> DEFINE n == operators[o].esc
           new == [escalations[n] EXCEPT !.decision = operators[o].decision,
                                         !.digest = escalations[n].payload]
<1>1. /\ escalations \in Seq(EscalationType) /\ n \in 1 .. Len(escalations)
      /\ escalations[n] \in EscalationType
  BY ResolveAt DEF IInv, TypeOK, Resolve
<1>2. CASE escalations' = escalations
  BY <1>2 DEF DigestFits, SignedStays
<1>3. CASE escalations[n].decision = "none" /\ escalations' = [escalations EXCEPT ![n] = new]
  <2>1. new.digest = new.payload
    BY <1>1 DEF EscalationType
  <2> HIDE DEF new
  <2> QED BY <1>1, <1>3, <2>1 DEF DigestFits, SignedStays
<1> QED BY <1>1, <1>2, <1>3 DEF Resolve

LEMMA RequestSigned ==
  ASSUME IInv, DigestFits, NEW c \in Callers, RequestApproval(c) PROVE DigestFits' /\ SignedStays
<1>1. escalations \in Seq(EscalationType) /\ Len(escalations) \in Nat
  BY DEF IInv, TypeOK
<1>2. escalations' = escalations \/ escalations' = Append(escalations, Escalation)
  BY DEF RequestApproval
<1>3. CASE escalations' = escalations
  BY <1>3 DEF DigestFits, SignedStays
<1>4. CASE escalations' = Append(escalations, Escalation)
  <2>1. /\ DOMAIN escalations' = 1 .. Len(escalations) + 1
        /\ \A e \in 1 .. Len(escalations) : escalations'[e] = escalations[e]
        /\ escalations'[Len(escalations) + 1] = Escalation
    BY <1>1, <1>4
  <2>2. Escalation.decision = "none"
    BY DEF Escalation
  <2>3. DOMAIN escalations = 1 .. Len(escalations)
    BY <1>1
  <2>4. ASSUME NEW e \in DOMAIN escalations', escalations'[e].decision # "none"
        PROVE  escalations'[e].digest = escalations'[e].payload
    <3>1. e \in 1 .. Len(escalations)
      BY <1>1, <2>1, <2>2, <2>4
    <3> QED BY <2>1, <2>3, <2>4, <3>1 DEF DigestFits
  <2> QED BY <2>1, <2>3, <2>4 DEF DigestFits, SignedStays
<1> QED BY <1>2, <1>3, <1>4

LEMMA StepSigned ==
  ASSUME IInv, DigestFits, [Next]_vars PROVE DigestFits' /\ SignedStays
<1>1. CASE escalations' = escalations
  BY <1>1 DEF DigestFits, SignedStays
<1>2. CASE escalations' # escalations
  <2>1. ASSUME NEW c \in Callers, Caller(c) PROVE Enrich(c) \/ RequestApproval(c)
    BY <1>2, <2>1 DEF Caller, Call, Return, LookUp
  <2>2. ASSUME NEW o \in Operators, Operator(o) PROVE Resolve(o)
    BY <1>2, <2>2 DEF Operator, Finish, Answer, Decide, Apply, Attach
  <2>3. \/ \E c \in Callers : Caller(c)
        \/ \E o \in Operators : Operator(o)
    BY <1>2 DEF Next, CleanUp, Minute, DeleteSession, vars
  <2> QED BY <2>1, <2>2, <2>3, EnrichSigned, RequestSigned, ResolveSigned
<1> QED BY <1>1, <1>2

(* What an operator has signed stays as it was signed: enrichment           *)
(* (hitlEnrichEscalation) that comes after the signature changes nothing,   *)
(* whichever calls share the escalation.                                    *)
THEOREM SignedPayloadStays == Spec => SignedPayloadFixed
<1>1. Init => DigestFits
  BY DEF Init, DigestFits
<1>2. IInv /\ DigestFits /\ [Next]_vars => DigestFits'
  BY StepSigned
<1>3. IInv /\ DigestFits /\ [Next]_vars =>
        [\A e \in DOMAIN escalations : escalations[e].decision # "none" =>
           /\ escalations'[e].payload = escalations[e].payload
           /\ escalations'[e].digest = escalations[e].payload]_vars
  BY StepSigned DEF SignedStays
<1> QED BY <1>1, <1>2, <1>3, Invariance, PTL DEF Spec, SignedPayloadFixed
-----------------------------------------------------------------------------
(* The book of decisions *)

(* Who has decided is known of no request that is not decided.              *)
Undecided == \A id \in IDs : Status(id) \in {"none", "pending"} => requests[id].by = "none"

(* What a step leaves of a request and of its seal.                         *)
StatusStays(id) == Status(id)' = Status(id) /\ requests'[id].by = requests[id].by
SealStays(id) == SealOf(id)' = SealOf(id)

LEMMA BookTurns ==
  ASSUME NEW id \in IDs
  PROVE  /\ Verdict[id] = [status |-> Status(id), by |-> requests[id].by]
         /\ Verdict'[id] = [status |-> Status(id)', by |-> requests'[id].by]
BY DEF Verdict

LEMMA BookStutters ==
  ASSUME \A id \in IDs : StatusStays(id) /\ SealStays(id)
  PROVE  UNCHANGED Book!bookVars
<1>1. Verdict' = Verdict
  BY DEF Verdict, StatusStays
<1>2. [id \in IDs |-> SealOf(id)]' = [id \in IDs |-> SealOf(id)]
  BY DEF SealStays
<1> QED BY <1>1, <1>2 DEF Book!bookVars

(* Seals change only where an escalation is resolved: elsewhere every       *)
(* request keeps the escalation it has, and every escalation that is        *)
(* resolved stays as it is.                                                 *)
LEMMA SealKept ==
  ASSUME IInv, NEW id \in IDs, Status(id) # "none" <=> Status(id)' # "none",
         Status(id) # "none" => requests'[id].esc = requests[id].esc,
         \A e \in 1 .. Len(escalations) :
           \/ escalations'[e] = escalations[e]
           \/ escalations[e].decision = "none" /\ escalations'[e].decision = "none"
  PROVE  SealStays(id)
<1>1. CASE Status(id) = "none" \/ requests[id].esc = 0
  BY <1>1 DEF SealStays, SealOf, Unsigned
<1>2. CASE Status(id) # "none" /\ requests[id].esc # 0
  <2>1. requests[id].esc \in 1 .. Len(escalations)
    BY <1>2, RequestAt DEF IInv, Linked, TypeOK
  <2> QED BY <1>2, <2>1 DEF SealStays, SealOf, Unsigned
<1> QED BY <1>1, <1>2

(* Steps that touch neither the requests' status nor the escalations.       *)
LEMMA OthersStutter ==
  ASSUME IInv, Undecided, \A id \in IDs : StatusStays(id),
         \A id \in IDs : Status(id) # "none" => requests'[id].esc = requests[id].esc,
         \A e \in 1 .. Len(escalations) :
           \/ escalations'[e] = escalations[e]
           \/ escalations[e].decision = "none" /\ escalations'[e].decision = "none"
  PROVE  Undecided' /\ UNCHANGED Book!bookVars
<1>1. \A id \in IDs : SealStays(id)
  BY SealKept DEF StatusStays
<1>2. Undecided'
  BY DEF Undecided, StatusStays
<1> QED BY <1>1, <1>2, BookStutters

LEMMA BookRequests ==
  ASSUME IInv, Undecided, NEW c \in Callers, RequestApproval(c)
  PROVE  Undecided' /\ [Book!BookNext]_(Book!bookVars)
<1> DEFINE s == callers[c].session
           k == callers[c].key
<1>0. TypeOK /\ Len(escalations) \in Nat /\ DOMAIN requests = IDs
  BY DEF IInv, TypeOK
<1>1. CASE UNCHANGED <<requests, escalations>>
  BY <1>1, OthersStutter DEF StatusStays, Status
<1>2. ASSUME NEW n \in FreshIDs,
             requests' = [requests EXCEPT ![n] = NewRequest(s, k)], made' = n,
             escalations' = IF HITL THEN Append(escalations, Escalation) ELSE escalations
      PROVE  Undecided' /\ [Book!BookNext]_(Book!bookVars)
  <2>1. /\ n \in IDs /\ requests'[n] = NewRequest(s, k)
        /\ \A id \in IDs : id # n => requests'[id] = requests[id]
    BY <1>0, <1>2 DEF FreshIDs
  <2>2. /\ Status(n)' = "pending" /\ requests'[n].by = "none"
        /\ requests'[n].esc = IF HITL THEN Len(escalations) + 1 ELSE 0
    BY <2>1 DEF NewRequest, Status
  <2>3. /\ \A e \in 1 .. Len(escalations) : escalations'[e] = escalations[e]
        /\ HITL => escalations'[Len(escalations) + 1].decision = "none"
    BY <1>0, <1>2 DEF TypeOK, Escalation
  <2>4. \A id \in IDs : id # n => StatusStays(id) /\ SealStays(id)
    <3> SUFFICES ASSUME NEW id \in IDs, id # n PROVE StatusStays(id) /\ SealStays(id)
      OBVIOUS
    <3>1. StatusStays(id) /\ requests'[id].esc = requests[id].esc
      BY <2>1 DEF StatusStays, Status
    <3> QED BY <2>3, <3>1, SealKept DEF StatusStays
  <2>5. Status(n) \in {"none", "pending"}
    BY <1>0, AgeFacts DEF FreshIDs, InSlot, IInv, IDsInOrder, TypeOK
  <2>6. SealOf(n) = Unsigned
    <3> SUFFICES ASSUME Status(n) # "none", requests[n].esc # 0
                 PROVE  escalations[requests[n].esc].decision = "none"
      BY DEF SealOf
    <3> QED BY <2>1, <2>5 DEF IInv, SignedAsDecided, Undecided
  <2>7. SealOf(n)' = Unsigned
    BY <2>2, <2>3 DEF SealOf, Unsigned
  <2>8. Undecided'
    BY <2>1, <2>2, <2>4 DEF Undecided, StatusStays
  <2>9. \A id \in IDs : SealStays(id)
    BY <2>4, <2>6, <2>7 DEF SealStays
  <2>10. CASE Status(n) = "pending"
    <3>1. StatusStays(n)
      BY <2>1, <2>2, <2>10 DEF StatusStays, Undecided
    <3> QED BY <2>4, <2>8, <2>9, <3>1, BookStutters
  <2>11. CASE Status(n) = "none"
    <3>1. Verdict[n] = Book!Unasked
      BY <2>1, <2>11, BookTurns DEF Undecided, Book!Unasked
    <3>2. Verdict' = [Verdict EXCEPT ![n] = Book!Asked]
      <4>1. \A id \in IDs : id # n =>
              [status |-> Status(id)', by |-> requests'[id].by]
                = [status |-> Status(id), by |-> requests[id].by]
        BY <2>4 DEF StatusStays
      <4>2. [status |-> Status(n)', by |-> requests'[n].by] = Book!Asked
        BY <2>2 DEF Book!Asked
      <4> QED BY <2>1, <4>1, <4>2 DEF Verdict
    <3>3. [id \in IDs |-> SealOf(id)]' = [id \in IDs |-> SealOf(id)]
      BY <2>9 DEF SealStays
    <3>4. Book!Ask(n)
      BY <3>1, <3>2, <3>3 DEF Book!Ask
    <3> QED BY <2>1, <2>8, <3>4 DEF Book!BookNext
  <2> QED BY <2>5, <2>10, <2>11
<1> QED BY <1>1, <1>2 DEF RequestApproval

LEMMA BookEnriches ==
  ASSUME IInv, Undecided, NEW c \in Callers, Enrich(c)
  PROVE  Undecided' /\ UNCHANGED Book!bookVars
<1> DEFINE n == callers[c].esc
           new == [escalations[n] EXCEPT !.payload = callers[c].args]
<1>1. escalations \in Seq(EscalationType)
  BY DEF IInv, TypeOK
<1>2. UNCHANGED requests
  BY DEF Enrich
<1>3. \A e \in 1 .. Len(escalations) :
        \/ escalations'[e] = escalations[e]
        \/ escalations[e].decision = "none" /\ escalations'[e].decision = "none"
  <2>1. CASE escalations' = escalations
    BY <2>1
  <2>2. CASE escalations[n].decision = "none" /\ escalations' = [escalations EXCEPT ![n] = new]
    <3>1. n \in DOMAIN escalations => new.decision = "none"
      BY <1>1, <2>2 DEF EscalationType
    <3> HIDE DEF new
    <3> QED BY <1>1, <2>2, <3>1
  <2> QED BY <2>1, <2>2 DEF Enrich
<1> QED BY <1>2, <1>3, OthersStutter DEF StatusStays, Status

LEMMA BookDecides ==
  ASSUME IInv, Undecided, NEW o \in Operators, Decide(o)
  PROVE  Undecided' /\ [Book!BookNext]_(Book!bookVars)
<1>0. TypeOK /\ DOMAIN requests = IDs /\ UNCHANGED escalations
  BY DEF IInv, TypeOK, Decide
<1>1. PICK n \in IDs, d \in Decisions : n = operators[o].id /\ d = operators[o].decision
  BY <1>0, OperatorAt DEF Decide, TypeOK
<1>2. CASE UNCHANGED requests
  BY <1>0, <1>2, OthersStutter DEF StatusStays, Status
<1>3. CASE Status(n) = "pending"
           /\ requests' = [requests EXCEPT ![n].status = d, ![n].by = "operator"]
  <2>1. requests[n] \in RequestType
    BY <1>0, <1>1, <1>3, RequestAt
  <2>2. /\ requests'[n] = [requests[n] EXCEPT !.status = d, !.by = "operator"]
        /\ \A id \in IDs : id # n => requests'[id] = requests[id]
    BY <1>0, <1>1, <1>3
  <2>3. Status(n)' = d /\ requests'[n].by = "operator" /\ requests'[n].esc = requests[n].esc
    BY <2>1, <2>2 DEF Status, RequestType
  <2>4. d # "none" /\ d # "pending"
    BY <1>1 DEF Decisions
  <2>5. \A id \in IDs : id # n => StatusStays(id)
    BY <2>2 DEF StatusStays, Status
  <2>6. \A id \in IDs : SealStays(id)
    <3> SUFFICES ASSUME NEW id \in IDs PROVE SealStays(id)
      OBVIOUS
    <3>1. (Status(id) # "none" <=> Status(id)' # "none") /\ requests'[id].esc = requests[id].esc
      BY <1>3, <2>2, <2>3, <2>4 DEF Status
    <3> QED BY <1>0, <3>1, SealKept
  <2>7. Undecided'
    BY <2>3, <2>4, <2>5 DEF Undecided, StatusStays
  <2>8. Verdict[n] = Book!Asked
    BY <1>1, <1>3, BookTurns DEF Undecided, Book!Asked
  <2>9. Verdict' = [Verdict EXCEPT ![n] = [status |-> d, by |-> "operator"]]
    <3>1. \A id \in IDs : id # n =>
            [status |-> Status(id)', by |-> requests'[id].by]
              = [status |-> Status(id), by |-> requests[id].by]
      BY <2>5 DEF StatusStays
    <3>2. [status |-> Status(n)', by |-> requests'[n].by] = [status |-> d, by |-> "operator"]
      BY <2>3
    <3> QED BY <1>1, <3>1, <3>2 DEF Verdict
  <2>10. [id \in IDs |-> SealOf(id)]' = [id \in IDs |-> SealOf(id)]
    BY <2>6 DEF SealStays
  <2>11. Book!Rule(n, d)
    BY <2>8, <2>9, <2>10 DEF Book!Rule
  <2>12. d = "approved" \/ d = "denied"
    BY <1>1 DEF Decisions
  <2> QED BY <1>1, <2>7, <2>11, <2>12 DEF Book!BookNext
<1> QED BY <1>1, <1>2, <1>3 DEF Decide

LEMMA BookCleansUp ==
  ASSUME IInv, Undecided, CleanUp
  PROVE  Undecided' /\ [Book!BookNext]_(Book!bookVars)
<1> DEFINE late == {id \in IDs : Overdue(id)}
           Gone == [status |-> "denied", by |-> "timeout"]
<1>0. TypeOK /\ UNCHANGED escalations
  BY DEF IInv, CleanUp
<1>1. \A id \in IDs : requests'[id] =
        IF id \in late THEN [requests[id] EXCEPT !.status = "denied", !.by = "timeout"]
        ELSE requests[id]
  BY DEF CleanUp
<1>2. ASSUME NEW id \in late
      PROVE  /\ Status(id) = "pending" /\ Status(id)' = "denied" /\ requests'[id].by = "timeout"
             /\ requests'[id].esc = requests[id].esc
  <2>1. Status(id) = "pending" /\ id \in IDs
    BY DEF Overdue
  <2>2. requests[id] \in RequestType
    BY <1>0, <2>1, RequestAt
  <2>3. requests'[id] = [requests[id] EXCEPT !.status = "denied", !.by = "timeout"]
    BY <1>1
  <2> HIDE DEF late
  <2> QED BY <2>1, <2>2, <2>3 DEF Status, RequestType
<1>3. \A id \in IDs : id \notin late => StatusStays(id) /\ requests'[id].esc = requests[id].esc
  BY <1>1 DEF StatusStays, Status
<1> HIDE DEF late
<1>4. \A id \in IDs : SealStays(id)
  <2> SUFFICES ASSUME NEW id \in IDs PROVE SealStays(id)
    OBVIOUS
  <2>1. (Status(id) # "none" <=> Status(id)' # "none") /\ requests'[id].esc = requests[id].esc
    BY <1>2, <1>3 DEF StatusStays
  <2> QED BY <1>0, <2>1, SealKept
<1>5. Undecided'
  BY <1>2, <1>3 DEF Undecided, StatusStays
<1>6. late \in SUBSET IDs
  BY DEF late
<1>7. \A id \in late : Verdict[id] = Book!Asked
  BY <1>2, <1>6, BookTurns DEF Undecided, Book!Asked
<1>8. Verdict' = [id \in IDs |-> IF id \in late THEN Gone ELSE Verdict[id]]
  <2>1. ASSUME NEW id \in IDs
        PROVE  [status |-> Status(id)', by |-> requests'[id].by]
                 = IF id \in late THEN Gone ELSE Verdict[id]
    BY <1>2, <1>3, BookTurns DEF StatusStays
  <2>2. Verdict' = [id \in IDs |-> [status |-> Status(id)', by |-> requests'[id].by]]
    BY DEF Verdict
  <2> HIDE DEF Gone
  <2> QED BY <2>1, <2>2
<1>9. [id \in IDs |-> SealOf(id)]' = [id \in IDs |-> SealOf(id)]
  BY <1>4 DEF SealStays
<1>10. Book!TimeOut(late)
  BY <1>7, <1>8, <1>9 DEF Book!TimeOut
<1> QED BY <1>5, <1>6, <1>10 DEF Book!BookNext

LEMMA SamePage ==
  ASSUME NEW r \in EscalationType, NEW q \in EscalationType,
         r.payload = q.payload, r.decision = q.decision, r.digest = q.digest
  PROVE  r = q
BY DEF EscalationType

LEMMA BookResolves ==
  ASSUME IInv, Undecided, NEW o \in Operators, Resolve(o)
  PROVE  Undecided' /\ [Book!BookNext]_(Book!bookVars)
<1>0. PICK n \in IDs, d \in Decisions, e \in 1 .. Len(escalations), p \in Payloads :
        /\ n = operators[o].id /\ d = operators[o].decision /\ e = operators[o].esc
        /\ p = escalations[e].payload
  BY ResolveAt DEF Resolve, EscalationType
<1> DEFINE new == [escalations[e] EXCEPT !.decision = d, !.digest = p]
           page == [payload |-> p, decision |-> d, digest |-> p]
<1>1. /\ Status(n) = d /\ requests[n].by = "operator"
      /\ e = requests[n].esc /\ escalations[e] \in EscalationType
      /\ UNCHANGED requests
  BY <1>0, ResolveAt DEF Resolve
<1>2. CASE UNCHANGED escalations
  BY <1>1, <1>2, OthersStutter DEF StatusStays, Status
<1>3. CASE escalations[e].decision = "none" /\ escalations' = [escalations EXCEPT ![e] = new]
  <2>1. escalations \in Seq(EscalationType)
    BY DEF IInv, TypeOK
  <2>2. new = page /\ d # "none" /\ e # 0
    <3>1. new \in EscalationType /\ page \in EscalationType
      BY <1>0, <1>1 DEF EscalationType
    <3>2. /\ new.payload = page.payload /\ new.decision = page.decision
          /\ new.digest = page.digest
      BY <1>0, <1>1 DEF EscalationType
    <3>3. d # "none" /\ e # 0
      BY <1>0 DEF Decisions
    <3> HIDE DEF new, page
    <3> QED BY <3>1, <3>2, <3>3, SamePage
  <2> HIDE DEF new
  <2>3. escalations'[e] = page
        /\ \A i \in 1 .. Len(escalations) : i # e => escalations'[i] = escalations[i]
    BY <1>1, <1>3, <2>1, <2>2
  <2>4. \A id \in IDs : StatusStays(id) /\ Status(id)' = Status(id)
    BY <1>1 DEF StatusStays, Status
  <2>5. \A id \in IDs : id # n => SealStays(id)
    <3> SUFFICES ASSUME NEW id \in IDs, id # n PROVE SealStays(id)
      OBVIOUS
    <3>1. CASE Status(id) = "none" \/ requests[id].esc = 0
      BY <1>1, <2>4, <3>1 DEF SealStays, SealOf, Unsigned
    <3>2. CASE Status(id) # "none" /\ requests[id].esc # 0
      <4>1. requests[id].esc \in 1 .. Len(escalations)
        BY <3>2, RequestAt DEF IInv, Linked, TypeOK
      <4>2. requests[id].esc # e
        BY <1>1, <2>2, <3>2 DEF IInv, OwnEscalation, Decisions
      <4> QED BY <1>1, <2>3, <2>4, <3>2, <4>1, <4>2 DEF SealStays, SealOf, Unsigned
    <3> QED BY <3>1, <3>2
  <2>6. SealOf(n) = Unsigned
    BY <1>1, <1>3, <2>2 DEF SealOf
  <2>7. SealOf(n)' = page
    BY <1>1, <2>2, <2>3, <2>4 DEF SealOf
  <2>8. Verdict' = Verdict
    BY <2>4 DEF Verdict, StatusStays
  <2>9. Verdict[n].by = "operator" /\ Verdict[n].status = d
    <3>1. Verdict[n] = [status |-> d, by |-> "operator"]
      BY <1>0, <1>1, BookTurns
    <3> QED BY <3>1
  <2>10. [id \in IDs |-> SealOf(id)]' = [[id \in IDs |-> SealOf(id)] EXCEPT ![n] = page]
    <3> HIDE DEF page
    <3> QED BY <1>1, <2>5, <2>7 DEF SealStays
  <2>11. Book!Unsigned = Unsigned
    BY DEF Book!Unsigned, Unsigned
  <2>12. Book!Sign(n, p)
    <3>1. [id \in IDs |-> SealOf(id)][n] = Book!Unsigned
      BY <1>1, <2>6, <2>11
    <3> QED BY <2>8, <2>9, <2>10, <3>1 DEF Book!Sign
  <2>13. Undecided'
    BY <2>4 DEF Undecided, StatusStays
  <2> QED BY <1>1, <2>2, <2>12, <2>13 DEF Book!BookNext
<1> QED BY <1>0, <1>2, <1>3 DEF Resolve

LEMMA BookStep ==
  ASSUME IInv, Undecided, [Next]_vars
  PROVE  Undecided' /\ [Book!BookNext]_(Book!bookVars)
<1>1. CASE UNCHANGED <<requests, escalations>>
  BY <1>1, OthersStutter DEF StatusStays, Status
<1>2. ASSUME NEW o \in Operators, Attach(o) PROVE Undecided' /\ UNCHANGED Book!bookVars
  <2>1. UNCHANGED escalations /\ operators[o].id \in IDs
        /\ requests' = [requests EXCEPT ![operators[o].id].signed = operators[o].decision]
    BY <1>2, OperatorAt DEF Attach, IInv, TypeOK
  <2>2. Status(operators[o].id) # "none"
    BY <1>2 DEF IInv, OperatorsFollow, Following, Attach
  <2>3. requests[operators[o].id] \in RequestType
    BY <2>1, <2>2, RequestAt DEF IInv
  <2>4. \A id \in IDs : StatusStays(id) /\ requests'[id].esc = requests[id].esc
    BY <2>1, <2>3 DEF IInv, TypeOK, StatusStays, Status, RequestType
  <2> QED BY <2>1, <2>4, OthersStutter
<1>3. CASE Minute
  <2>1. UNCHANGED escalations
    BY <1>3 DEF Minute
  <2>2. ASSUME NEW id \in IDs
        PROVE  StatusStays(id) /\ (Status(id) # "none" => requests'[id].esc = requests[id].esc)
    <3>1. CASE Status(id) = "pending"
      <4>1. requests[id] \in RequestType
        BY <3>1, RequestAt DEF IInv
      <4>2. requests'[id] = [requests[id] EXCEPT !.age = Older(@)]
        BY <1>3, <3>1 DEF Minute
      <4> QED BY <4>1, <4>2 DEF StatusStays, Status, RequestType
    <3>2. CASE Status(id) # "pending"
      <4>1. requests'[id] = requests[id]
        BY <1>3, <3>2 DEF Minute
      <4> QED BY <4>1 DEF StatusStays, Status
    <3> QED BY <3>1, <3>2
  <2> QED BY <2>1, <2>2, OthersStutter
<1>4. ASSUME NEW c \in Callers, Caller(c)
      PROVE  Undecided' /\ [Book!BookNext]_(Book!bookVars)
  <2>1. \/ RequestApproval(c) \/ Enrich(c) \/ UNCHANGED <<requests, escalations>>
    BY <1>4 DEF Caller, Call, Return, LookUp
  <2> QED BY <1>1, <2>1, BookRequests, BookEnriches
<1>5. ASSUME NEW o \in Operators, Operator(o)
      PROVE  Undecided' /\ [Book!BookNext]_(Book!bookVars)
  <2>1. Decide(o) \/ Resolve(o) \/ Attach(o) \/ UNCHANGED <<requests, escalations>>
    BY <1>5 DEF Operator, Finish, Answer, Apply
  <2> QED BY <1>1, <1>2, <2>1, BookDecides, BookResolves
<1>6. ASSUME NEW s \in Sessions, DeleteSession(s) PROVE UNCHANGED <<requests, escalations>>
  BY <1>6 DEF DeleteSession
<1>7. CASE UNCHANGED vars
  BY <1>1, <1>7 DEF vars
<1> QED BY <1>1, <1>3, <1>4, <1>5, <1>6, <1>7, BookCleansUp DEF Next

LEMMA BookStarts == Init => Undecided /\ Book!BookInit
<1> SUFFICES ASSUME Init PROVE Undecided /\ Book!BookInit
  OBVIOUS
<1>1. \A id \in IDs : Status(id) = "none" /\ requests[id].by = "none"
  BY DEF Init, NoRequest, Status
<1>2. Verdict = [id \in IDs |-> Book!Unasked]
  BY <1>1 DEF Verdict, Book!Unasked
<1>3. [id \in IDs |-> SealOf(id)] = [id \in IDs |-> Book!Unsigned]
  BY <1>1 DEF SealOf, Unsigned, Book!Unsigned
<1> QED BY <1>1, <1>2, <1>3 DEF Undecided, Book!BookInit

(* The approval queue and the escalation matrix implement the book of       *)
(* decisions: every request gets at most one verdict, from an operator or   *)
(* from the timeout, every operator's verdict at most one signature, and    *)
(* neither it nor the payload it covers ever changes, for any number of     *)
(* agents, operators and requests and also when two requests share an id.   *)
THEOREM Refinement == Spec => ImplementsBook
<1>1. IInv /\ Undecided /\ [Next]_vars => Undecided' /\ [Book!BookNext]_(Book!bookVars)
  BY BookStep
<1> QED BY <1>1, BookStarts, Invariance, PTL DEF Spec, ImplementsBook, Book!BookSpec
=============================================================================
