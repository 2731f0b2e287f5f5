---------------------------- MODULE SkillsProofs ----------------------------
(* Proofs about Skills: its types, that the quarantine holds whatever loads, *)
(* runs, requests and administrators do meanwhile, and that a search finds  *)
(* what there is unless documents are still embedded or one failed, for any *)
(* number of skills, documents, loads and requests.                         *)
EXTENDS Skills, FiniteSetTheorems, TLAPS

(* A run that stores an embedding has the skill or the document it is of.   *)
ItemFits ==
  \A n \in Loads : /\ threads[n].pc = "putName" => threads[n].item \in SkillIDs
                   /\ threads[n].pc = "putDoc" => threads[n].item \in Docs

(* What a request has not seen in quarantine since it began, it does not    *)
(* see there now: what clean leaves out was quarantined all the time.       *)
SeenClean ==
  \A r \in Requests :
    requests[r].pc # "idle" => SkillIDs \ quarantined \subseteq requests[r].clean

IInv == TypeOK /\ ItemFits /\ SeenClean /\ QuarantineHolds

-----------------------------------------------------------------------------
(* Steps of the threads and of the requests, each seen as one record that   *)
(* takes the place of another *)

LEMMA NoThreadType == NoThread \in Thread /\ NoThread.pc = "idle"
BY SkillsAssumption DEF NoThread, Thread

LEMMA NoRequestType ==
  /\ NoRequest \in Request /\ NoRequest.pc = "idle"
  /\ NoRequest.applied = {} /\ NoRequest.clean = {}
BY DEF NoRequest, Request

LEMMA ThreadStep ==
  ASSUME IInv, NEW n \in Loads, NEW new \in Thread, threads' = [threads EXCEPT ![n] = new],
         new.pc = "putName" => new.item \in SkillIDs,
         new.pc = "putDoc" => new.item \in Docs
  PROVE  threads' \in [Loads -> Thread] /\ ItemFits'
BY DEF IInv, TypeOK, ItemFits

(* The steps of a thread but for the fields of others that it changes.      *)
LEMMA GoStep ==
  ASSUME IInv, NEW n \in Loads, NEW pc, Go(n, pc),
         pc \in {"audit", "done", "start", "gather", "trigger", "embed", "finish", "clear"}
  PROVE  threads' \in [Loads -> Thread] /\ ItemFits'
<1> DEFINE new == [threads[n] EXCEPT !.pc = pc]
<1>1. threads[n] \in Thread
  BY DEF IInv, TypeOK
<1>2. new \in Thread /\ new.pc = pc
  BY <1>1 DEF Thread
<1>3. threads' = [threads EXCEPT ![n] = new]
  BY DEF Go, IInv, TypeOK
<1> HIDE DEF new
<1> QED BY <1>2, <1>3, ThreadStep

LEMMA LeaveStep ==
  ASSUME IInv, NEW n \in Loads, NEW pc, Leave(n, pc), pc \in {"trigger", "done", "sleep"}
  PROVE  threads' \in [Loads -> Thread] /\ ItemFits'
<1> DEFINE new == [NoThread EXCEPT !.pc = pc]
<1>1. new \in Thread /\ new.pc = pc
  BY NoThreadType DEF Thread
<1>2. threads' = [threads EXCEPT ![n] = new]
  BY DEF Leave
<1> HIDE DEF new
<1> QED BY <1>1, <1>2, ThreadStep

LEMMA OthersStay ==
  ASSUME IInv, UNCHANGED <<quarantined, requests>>
  PROVE  SeenClean' /\ QuarantineHolds' /\ requests' \in [Requests -> Request]
BY DEF IInv, TypeOK, SeenClean, QuarantineHolds

LEMMA RequestMoves ==
  ASSUME IInv, NEW r \in Requests, NEW new \in Request, RequestStep(r, new),
         new.pc # "idle" => SkillIDs \ quarantined \subseteq new.clean,
         new.applied \subseteq new.clean
  PROVE  IInv'
<1>1. requests' = [requests EXCEPT ![r] = new] /\ requests \in [Requests -> Request]
  BY DEF RequestStep, IInv, TypeOK
<1>2. requests' \in [Requests -> Request] /\ quarantined' = quarantined
  BY <1>1 DEF RequestStep
<1>3. TypeOK' /\ ItemFits'
  BY <1>2 DEF RequestStep, IInv, TypeOK, ItemFits
<1>4. SeenClean' /\ QuarantineHolds'
  BY <1>1, <1>2 DEF IInv, SeenClean, QuarantineHolds
<1> QED BY <1>3, <1>4 DEF IInv

(* A request keeps what it has seen clean, and goes on or takes in a skill  *)
(* that is not quarantined.                                                 *)
LEMMA RequestGoesOn ==
  ASSUME IInv, NEW r \in Requests, requests[r].pc # "idle",
         NEW new \in Request, RequestStep(r, new), new.clean = requests[r].clean,
         \/ new.applied = requests[r].applied
         \/ \E s \in SkillIDs \ quarantined : new.applied = requests[r].applied \cup {s}
  PROVE  IInv'
<1>1. SkillIDs \ quarantined \subseteq new.clean
  BY DEF IInv, SeenClean
<1>2. requests[r].applied \subseteq new.clean
  BY DEF IInv, QuarantineHolds
<1>3. new.applied \subseteq new.clean
  BY <1>1, <1>2
<1> QED BY <1>1, <1>3, RequestMoves

-----------------------------------------------------------------------------
(* The actions of the threads *)

LEMMA ChangeStep == IInv /\ Change => IInv'
BY DEF Change, IInv, TypeOK, ItemFits, SeenClean, QuarantineHolds

LEMMA LoadStep == ASSUME IInv, NEW n \in Loads, NEW p \in Policies, Load(n, p) PROVE IInv'
<1> DEFINE new == [NoThread EXCEPT !.pc = "swap", !.policy = p]
<1>1. new \in Thread /\ new.pc = "swap"
  BY NoThreadType DEF Thread
<1>2. threads' = [threads EXCEPT ![n] = new]
  BY DEF Load
<1> HIDE DEF new
<1>3. threads' \in [Loads -> Thread] /\ ItemFits'
  BY <1>1, <1>2, ThreadStep
<1>4. SeenClean' /\ QuarantineHolds' /\ requests' \in [Requests -> Request]
  BY OthersStay DEF Load
<1> QED BY <1>3, <1>4 DEF Load, IInv, TypeOK

LEMMA SwapStep == ASSUME IInv, NEW n \in Loads, Swap(n) PROVE IInv'
<1>1. threads' \in [Loads -> Thread] /\ ItemFits'
  BY GoStep DEF Swap
<1>2. SeenClean' /\ QuarantineHolds' /\ requests' \in [Requests -> Request]
  BY OthersStay DEF Swap
<1>3. threads[n].policy.rag \in BOOLEAN /\ threads[n].policy.auto \in BOOLEAN
  BY SkillsAssumption DEF IInv, TypeOK, Thread
<1>4. rag' \in [on : BOOLEAN, auto : BOOLEAN]
  BY <1>3 DEF Swap
<1> QED BY <1>1, <1>2, <1>4 DEF Swap, IInv, TypeOK

LEMMA AuditStep == ASSUME IInv, NEW n \in Loads, Audit(n) PROVE IInv'
<1>1. threads' \in [Loads -> Thread] /\ ItemFits'
  BY LeaveStep DEF Audit
<1>2. quarantined' \subseteq SkillIDs
  BY SkillsAssumption DEF Audit, IInv, TypeOK, Thread
<1>3. ASSUME NEW r \in Requests
      PROVE  /\ requests'[r] \in Request /\ requests'[r].applied = requests[r].applied
             /\ requests'[r].clean = requests[r].clean \cup (SkillIDs \ quarantined')
  <2> DEFINE c == requests[r].clean \cup (SkillIDs \ quarantined')
  <2>1. requests[r] \in Request
    BY DEF IInv, TypeOK
  <2>2. requests'[r] = [requests[r] EXCEPT !.clean = c]
    BY DEF Audit
  <2>3. c \in SUBSET SkillIDs
    BY <2>1 DEF Request
  <2> QED BY <2>1, <2>2, <2>3 DEF Request
<1>4. requests' \in [Requests -> Request]
  <2>1. requests' = [r \in Requests |-> requests'[r]]
    BY DEF Audit
  <2> QED BY <1>3, <2>1
<1>5. SeenClean'
  BY <1>3 DEF SeenClean
<1>6. QuarantineHolds'
  BY <1>3 DEF IInv, QuarantineHolds
<1> QED BY <1>1, <1>2, <1>4, <1>5, <1>6 DEF Audit, IInv, TypeOK

(* The steps of a thread that change nothing but its record, the flag, the  *)
(* lock, the count and what is embedded.                                    *)
LEMMA RunStep ==
  ASSUME IInv, threads' \in [Loads -> Thread], ItemFits',
         UNCHANGED <<ollama, rag, quarantined, active, requests>>,
         named' \subseteq SkillIDs, embedded' \subseteq Docs, embeddedDocCount' \in Nat,
         embeddingInProgress' \in BOOLEAN, failed' \in BOOLEAN, writer' \in Loads \cup {Nobody}
  PROVE  IInv'
<1>1. SeenClean' /\ QuarantineHolds' /\ requests' \in [Requests -> Request]
  BY OthersStay
<1> QED BY <1>1 DEF IInv, TypeOK

LEMMA TriggerStep == ASSUME IInv, NEW n \in Loads, Trigger(n) \/ Start(n) \/ Poll(n) PROVE IInv'
<1>1. threads' \in [Loads -> Thread] /\ ItemFits'
  BY GoStep DEF Trigger, Start, Poll
<1> QED BY <1>1, RunStep DEF Trigger, Start, Poll, IInv, TypeOK

LEMMA LockStep == ASSUME IInv, NEW n \in Loads, Lock(n) PROVE IInv'
<1>1. threads' \in [Loads -> Thread] /\ ItemFits'
  BY DEF Lock, IInv, TypeOK, ItemFits
<1> QED BY <1>1, RunStep DEF Lock, IInv, TypeOK

LEMMA GatherStep == ASSUME IInv, NEW n \in Loads, Gather(n) PROVE IInv'
<1> DEFINE new == [threads[n] EXCEPT !.pc = "name", !.names = SkillIDs, !.docs = Docs]
<1>1. threads[n] \in Thread /\ threads' = [threads EXCEPT ![n] = new]
  BY DEF Gather, IInv, TypeOK
<1>2. new \in Thread /\ new.pc = "name"
  BY <1>1 DEF Thread
<1> HIDE DEF new
<1>3. threads' \in [Loads -> Thread] /\ ItemFits'
  BY <1>1, <1>2, ThreadStep
<1> QED BY <1>3, RunStep DEF Gather, IInv, TypeOK

LEMMA EmbedNameStep == ASSUME IInv, NEW n \in Loads, EmbedName(n) PROVE IInv'
<1>1. threads[n] \in Thread
  BY DEF IInv, TypeOK
<1>2. threads' \in [Loads -> Thread] /\ ItemFits'
  <2>1. CASE threads[n].names = {}
    BY <2>1, GoStep DEF EmbedName
  <2>2. CASE threads[n].names # {}
    <3>1. PICK s \in threads[n].names :
            \/ threads' = [threads EXCEPT ![n].pc = "putName", ![n].item = s, ![n].names = @ \ {s}]
            \/ Go(n, "clear")
            \/ threads' = [threads EXCEPT ![n].names = @ \ {s}]
      BY <2>2 DEF EmbedName
    <3>2. s \in SkillIDs /\ threads[n].names \ {s} \in SUBSET SkillIDs
      BY <1>1, <3>1 DEF Thread
    <3>3. CASE threads' = [threads EXCEPT ![n].pc = "putName", ![n].item = s, ![n].names = @ \ {s}]
      <4> DEFINE new == [threads[n] EXCEPT !.pc = "putName", !.item = s, !.names = @ \ {s}]
      <4>1. new \in Thread /\ new.pc = "putName" /\ new.item = s
        BY <1>1, <3>2 DEF Thread
      <4>2. threads' = [threads EXCEPT ![n] = new]
        BY <3>3 DEF IInv, TypeOK
      <4> HIDE DEF new
      <4> QED BY <3>2, <4>1, <4>2, ThreadStep
    <3>4. CASE Go(n, "clear")
      BY <3>4, GoStep
    <3>5. CASE threads' = [threads EXCEPT ![n].names = @ \ {s}]
      <4> DEFINE new == [threads[n] EXCEPT !.names = @ \ {s}]
      <4>1. new \in Thread /\ new.pc = threads[n].pc /\ new.item = threads[n].item
        BY <1>1, <3>2 DEF Thread
      <4>2. threads' = [threads EXCEPT ![n] = new]
        BY <3>5 DEF IInv, TypeOK
      <4> HIDE DEF new
      <4> QED BY <4>1, <4>2, ThreadStep DEF IInv, ItemFits
    <3> QED BY <3>1, <3>3, <3>4, <3>5
  <2> QED BY <2>1, <2>2
<1> QED BY <1>2, RunStep DEF EmbedName, IInv, TypeOK

LEMMA EmbedDocStep == ASSUME IInv, NEW n \in Loads, EmbedDoc(n) PROVE IInv'
<1>1. threads[n] \in Thread
  BY DEF IInv, TypeOK
<1>2. threads' \in [Loads -> Thread] /\ ItemFits'
  <2>1. CASE threads[n].docs = {}
    BY <2>1, GoStep DEF EmbedDoc
  <2>2. CASE threads[n].docs # {}
    <3>1. PICK d \in threads[n].docs :
            \/ threads' = [threads EXCEPT ![n].pc = "putDoc", ![n].item = d, ![n].docs = @ \ {d}]
            \/ Go(n, "clear")
            \/ threads' = [threads EXCEPT ![n].docs = @ \ {d}]
      BY <2>2 DEF EmbedDoc
    <3>2. d \in Docs /\ threads[n].docs \ {d} \in SUBSET Docs
      BY <1>1, <3>1 DEF Thread
    <3>3. CASE threads' = [threads EXCEPT ![n].pc = "putDoc", ![n].item = d, ![n].docs = @ \ {d}]
      <4> DEFINE new == [threads[n] EXCEPT !.pc = "putDoc", !.item = d, !.docs = @ \ {d}]
      <4>1. new \in Thread /\ new.pc = "putDoc" /\ new.item = d
        BY <1>1, <3>2 DEF Thread
      <4>2. threads' = [threads EXCEPT ![n] = new]
        BY <3>3 DEF IInv, TypeOK
      <4> HIDE DEF new
      <4> QED BY <3>2, <4>1, <4>2, ThreadStep
    <3>4. CASE Go(n, "clear")
      BY <3>4, GoStep
    <3>5. CASE threads' = [threads EXCEPT ![n].docs = @ \ {d}]
      <4> DEFINE new == [threads[n] EXCEPT !.docs = @ \ {d}]
      <4>1. new \in Thread /\ new.pc = threads[n].pc /\ new.item = threads[n].item
        BY <1>1, <3>2 DEF Thread
      <4>2. threads' = [threads EXCEPT ![n] = new]
        BY <3>5 DEF IInv, TypeOK
      <4> HIDE DEF new
      <4> QED BY <4>1, <4>2, ThreadStep DEF IInv, ItemFits
    <3> QED BY <3>1, <3>3, <3>4, <3>5
  <2> QED BY <2>1, <2>2
<1>3. failed' \in BOOLEAN
  BY DEF EmbedDoc, IInv, TypeOK
<1> QED BY <1>2, <1>3, RunStep DEF EmbedDoc, IInv, TypeOK

LEMMA PutStep == ASSUME IInv, NEW n \in Loads, PutName(n) \/ PutDoc(n) PROVE IInv'
<1>1. PICK pc \in {"name", "embed"} : threads' = [threads EXCEPT ![n].pc = pc, ![n].item = None]
  BY DEF PutName, PutDoc
<1> DEFINE new == [threads[n] EXCEPT !.pc = pc, !.item = None]
<1>2. threads[n] \in Thread /\ threads' = [threads EXCEPT ![n] = new]
  BY <1>1 DEF IInv, TypeOK
<1>3. new \in Thread /\ new.pc = pc
  BY <1>2 DEF Thread
<1> HIDE DEF new
<1>4. threads' \in [Loads -> Thread] /\ ItemFits'
  BY <1>2, <1>3, ThreadStep
<1>5. named' \subseteq SkillIDs /\ embedded' \subseteq Docs
  BY DEF PutName, PutDoc, Holds, IInv, TypeOK, ItemFits
<1> QED BY <1>4, <1>5, RunStep DEF PutName, PutDoc, IInv, TypeOK, Nobody

LEMMA FinishStep == ASSUME IInv, NEW n \in Loads, Finish(n) PROVE IInv'
<1>1. threads' \in [Loads -> Thread] /\ ItemFits'
  BY LeaveStep DEF Finish
<1> QED BY <1>1, RunStep DEF Finish, IInv, TypeOK

LEMMA EmbedStep == ASSUME IInv, NEW n \in Loads, Embed(n) PROVE IInv'
BY SwapStep, AuditStep, TriggerStep, LockStep, GatherStep, EmbedNameStep, EmbedDocStep,
   PutStep, FinishStep DEF Embed

-----------------------------------------------------------------------------
(* The actions of the administrator and of the requests *)

LEMMA ToggleStep == ASSUME IInv, NEW s \in SkillIDs, Toggle(s) PROVE IInv'
<1>1. active' \subseteq SkillIDs
  BY DEF Toggle, IInv, TypeOK
<1>2. SeenClean' /\ QuarantineHolds' /\ requests' \in [Requests -> Request]
  BY OthersStay DEF Toggle
<1>3. ItemFits'
  BY DEF Toggle, IInv, ItemFits
<1> QED BY <1>1, <1>2, <1>3 DEF Toggle, IInv, TypeOK

LEMMA ArriveStep == ASSUME IInv, NEW r \in Requests, Arrive(r) PROVE IInv'
<1>1. PICK b \in BOOLEAN :
        RequestStep(r, [NoRequest EXCEPT !.pc = "detect", !.blank = b,
                                         !.clean = SkillIDs \ quarantined])
  BY DEF Arrive
<1> DEFINE new == [NoRequest EXCEPT !.pc = "detect", !.blank = b,
                                    !.clean = SkillIDs \ quarantined]
<1>2. new \in Request /\ new.applied = {} /\ new.clean = SkillIDs \ quarantined
  BY NoRequestType DEF Request
<1>3. RequestStep(r, new)
  BY <1>1
<1> HIDE DEF new
<1> QED BY <1>2, <1>3, RequestMoves

LEMMA AnswerStep == ASSUME IInv, NEW r \in Requests, Answer(r) PROVE IInv'
BY NoRequestType, RequestMoves DEF Answer

(* Which skills were chosen does not matter: BuildSkillContext looks at the *)
(* quarantine again.                                                        *)
LEMMA ChosenStep ==
  ASSUME IInv, NEW r \in Requests, requests[r].pc # "idle",
         NEW skills \in SUBSET SkillIDs, RequestStep(r, Chosen(r, skills))
  PROVE  IInv'
<1>1. requests[r] \in Request
  BY DEF IInv, TypeOK
<1>2. /\ Chosen(r, skills) \in Request
      /\ Chosen(r, skills).clean = requests[r].clean
      /\ Chosen(r, skills).applied = requests[r].applied
  BY <1>1 DEF Chosen, Request
<1> QED BY <1>2, RequestGoesOn

(* A request that goes on to ask for the nearest skill.                     *)
LEMMA AsksStep ==
  ASSUME IInv, NEW r \in Requests, requests[r].pc # "idle", NEW pc \in {"semantic", "nested"},
         RequestStep(r, [requests[r] EXCEPT !.pc = pc])
  PROVE  IInv'
<1> DEFINE new == [requests[r] EXCEPT !.pc = pc]
<1>1. requests[r] \in Request
  BY DEF IInv, TypeOK
<1>2. new \in Request /\ new.clean = requests[r].clean /\ new.applied = requests[r].applied
  BY <1>1 DEF Request
<1>3. RequestStep(r, new)
  OBVIOUS
<1> HIDE DEF new
<1> QED BY <1>2, <1>3, RequestGoesOn

LEMMA DetectStep ==
  ASSUME IInv, NEW r \in Requests,
         Named(r) \/ Unnamed(r) \/ EmbedQuery(r) \/ DetectSkillSemantic(r)
  PROVE  IInv'
<1>1. active \in SUBSET SkillIDs /\ named \in SUBSET SkillIDs
  BY DEF IInv, TypeOK
<1>2. requests[r].pc # "idle"
  BY DEF Named, Unnamed, EmbedQuery, DetectSkillSemantic
<1>3. CASE Named(r)
  <2>1. PICK s \in SkillIDs \ quarantined : RequestStep(r, Chosen(r, {s}))
    BY <1>3 DEF Named
  <2> QED BY <1>2, <2>1, ChosenStep
<1>4. CASE Unnamed(r)
  <2>1. CASE RequestStep(r, Chosen(r, active))
    BY <1>1, <1>2, <2>1, ChosenStep
  <2>2. CASE RequestStep(r, [requests[r] EXCEPT !.pc = "semantic"])
    BY <1>2, <2>2, AsksStep
  <2> QED BY <1>4, <2>1, <2>2 DEF Unnamed
<1>5. CASE EmbedQuery(r)
  <2>1. CASE RequestStep(r, Chosen(r, active))
    BY <1>1, <1>2, <2>1, ChosenStep
  <2>2. CASE RequestStep(r, [requests[r] EXCEPT !.pc = "nested"])
    BY <1>2, <2>2, AsksStep
  <2> QED BY <1>5, <2>1, <2>2 DEF EmbedQuery
<1>6. CASE DetectSkillSemantic(r)
  <2>1. CASE RequestStep(r, Chosen(r, active))
    BY <1>1, <1>2, <2>1, ChosenStep
  <2>2. ASSUME NEW s \in named \ quarantined, RequestStep(r, Chosen(r, {s}))
        PROVE  IInv'
    BY <1>1, <1>2, <2>2, ChosenStep
  <2> QED BY <1>6, <2>1, <2>2 DEF DetectSkillSemantic
<1> QED BY <1>3, <1>4, <1>5, <1>6

LEMMA BuildStep == ASSUME IInv, NEW r \in Requests, Build(r) PROVE IInv'
<1>1. requests[r] \in Request /\ requests[r].pc = "next"
  BY DEF Build, IInv, TypeOK
<1>2. PICK s \in requests[r].left :
        \/ RequestStep(r, [requests[r] EXCEPT !.left = @ \ {s}])
        \/ /\ s \notin quarantined
           /\ \E about \in SUBSET DocsOf(s) :
                RequestStep(r, [requests[r] EXCEPT !.pc = "retrieve", !.skill = s,
                                                   !.about = about, !.applied = @ \cup {s}])
  BY DEF Build
<1>3. s \in SkillIDs /\ requests[r].left \ {s} \in SUBSET SkillIDs
      /\ requests[r].applied \cup {s} \in SUBSET SkillIDs
  BY <1>1, <1>2 DEF Request
<1>4. CASE RequestStep(r, [requests[r] EXCEPT !.left = @ \ {s}])
  <2> DEFINE new == [requests[r] EXCEPT !.left = @ \ {s}]
  <2>1. new \in Request /\ new.clean = requests[r].clean /\ new.applied = requests[r].applied
    BY <1>1, <1>3 DEF Request
  <2>2. RequestStep(r, new)
    BY <1>4
  <2> HIDE DEF new
  <2> QED BY <1>1, <2>1, <2>2, RequestGoesOn
<1>5. ASSUME s \notin quarantined, NEW about \in SUBSET DocsOf(s),
             RequestStep(r, [requests[r] EXCEPT !.pc = "retrieve", !.skill = s,
                                                !.about = about, !.applied = @ \cup {s}])
      PROVE  IInv'
  <2> DEFINE new == [requests[r] EXCEPT !.pc = "retrieve", !.skill = s,
                                        !.about = about, !.applied = @ \cup {s}]
  <2>1. about \in SUBSET Docs
    BY DEF DocsOf
  <2>2. /\ new \in Request /\ new.clean = requests[r].clean
        /\ new.applied = requests[r].applied \cup {s}
    BY <1>1, <1>3, <2>1 DEF Request
  <2>3. RequestStep(r, new)
    BY <1>5
  <2> HIDE DEF new
  <2> QED BY <1>1, <1>3, <1>5, <2>2, <2>3, RequestGoesOn
<1> QED BY <1>2, <1>4, <1>5

(* A search returns some of the documents it searches or was told of.       *)
LEMMA Searched ==
  ASSUME NEW docs \in SUBSET Docs, NEW about \in SUBSET Docs, NEW blank
  PROVE  /\ TopKSemantic(docs, about) \subseteq SUBSET Docs
         /\ TopK(docs, about, blank) \subseteq SUBSET Docs
<1>1. \A s \in SUBSET Docs : AtMostK(s) \subseteq SUBSET Docs
  <2> SUFFICES ASSUME NEW s \in SUBSET Docs, NEW top \in AtMostK(s) PROVE top \subseteq Docs
    OBVIOUS
  <2>1. top \in SUBSET s
    BY Zenon DEF AtMostK
  <2> QED BY <2>1
<1>2. docs \cap embedded \in SUBSET Docs
  OBVIOUS
<1>3. TopKSemantic(docs, about) \subseteq AtMostK(docs \cap embedded)
  BY Zenon DEF TopKSemantic
<1>4. TopK(docs, about, blank) \subseteq AtMostK(about) \cup AtMostK(docs)
  <2> SUFFICES ASSUME NEW top \in TopK(docs, about, blank)
               PROVE  top \in AtMostK(about) \cup AtMostK(docs)
    OBVIOUS
  <2> QED BY DEF TopK
<1> QED BY <1>1, <1>2, <1>3, <1>4

LEMMA RetrieveStep == ASSUME IInv, NEW r \in Requests, Retrieve(r) PROVE IInv'
<1>1. requests[r] \in Request /\ requests[r].pc = "retrieve"
  BY DEF Retrieve, IInv, TypeOK
<1>2. PICK top :
        /\ \/ top \in TopKSemantic(DocsOf(requests[r].skill), requests[r].about)
           \/ top \in TopK(DocsOf(requests[r].skill), requests[r].about, requests[r].blank)
        /\ RequestStep(r, [requests[r] EXCEPT !.pc = "next", !.left = @ \ {requests[r].skill},
                                              !.skill = None, !.about = {}, !.got = top])
  BY DEF Retrieve
<1>3. DocsOf(requests[r].skill) \subseteq Docs /\ requests[r].about \subseteq Docs
  BY <1>1 DEF DocsOf, Request
<1>4. top \in SUBSET Docs
  <2>1. /\ TopKSemantic(DocsOf(requests[r].skill), requests[r].about) \subseteq SUBSET Docs
        /\ TopK(DocsOf(requests[r].skill), requests[r].about, requests[r].blank) \subseteq SUBSET Docs
    BY <1>3, Searched
  <2> QED BY <1>2, <2>1
<1>5. requests[r].left \ {requests[r].skill} \in SUBSET SkillIDs
  BY <1>1 DEF Request
<1> DEFINE new == [requests[r] EXCEPT !.pc = "next", !.left = @ \ {requests[r].skill},
                                      !.skill = None, !.about = {}, !.got = top]
<1>6. new \in Request /\ new.clean = requests[r].clean /\ new.applied = requests[r].applied
  BY <1>1, <1>4, <1>5 DEF Request
<1>7. RequestStep(r, new)
  BY <1>2
<1> HIDE DEF new
<1> QED BY <1>1, <1>6, <1>7, RequestGoesOn

-----------------------------------------------------------------------------

LEMMA InitInv == Init => IInv
<1> SUFFICES ASSUME Init PROVE IInv
  OBVIOUS
<1>1. threads \in [Loads -> Thread] /\ ItemFits
  BY NoThreadType DEF Init, ItemFits
<1>2. requests \in [Requests -> Request] /\ SeenClean /\ QuarantineHolds
  BY NoRequestType DEF Init, SeenClean, QuarantineHolds
<1> QED BY <1>1, <1>2 DEF Init, IInv, TypeOK

LEMMA Inductive == IInv /\ [Next]_vars => IInv'
<1> SUFFICES ASSUME IInv, [Next]_vars PROVE IInv'
  OBVIOUS
<1>1. CASE UNCHANGED vars
  BY <1>1 DEF vars, IInv, TypeOK, ItemFits, SeenClean, QuarantineHolds
<1>2. CASE Change
  BY <1>2, ChangeStep
<1>3. ASSUME NEW n \in Loads, NEW p \in Policies, Load(n, p) PROVE IInv'
  BY <1>3, LoadStep
<1>4. ASSUME NEW n \in Loads, Embed(n) PROVE IInv'
  BY <1>4, EmbedStep
<1>5. ASSUME NEW s \in SkillIDs, Toggle(s) PROVE IInv'
  BY <1>5, ToggleStep
<1>6. ASSUME NEW r \in Requests, Arrive(r) PROVE IInv'
  BY <1>6, ArriveStep
<1>7. ASSUME NEW r \in Requests, Serve(r) PROVE IInv'
  BY <1>7, DetectStep, BuildStep, RetrieveStep, AnswerStep DEF Serve
<1> QED BY <1>1, <1>2, <1>3, <1>4, <1>5, <1>6, <1>7 DEF Next

(* The types, and with them that no run stores a document as a skill or a   *)
(* skill as a document: each goroutine of embedAllDocs carries one item     *)
(* from generateEmbedding to its own locked assignment.                     *)
THEOREM TypeInvariant == Spec => []TypeOK
<1>1. IInv => TypeOK
  BY DEF IInv
<1> QED BY <1>1, InitInv, Inductive, PTL DEF Spec

(* No context holds a skill that was quarantined for the whole of its       *)
(* request, whichever loads, toggles and detections come between: only      *)
(* BuildSkillContext's own look at the quarantine is needed for it.         *)
THEOREM QuarantineKeeps == Spec => []QuarantineHolds
<1>1. IInv => QuarantineHolds
  BY DEF IInv
<1> QED BY <1>1, InitInv, Inductive, PTL DEF Spec

-----------------------------------------------------------------------------
(* What there is to be found *)

(* Unless the embedding of a document failed, a run has embedded the        *)
(* documents it no longer has before it, ...                                *)
SoFar(t) ==
  /\ t.pc \in {"name", "putName"} => t.docs = Docs
  /\ t.pc = "embed" => Docs \ t.docs \subseteq embedded
  /\ t.pc = "putDoc" => Docs \ t.docs \subseteq embedded \cup {t.item}
  /\ t.pc = "finish" => Docs \subseteq embedded

(* ... so that some are embedded and some not only while a run goes on.     *)
Whole ==
  ~failed =>
    /\ \A n \in Loads : SoFar(threads[n])
    /\ \/ embedded = {} \/ Docs \subseteq embedded
       \/ \E n \in Loads : threads[n].pc \in {"embed", "putDoc"}

AboutSkill ==
  \A r \in Requests :
    requests[r].pc = "retrieve" => requests[r].about \subseteq DocsOf(requests[r].skill)

-----------------------------------------------------------------------------
(* What a search leaves out *)

(* Of a set no larger than K everything is taken, else K of it.             *)
LEMMA AtMostKTakes ==
  ASSUME NEW docs \in SUBSET Docs, NEW top \in AtMostK(docs), Cardinality(top) < K
  PROVE  top = docs
<1>1. IsFiniteSet(docs) /\ top \in SUBSET docs
  BY SkillsAssumption, FS_Subset DEF AtMostK
<1>2. Cardinality(top) = IF Cardinality(docs) > K THEN K ELSE Cardinality(docs)
  BY DEF AtMostK
<1>3. Cardinality(docs) \in Nat
  BY <1>1, FS_CardinalityType
<1>4. Cardinality(top) = Cardinality(docs)
  BY <1>2, <1>3, SkillsAssumption
<1> QED BY <1>1, <1>4, FS_Subset

(* A search in documents that are all embedded leaves out one it is about   *)
(* only for K others it is about.                                           *)
LEMMA SemanticFinds ==
  ASSUME NEW docs \in SUBSET Docs, docs \subseteq embedded, NEW about \in SUBSET docs,
         NEW top \in TopKSemantic(docs, about), ~ (about \subseteq top)
  PROVE  Cardinality(top) >= K /\ top \subseteq about
<1>1. docs \cap embedded = docs
  OBVIOUS
<1>2. top \in AtMostK(docs) /\ top \subseteq about
  BY <1>1 DEF TopKSemantic
<1>3. ~ (Cardinality(top) < K)
  BY <1>2, AtMostKTakes
<1>4. Cardinality(top) \in Nat
  <2>1. IsFiniteSet(top)
    BY <1>2, SkillsAssumption, FS_Subset
  <2> QED BY <2>1, FS_CardinalityType
<1> QED BY <1>2, <1>3, <1>4, SkillsAssumption

LEMMA WordsFind ==
  ASSUME NEW docs \in SUBSET Docs, NEW about \in SUBSET docs, NEW blank,
         NEW top \in TopK(docs, about, blank), ~ (about \subseteq top)
  PROVE  Cardinality(top) >= K /\ top \subseteq about
<1>1. about # {}
  OBVIOUS
<1>2. top \in AtMostK(about)
  BY <1>1 DEF TopK
<1>3. ~ (Cardinality(top) < K)
  BY <1>2, AtMostKTakes
<1>4. top \in SUBSET about
  BY <1>2 DEF AtMostK
<1>5. Cardinality(top) \in Nat
  <2>1. IsFiniteSet(top)
    BY <1>4, SkillsAssumption, FS_Subset
  <2> QED BY <2>1, FS_CardinalityType
<1> QED BY <1>3, <1>4, <1>5, SkillsAssumption

LEMMA WholeFinds ==
  ASSUME IInv, Whole, AboutSkill, ~failed, \A n \in Loads : ~Running(n),
         NEW r \in Requests, Retrieve(r)
  PROVE  ~LeavesOut(r)
<1> SUFFICES ASSUME ~ (requests[r].about \subseteq requests'[r].got)
             PROVE  Cardinality(requests'[r].got) >= K /\ requests'[r].got \subseteq requests[r].about
                    /\ Cardinality(requests'[r].got) \in Nat
  BY SkillsAssumption DEF LeavesOut
<1>1. PICK docs \in SUBSET Docs : docs = DocsOf(requests[r].skill)
  BY DEF DocsOf
<1>2. requests[r].about \in SUBSET docs
  BY <1>1 DEF AboutSkill, Retrieve
<1>3. PICK top \in IF rag.on /\ ~requests[r].blank /\ GenerateEmbedding = "vector" /\ docs \cap embedded # {}
                   THEN TopKSemantic(docs, requests[r].about)
                   ELSE TopK(docs, requests[r].about, requests[r].blank) :
        RequestStep(r, [requests[r] EXCEPT !.pc = "next", !.left = @ \ {requests[r].skill},
                                           !.skill = None, !.about = {}, !.got = top])
  BY <1>1 DEF Retrieve
<1>4. requests'[r].got = top
  <2>1. requests[r] \in Request /\ requests \in [Requests -> Request]
    BY DEF IInv, TypeOK
  <2> QED BY <1>3, <2>1 DEF RequestStep, Request
<1>5. Cardinality(top) >= K /\ top \subseteq requests[r].about
  <2>1. CASE docs \cap embedded = {}
    BY <1>2, <1>3, <1>4, <2>1, WordsFind
  <2>2. CASE docs \subseteq embedded
    BY <1>2, <1>3, <1>4, <2>2, SemanticFinds, WordsFind
  <2>3. embedded = {} \/ Docs \subseteq embedded
    BY DEF Whole, Running
  <2> QED BY <2>1, <2>2, <2>3
<1>6. Cardinality(top) \in Nat
  <2>1. IsFiniteSet(top)
    BY <1>2, <1>5, SkillsAssumption, FS_Subset
  <2> QED BY <2>1, FS_CardinalityType
<1> QED BY <1>4, <1>5, <1>6

-----------------------------------------------------------------------------
(* Embedding is whole or under way *)

(* A thread's record gives way to one that has embedded as much.            *)
LEMMA WholeStays ==
  ASSUME IInv, Whole, NEW n \in Loads, NEW new,
         threads' = [threads EXCEPT ![n] = new], UNCHANGED <<embedded, failed>>,
         ~failed => SoFar(new),
         threads[n].pc \in {"embed", "putDoc"} => new.pc \in {"embed", "putDoc"} \/ failed \/ Docs \subseteq embedded
  PROVE  Whole'
<1> SUFFICES ASSUME ~failed PROVE Whole'
  BY DEF Whole
<1>1. threads'[n] = new /\ \A m \in Loads : m # n => threads'[m] = threads[m]
  BY DEF IInv, TypeOK
<1>2. \A m \in Loads : SoFar(threads[m])'
  <2>1. SoFar(new)' <=> SoFar(new)
    BY DEF SoFar
  <2> QED BY <1>1, <2>1 DEF Whole, SoFar
<1>3. embedded' = {} \/ Docs \subseteq embedded' \/ \E m \in Loads : threads'[m].pc \in {"embed", "putDoc"}
  BY <1>1 DEF Whole
<1> QED BY <1>2, <1>3 DEF Whole

(* Steps after which a thread is at work on no document.                    *)
LEMMA WholeAside ==
  ASSUME IInv, Whole, NEW n \in Loads, NEW new,
         threads' = [threads EXCEPT ![n] = new], UNCHANGED <<embedded, failed>>,
         new.pc \notin {"name", "putName", "embed", "putDoc", "finish"},
         threads[n].pc \notin {"embed", "putDoc"}
  PROVE  Whole'
BY WholeStays DEF SoFar

LEMMA WholeGo ==
  ASSUME IInv, Whole, NEW n \in Loads, NEW pc, Go(n, pc), UNCHANGED <<embedded, failed>>,
         pc \notin {"name", "putName", "embed", "putDoc", "finish"},
         threads[n].pc \notin {"embed", "putDoc"}
  PROVE  Whole'
<1> DEFINE new == [threads[n] EXCEPT !.pc = pc]
<1>1. threads' = [threads EXCEPT ![n] = new] /\ new.pc = pc
  BY DEF Go, IInv, TypeOK, Thread
<1> HIDE DEF new
<1> QED BY <1>1, WholeAside

LEMMA WholeLeave ==
  ASSUME IInv, Whole, NEW n \in Loads, NEW pc, Leave(n, pc), UNCHANGED <<embedded, failed>>,
         pc \notin {"name", "putName", "embed", "putDoc", "finish"},
         threads[n].pc \notin {"embed", "putDoc"}
  PROVE  Whole'
<1> DEFINE new == [NoThread EXCEPT !.pc = pc]
<1>1. threads' = [threads EXCEPT ![n] = new] /\ new.pc = pc
  BY DEF Leave, NoThread
<1> HIDE DEF new
<1> QED BY <1>1, WholeAside

LEMMA WholeUnchanged ==
  ASSUME Whole, UNCHANGED <<threads, embedded, failed>> PROVE Whole'
BY DEF Whole, SoFar

LEMMA WholeLoad == ASSUME IInv, Whole, NEW n \in Loads, NEW p \in Policies, Load(n, p) PROVE Whole'
<1> DEFINE new == [NoThread EXCEPT !.pc = "swap", !.policy = p]
<1>1. threads' = [threads EXCEPT ![n] = new] /\ new.pc = "swap"
  BY DEF Load, NoThread
<1> HIDE DEF new
<1> QED BY <1>1, WholeAside DEF Load

LEMMA WholeGather == ASSUME IInv, Whole, NEW n \in Loads, Gather(n) PROVE Whole'
<1> DEFINE new == [threads[n] EXCEPT !.pc = "name", !.names = SkillIDs, !.docs = Docs]
<1>1. threads' = [threads EXCEPT ![n] = new] /\ new.pc = "name" /\ new.docs = Docs
  BY DEF Gather, IInv, TypeOK, Thread
<1> HIDE DEF new
<1> QED BY <1>1, WholeStays DEF SoFar, Gather, Holds

LEMMA WholeEmbedName == ASSUME IInv, Whole, NEW n \in Loads, EmbedName(n) PROVE Whole'
<1>1. threads[n] \in Thread /\ threads[n].pc = "name" /\ UNCHANGED <<embedded, failed>>
  BY DEF EmbedName, IInv, TypeOK
<1>2. ~failed => threads[n].docs = Docs
  BY <1>1 DEF Whole, SoFar
<1>3. CASE Go(n, "embed")
  <2> DEFINE new == [threads[n] EXCEPT !.pc = "embed"]
  <2>1. threads' = [threads EXCEPT ![n] = new] /\ new.pc = "embed" /\ new.docs = threads[n].docs
    BY <1>1, <1>3 DEF Go, IInv, TypeOK, Thread
  <2> HIDE DEF new
  <2> QED BY <1>1, <1>2, <2>1, WholeStays DEF SoFar
<1>4. CASE Go(n, "clear")
  BY <1>1, <1>4, WholeGo
<1>5. ASSUME NEW s, threads' = [threads EXCEPT ![n].pc = "putName", ![n].item = s, ![n].names = @ \ {s}]
      PROVE  Whole'
  <2> DEFINE new == [threads[n] EXCEPT !.pc = "putName", !.item = s, !.names = @ \ {s}]
  <2>1. threads' = [threads EXCEPT ![n] = new] /\ new.pc = "putName" /\ new.docs = threads[n].docs
    BY <1>1, <1>5 DEF IInv, TypeOK, Thread
  <2> HIDE DEF new
  <2> QED BY <1>1, <1>2, <2>1, WholeStays DEF SoFar
<1>6. ASSUME NEW s, threads' = [threads EXCEPT ![n].names = @ \ {s}]
      PROVE  Whole'
  <2> DEFINE new == [threads[n] EXCEPT !.names = @ \ {s}]
  <2>1. threads' = [threads EXCEPT ![n] = new] /\ new.pc = "name" /\ new.docs = threads[n].docs
    BY <1>1, <1>6 DEF IInv, TypeOK, Thread
  <2> HIDE DEF new
  <2> QED BY <1>1, <1>2, <2>1, WholeStays DEF SoFar
<1> QED BY <1>3, <1>4, <1>5, <1>6 DEF EmbedName

LEMMA WholePutName == ASSUME IInv, Whole, NEW n \in Loads, PutName(n) PROVE Whole'
<1> DEFINE new == [threads[n] EXCEPT !.pc = "name", !.item = None]
<1>1. threads' = [threads EXCEPT ![n] = new] /\ new.pc = "name" /\ new.docs = threads[n].docs
  BY DEF PutName, IInv, TypeOK, Thread
<1>2. threads[n].pc = "putName" /\ UNCHANGED <<embedded, failed>>
  BY DEF PutName, Holds
<1>3. ~failed => threads[n].docs = Docs
  BY <1>2 DEF Whole, SoFar
<1> HIDE DEF new
<1> QED BY <1>1, <1>2, <1>3, WholeStays DEF SoFar

LEMMA WholeEmbedDoc == ASSUME IInv, Whole, NEW n \in Loads, EmbedDoc(n) PROVE Whole'
<1> SUFFICES ASSUME ~failed' PROVE Whole'
  BY DEF Whole
<1>1. threads[n] \in Thread /\ threads[n].pc = "embed" /\ UNCHANGED <<embedded, failed>>
      /\ Docs \ threads[n].docs \subseteq embedded
  BY DEF EmbedDoc, IInv, TypeOK, Whole, SoFar
<1>2. CASE threads[n].docs = {}
  <2> DEFINE new == [threads[n] EXCEPT !.pc = "finish"]
  <2>1. threads' = [threads EXCEPT ![n] = new] /\ new.pc = "finish"
    BY <1>1, <1>2 DEF EmbedDoc, Go, IInv, TypeOK, Thread
  <2>2. Docs \subseteq embedded
    BY <1>1, <1>2
  <2> HIDE DEF new
  <2> QED BY <1>1, <2>1, <2>2, WholeStays DEF SoFar
<1>3. CASE threads[n].docs # {}
  <2>1. GenerateEmbedding = "vector"
    BY <1>3 DEF EmbedDoc
  <2>2. PICK d \in threads[n].docs :
          threads' = [threads EXCEPT ![n].pc = "putDoc", ![n].item = d, ![n].docs = @ \ {d}]
    <3>1. PICK d \in threads[n].docs :
            CASE GenerateEmbedding = "vector" ->
                   threads' = [threads EXCEPT ![n].pc = "putDoc", ![n].item = d, ![n].docs = @ \ {d}]
              [] ModelMissing -> Go(n, "clear")
              [] OTHER -> threads' = [threads EXCEPT ![n].docs = @ \ {d}]
      BY <1>3 DEF EmbedDoc
    <3>2. ~ModelMissing
      BY <2>1 DEF ModelMissing
    <3> QED BY <2>1, <3>1, <3>2
  <2> DEFINE new == [threads[n] EXCEPT !.pc = "putDoc", !.item = d, !.docs = @ \ {d}]
  <2>3. /\ threads' = [threads EXCEPT ![n] = new] /\ new.pc = "putDoc"
        /\ new.item = d /\ new.docs = threads[n].docs \ {d}
    BY <1>1, <2>2 DEF IInv, TypeOK, Thread
  <2> HIDE DEF new
  <2> QED BY <1>1, <2>3, WholeStays DEF SoFar
<1> QED BY <1>2, <1>3

LEMMA WholePutDoc == ASSUME IInv, Whole, NEW n \in Loads, PutDoc(n) PROVE Whole'
<1> SUFFICES ASSUME ~failed PROVE Whole'
  BY DEF Whole, PutDoc
<1>1. /\ threads[n] \in Thread /\ threads[n].pc = "putDoc" /\ failed' = failed
      /\ embedded' = embedded \cup {threads[n].item}
      /\ Docs \ threads[n].docs \subseteq embedded'
  BY DEF PutDoc, Holds, IInv, TypeOK, Whole, SoFar
<1>2. /\ threads'[n].pc = "embed" /\ threads'[n].docs = threads[n].docs
      /\ \A m \in Loads : m # n => threads'[m] = threads[m]
  BY <1>1 DEF PutDoc, IInv, TypeOK, Thread
<1>3. \A m \in Loads : SoFar(threads[m])'
  BY <1>1, <1>2 DEF Whole, SoFar
<1> QED BY <1>2, <1>3 DEF Whole

LEMMA WholeKept == ASSUME IInv, Whole, [Next]_vars PROVE Whole'
<1>1. ASSUME NEW n \in Loads, Embed(n) PROVE Whole'
  <2>1. CASE Swap(n) \/ Trigger(n) \/ Start(n) \/ Poll(n)
    BY <2>1, WholeGo DEF Swap, Trigger, Start, Poll
  <2>2. CASE Audit(n)
    BY <2>2, WholeLeave DEF Audit
  <2>3. CASE Finish(n)
    BY <2>3, WholeLeave DEF Finish
  <2>4. CASE Lock(n)
    BY <2>4, WholeUnchanged DEF Lock
  <2> QED BY <1>1, <2>1, <2>2, <2>3, <2>4, WholeGather, WholeEmbedName, WholePutName, WholeEmbedDoc,
             WholePutDoc DEF Embed
<1>2. CASE UNCHANGED vars
  BY <1>2, WholeUnchanged DEF vars
<1>3. CASE Change
  BY <1>3, WholeUnchanged DEF Change
<1>4. ASSUME NEW s \in SkillIDs, Toggle(s) PROVE Whole'
  BY <1>4, WholeUnchanged DEF Toggle
<1>5. ASSUME NEW r \in Requests, Arrive(r) \/ Serve(r) PROVE Whole'
  <2>1. PICK new : RequestStep(r, new)
    BY <1>5 DEF Arrive, Serve, Named, Unnamed, EmbedQuery, DetectSkillSemantic, Build, Retrieve, Answer
  <2> QED BY <2>1, WholeUnchanged DEF RequestStep
<1> QED BY <1>1, <1>2, <1>3, <1>4, <1>5, WholeLoad DEF Next

-----------------------------------------------------------------------------
(* What a request looks for is in the documents of its skill *)

LEMMA AboutStays ==
  ASSUME IInv, AboutSkill, NEW r \in Requests, NEW new, RequestStep(r, new),
         new.pc = "retrieve" => new.about \subseteq DocsOf(new.skill)
  PROVE  AboutSkill'
<1>1. /\ requests'[r] = new /\ \A q \in Requests : q # r => requests'[q] = requests[q]
  BY DEF RequestStep, IInv, TypeOK
<1> QED BY <1>1 DEF AboutSkill, DocsOf

LEMMA AboutKept == ASSUME IInv, AboutSkill, [Next]_vars PROVE AboutSkill'
<1>1. CASE UNCHANGED requests
  BY <1>1 DEF AboutSkill, DocsOf
<1>2. ASSUME NEW n \in Loads, Audit(n) PROVE AboutSkill'
  <2>1. ASSUME NEW q \in Requests
        PROVE  /\ requests'[q].pc = requests[q].pc /\ requests'[q].about = requests[q].about
               /\ requests'[q].skill = requests[q].skill
    BY <1>2 DEF Audit, IInv, TypeOK, Request
  <2> QED BY <2>1 DEF AboutSkill, DocsOf
<1>3. ASSUME NEW r \in Requests, Arrive(r) \/ Answer(r) PROVE AboutSkill'
  <2>1. PICK new : RequestStep(r, new) /\ new.pc # "retrieve"
    <3>1. ASSUME NEW b, NEW c
          PROVE  [NoRequest EXCEPT !.pc = "detect", !.blank = b, !.clean = c].pc = "detect"
      BY DEF NoRequest
    <3> QED BY <1>3, <3>1, NoRequestType DEF Arrive, Answer
  <2> QED BY <2>1, AboutStays
<1>4. ASSUME NEW r \in Requests, Named(r) \/ Unnamed(r) \/ EmbedQuery(r) \/ DetectSkillSemantic(r)
      PROVE  AboutSkill'
  <2>1. requests[r] \in Request
    BY DEF IInv, TypeOK
  <2>2. \A skills : Chosen(r, skills).pc = "next"
    BY <2>1 DEF Chosen, Request
  <2>3. /\ [requests[r] EXCEPT !.pc = "semantic"].pc = "semantic"
        /\ [requests[r] EXCEPT !.pc = "nested"].pc = "nested"
    BY <2>1 DEF Request
  <2>4. PICK new : RequestStep(r, new) /\ new.pc # "retrieve"
    BY <1>4, <2>2, <2>3 DEF Named, Unnamed, EmbedQuery, DetectSkillSemantic
  <2> QED BY <2>4, AboutStays
<1>5. ASSUME NEW r \in Requests, Build(r) PROVE AboutSkill'
  <2>1. requests[r] \in Request /\ requests[r].pc = "next"
    BY <1>5 DEF Build, IInv, TypeOK
  <2>2. ASSUME NEW s, RequestStep(r, [requests[r] EXCEPT !.left = @ \ {s}]) PROVE AboutSkill'
    <3>1. [requests[r] EXCEPT !.left = @ \ {s}].pc = "next"
      BY <2>1 DEF Request
    <3> QED BY <2>2, <3>1, AboutStays
  <2>3. ASSUME NEW s, NEW about \in SUBSET DocsOf(s),
               RequestStep(r, [requests[r] EXCEPT !.pc = "retrieve", !.skill = s,
                                                  !.about = about, !.applied = @ \cup {s}])
        PROVE  AboutSkill'
    <3> DEFINE new == [requests[r] EXCEPT !.pc = "retrieve", !.skill = s,
                                          !.about = about, !.applied = @ \cup {s}]
    <3>1. new.skill = s /\ new.about = about
      BY <2>1 DEF Request
    <3>2. RequestStep(r, new)
      BY <2>3
    <3> HIDE DEF new
    <3> QED BY <3>1, <3>2, AboutStays
  <2> QED BY <1>5, <2>2, <2>3 DEF Build
<1>6. ASSUME NEW r \in Requests, Retrieve(r) PROVE AboutSkill'
  <2>1. PICK top : RequestStep(r, [requests[r] EXCEPT !.pc = "next", !.left = @ \ {requests[r].skill},
                                                      !.skill = None, !.about = {}, !.got = top])
    BY <1>6 DEF Retrieve
  <2>2. requests[r] \in Request
    BY DEF IInv, TypeOK
  <2>3. [requests[r] EXCEPT !.pc = "next", !.left = @ \ {requests[r].skill},
                            !.skill = None, !.about = {}, !.got = top].pc = "next"
    BY <2>2 DEF Request
  <2> QED BY <2>1, <2>3, AboutStays
<1>7. ASSUME NEW n \in Loads, Embed(n), ~Audit(n) PROVE UNCHANGED requests
  BY <1>7 DEF Embed, Swap, Trigger, Start, Lock, Gather, EmbedName, PutName, EmbedDoc, PutDoc, Finish, Poll
<1>8. ASSUME NEW s \in SkillIDs, Toggle(s) PROVE UNCHANGED requests
  BY <1>8 DEF Toggle
<1>9. ASSUME NEW n \in Loads, NEW p \in Policies, Load(n, p) PROVE UNCHANGED requests
  BY <1>9 DEF Load
<1>10. UNCHANGED vars \/ Change => UNCHANGED requests
  BY DEF vars, Change
<1> QED BY <1>1, <1>2, <1>3, <1>4, <1>5, <1>6, <1>7, <1>8, <1>9, <1>10 DEF Next, Serve

(* Only a retrieval of the request itself ends its retrieval.               *)
LEMMA OnlyRetrieve ==
  ASSUME IInv, [Next]_vars, NEW r \in Requests, requests[r].pc = "retrieve", requests'[r].pc = "next"
  PROVE  Retrieve(r)
<1>1. requests'[r] # requests[r] /\ requests \in [Requests -> Request]
  BY DEF IInv, TypeOK
<1>2. ~ (\E n \in Loads : Audit(n))
  BY <1>1 DEF Audit, Request
<1>3. ASSUME NEW q \in Requests, Arrive(q) \/ Serve(q) PROVE q = r
  <2>1. PICK new : RequestStep(q, new)
    BY <1>3 DEF Arrive, Serve, Named, Unnamed, EmbedQuery, DetectSkillSemantic, Build, Retrieve, Answer
  <2> QED BY <1>1, <2>1 DEF RequestStep
<1>4. Arrive(r) \/ Serve(r) => Retrieve(r)
  BY DEF Arrive, Serve, Named, Unnamed, EmbedQuery, DetectSkillSemantic, Build, Answer
<1>5. ASSUME NEW n \in Loads, Embed(n), ~Audit(n) PROVE UNCHANGED requests
  BY <1>5 DEF Embed, Swap, Trigger, Start, Lock, Gather, EmbedName, PutName, EmbedDoc, PutDoc, Finish, Poll
<1>6. ASSUME NEW s \in SkillIDs, Toggle(s) PROVE UNCHANGED requests
  BY <1>6 DEF Toggle
<1>7. ASSUME NEW n \in Loads, NEW p \in Policies, Load(n, p) PROVE UNCHANGED requests
  BY <1>7 DEF Load
<1>8. UNCHANGED vars \/ Change => UNCHANGED requests
  BY DEF vars, Change
<1> QED BY <1>1, <1>2, <1>3, <1>4, <1>5, <1>6, <1>7, <1>8 DEF Next

(* A context leaves out a document it is about, for a worse one or for      *)
(* none, only while a run embeds documents or after the embedding of one    *)
(* failed (embedAllDocs, retrieveTopKSemantic), for any number of documents, *)
(* runs and requests: embedding is whole or under way otherwise.            *)
THEOREM FindsUnlessPartialHolds == Spec => FindsUnlessPartial
<1>1. Init => IInv /\ Whole /\ AboutSkill
  <2>1. ASSUME Init PROVE Whole /\ AboutSkill
    BY <2>1, NoThreadType, NoRequestType DEF Init, Whole, SoFar, AboutSkill
  <2> QED BY <2>1, InitInv
<1>2. IInv /\ Whole /\ AboutSkill /\ [Next]_vars => (IInv /\ Whole /\ AboutSkill)'
  BY Inductive, WholeKept, AboutKept
<1>3. IInv /\ Whole /\ AboutSkill /\ [Next]_vars
        => [\A r \in Requests : LeavesOut(r) => failed \/ \E n \in Loads : Running(n)]_vars
  <2> SUFFICES ASSUME IInv, Whole, AboutSkill, [Next]_vars, NEW r \in Requests, LeavesOut(r)
               PROVE  failed \/ \E n \in Loads : Running(n)
    OBVIOUS
  <2>1. Retrieve(r)
    BY OnlyRetrieve DEF LeavesOut
  <2> QED BY <2>1, WholeFinds
<1> QED BY <1>1, <1>2, <1>3, PTL DEF Spec, FindsUnlessPartial

-----------------------------------------------------------------------------
(* The lock that is taken twice *)

(* A request that detectSkillSemantic lets ask for skillsMu again, behind a *)
(* run that waits for the request to give it back; as seen by a request     *)
(* still to come, while the skills in S are quarantined.                    *)
Stuck(r) == requests[r].pc = "nested" /\ writer # Nobody
Frozen(r, q, S) == Stuck(r) /\ requests[q].pc = "idle" /\ quarantined = S

(* Once the second read lock of skillsMu (DetectSkill, detectSkillSemantic) *)
(* has met a waiting run, it lasts: no further request gets past its skill  *)
(* detection and no policy's quarantine comes into force, for any number of *)
(* requests and loads.  It is the exception of AnsweredUnlessNested.        *)
THEOREM DeadlockLasts ==
  ASSUME NEW r \in Requests, NEW q \in Requests, NEW S \in SUBSET SkillIDs
  PROVE  Spec => [](Frozen(r, q, S) => []Frozen(r, q, S))
<1>1. IInv /\ Frozen(r, q, S) /\ [Next]_vars => Frozen(r, q, S)'
  <2> SUFFICES ASSUME IInv, Frozen(r, q, S), [Next]_vars PROVE Frozen(r, q, S)'
    OBVIOUS
  <2>1. requests[r].pc = "nested" /\ requests[q].pc = "idle" /\ writer # Nobody /\ quarantined = S
    BY DEF Frozen, Stuck
  <2>2. r \in Readers /\ requests \in [Requests -> Request]
    BY <2>1 DEF Readers, IInv, TypeOK
  <2>3. CASE UNCHANGED <<requests, writer, quarantined>>
    BY <2>1, <2>3 DEF Frozen, Stuck
  <2>4. ASSUME NEW x \in Requests, Arrive(x) \/ Serve(x) PROVE Frozen(r, q, S)'
    <3>1. x # r /\ x # q
      BY <2>1, <2>4 DEF Arrive, Serve, Named, Unnamed, EmbedQuery, DetectSkillSemantic, Build,
         Retrieve, Answer
    <3>2. PICK new : RequestStep(x, new)
      BY <2>4 DEF Arrive, Serve, Named, Unnamed, EmbedQuery, DetectSkillSemantic, Build,
         Retrieve, Answer
    <3> QED BY <2>1, <2>2, <3>1, <3>2 DEF RequestStep, Frozen, Stuck
  <2>5. ASSUME NEW n \in Loads, Embed(n) PROVE UNCHANGED <<requests, writer, quarantined>>
    BY <2>1, <2>2, <2>5 DEF Embed, Swap, Audit, Trigger, Start, Lock, Gather, EmbedName, PutName,
       EmbedDoc, PutDoc, Holds, Finish, Poll
  <2>6. ASSUME NEW n \in Loads, NEW p \in Policies, Load(n, p)
        PROVE  UNCHANGED <<requests, writer, quarantined>>
    BY <2>6 DEF Load
  <2>7. ASSUME NEW s \in SkillIDs, Toggle(s) PROVE UNCHANGED <<requests, writer, quarantined>>
    BY <2>7 DEF Toggle
  <2>8. Change \/ UNCHANGED vars => UNCHANGED <<requests, writer, quarantined>>
    BY DEF Change, vars
  <2> QED BY <2>3, <2>4, <2>5, <2>6, <2>7, <2>8 DEF Next
<1> QED BY <1>1, InitInv, Inductive, PTL DEF Spec
=============================================================================
