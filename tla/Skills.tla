-------------------------------- MODULE Skills --------------------------------
(***************************************************************************)
(* Skills and their embeddings (proxy/skills.go, skillscan.go): the audit  *)
(* of each policy load, the goroutines that embed the knowledge documents  *)
(* and wait for the model, and the requests whose context is chosen and    *)
(* built meanwhile (injectSystemContext).                                  *)
(*                                                                         *)
(* A step is one critical section, one use of an atomic or one call of     *)
(* Ollama.  Sections that only read and do not wait inside are one step,   *)
(* possible while no writer of skillsMu waits (sync.RWMutex lets no new    *)
(* reader pass a waiting writer).  The load of a policy, the embedding run *)
(* it starts and the retry that follows are one goroutine after the other, *)
(* modelled as one thread per load.  What the words or the vectors of a    *)
(* query are near to is what the query is about.                           *)
(***************************************************************************)
EXTENDS Naturals, FiniteSets

CONSTANTS
  SkillIDs,        \* the loaded skills
  Docs, Owner,     \* their knowledge documents, the skill of each
  None,            \* no skill
  Policies,        \* [toxic: what skill_scanning quarantines, rag, auto: of skills_rag]
  Requests,        \* goroutines in injectSystemContext
  K,               \* how many documents a context holds (3 in the code)
  MaxLoads,        \* bound: loads of a policy, the one at the start included
  MaxChanges       \* bound: changes of Ollama

Loads == 1 .. MaxLoads
Nobody == 0
DocsOf(s) == {d \in Docs : Owner[d] = s}

ASSUME SkillsAssumption ==
  /\ IsFiniteSet(Docs) /\ Owner \in [Docs -> SkillIDs] /\ None \notin SkillIDs
  /\ Policies # {}
  /\ Policies \subseteq [toxic : SUBSET SkillIDs, rag : BOOLEAN, auto : BOOLEAN]
  /\ K \in Nat \ {0} /\ MaxLoads \in Nat \ {0} /\ MaxChanges \in Nat

VARIABLES
  ollama,              \* ready, missing (the model is not there), down
  rag,                 \* the policy in force, as far as requests read it
  quarantined,         \* skillQuarantined
  active,              \* adminActiveSkills
  named, embedded,     \* skills with identityEmbedding, documents with embedding
  embeddedDocCount,
  embeddingInProgress,
  writer,              \* the thread that waits for skillsMu or holds it for writing
  threads,             \* per load: its locals, then those of the run it started
  requests,
  failed,              \* history: a document's embedding failed
  changes

vars == <<ollama, rag, quarantined, active, named, embedded, embeddedDocCount,
          embeddingInProgress, writer, threads, requests, failed, changes>>

-----------------------------------------------------------------------------
NoThread == [pc |-> "idle", policy |-> CHOOSE p \in Policies : TRUE,
             names |-> {}, docs |-> {}, item |-> None]
NoRequest == [pc |-> "idle", blank |-> TRUE, left |-> {}, skill |-> None, about |-> {},
              got |-> {}, applied |-> {}, clean |-> {}]

(* A request in DetectSkill holds skillsMu for reading.                     *)
Readers == {r \in Requests : requests[r].pc \in {"detect", "semantic", "nested"}}
Running(n) == threads[n].pc \in
  {"gather", "name", "putName", "embed", "putDoc", "finish"}
Serving == threads[1].pc \notin {"idle", "swap", "audit"}

Init ==
  /\ ollama \in {"ready", "missing", "down"}
  /\ rag = [on |-> FALSE, auto |-> FALSE]
  /\ quarantined = {} /\ active = {}
  /\ named = {} /\ embedded = {} /\ embeddedDocCount = 0
  /\ embeddingInProgress = FALSE
  /\ writer = Nobody
  /\ threads = [n \in Loads |-> NoThread]
  /\ requests = [r \in Requests |-> NoRequest]
  /\ failed = FALSE /\ changes = 0

Go(n, pc) == threads' = [threads EXCEPT ![n].pc = pc]
Leave(n, pc) == threads' = [threads EXCEPT ![n] = [NoThread EXCEPT !.pc = pc]]

(* Ollama comes, goes, or has its model pulled or removed.                  *)
Change ==
  /\ changes < MaxChanges
  /\ changes' = changes + 1
  /\ ollama' \in {"ready", "missing", "down"} \ {ollama}
  /\ UNCHANGED <<rag, quarantined, active, named, embedded, embeddedDocCount,
                 embeddingInProgress, writer, threads, requests, failed>>

-----------------------------------------------------------------------------
(* loadPolicy, as far as skills see it *)

Load(n, p) ==
  /\ threads[n].pc = "idle" /\ (n = 1 \/ Serving)
  /\ threads' = [threads EXCEPT ![n] = [NoThread EXCEPT !.pc = "swap", !.policy = p]]
  /\ UNCHANGED <<ollama, rag, quarantined, active, named, embedded, embeddedDocCount,
                 embeddingInProgress, writer, requests, failed, changes>>

Swap(n) ==
  /\ threads[n].pc = "swap"
  /\ rag' = [on |-> threads[n].policy.rag, auto |-> threads[n].policy.auto]
  /\ Go(n, "audit")
  /\ UNCHANGED <<ollama, quarantined, active, named, embedded, embeddedDocCount,
                 embeddingInProgress, writer, requests, failed, changes>>

(* auditSkills reads the skills under skillsMu; setSkillAudit.  For the     *)
(* requests under way: what is not quarantined now.                         *)
Audit(n) ==
  /\ threads[n].pc = "audit" /\ writer = Nobody
  /\ quarantined' = threads[n].policy.toxic
  /\ requests' = [r \in Requests |->
        [requests[r] EXCEPT !.clean = @ \cup (SkillIDs \ quarantined')]]
  /\ Leave(n, IF threads[n].policy.rag THEN "trigger" ELSE "done")
  /\ UNCHANGED <<ollama, rag, active, named, embedded, embeddedDocCount,
                 embeddingInProgress, writer, failed, changes>>

(* TriggerEmbeddingsIfNeeded: the check, then the store and the goroutine.  *)
Trigger(n) ==
  /\ threads[n].pc = "trigger"
  /\ Go(n, IF embeddedDocCount > 0 \/ embeddingInProgress THEN "done" ELSE "start")
  /\ UNCHANGED <<ollama, rag, quarantined, active, named, embedded, embeddedDocCount,
                 embeddingInProgress, writer, requests, failed, changes>>

Start(n) ==
  /\ threads[n].pc = "start"
  /\ embeddingInProgress' = TRUE
  /\ Go(n, "gather")
  /\ UNCHANGED <<ollama, rag, quarantined, active, named, embedded, embeddedDocCount,
                 writer, requests, failed, changes>>

-----------------------------------------------------------------------------
(* embedAllDocs and retryEmbeddingsWhenReady *)

Lock(n) ==
  /\ threads[n].pc \in {"gather", "putName", "putDoc"} /\ writer = Nobody
  /\ writer' = n
  /\ UNCHANGED <<ollama, rag, quarantined, active, named, embedded, embeddedDocCount,
                 embeddingInProgress, threads, requests, failed, changes>>

Holds(n, pc) == threads[n].pc = pc /\ writer = n /\ Readers = {}

Gather(n) ==
  /\ Holds(n, "gather")
  /\ threads' = [threads EXCEPT ![n].pc = "name", ![n].names = SkillIDs, ![n].docs = Docs]
  /\ writer' = Nobody
  /\ UNCHANGED <<ollama, rag, quarantined, active, named, embedded, embeddedDocCount,
                 embeddingInProgress, requests, failed, changes>>

(* What a call of Ollama comes to; isModelMissingError.                     *)
GenerateEmbedding ==
  CASE ollama = "ready" -> "vector" [] ollama = "missing" -> "404" [] ollama = "down" -> "error"

ModelMissing == GenerateEmbedding = "404"

(* The embedding of a skill's name and description; maps have no order.  A  *)
(* missing model ends the run and leaves a goroutine that waits for it, any *)
(* other error only skips.                                                  *)
EmbedName(n) ==
  /\ threads[n].pc = "name"
  /\ IF threads[n].names = {} THEN Go(n, "embed")
     ELSE \E s \in threads[n].names :
            CASE GenerateEmbedding = "vector" ->
                   threads' = [threads EXCEPT ![n].pc = "putName", ![n].item = s,
                                              ![n].names = @ \ {s}]
              [] ModelMissing -> Go(n, "clear")
              [] OTHER -> threads' = [threads EXCEPT ![n].names = @ \ {s}]
  /\ UNCHANGED <<ollama, rag, quarantined, active, named, embedded, embeddedDocCount,
                 embeddingInProgress, writer, requests, failed, changes>>

PutName(n) ==
  /\ Holds(n, "putName")
  /\ named' = named \cup {threads[n].item}
  /\ threads' = [threads EXCEPT ![n].pc = "name", ![n].item = None]
  /\ writer' = Nobody
  /\ UNCHANGED <<ollama, rag, quarantined, active, embedded, embeddedDocCount,
                 embeddingInProgress, requests, failed, changes>>

EmbedDoc(n) ==
  /\ threads[n].pc = "embed"
  /\ IF threads[n].docs = {} THEN Go(n, "finish")
     ELSE \E d \in threads[n].docs :
            CASE GenerateEmbedding = "vector" ->
                   threads' = [threads EXCEPT ![n].pc = "putDoc", ![n].item = d,
                                              ![n].docs = @ \ {d}]
              [] ModelMissing -> Go(n, "clear")
              [] OTHER -> threads' = [threads EXCEPT ![n].docs = @ \ {d}]
  /\ failed' = (failed \/ (threads[n].docs # {} /\ GenerateEmbedding # "vector"))
  /\ UNCHANGED <<ollama, rag, quarantined, active, named, embedded, embeddedDocCount,
                 embeddingInProgress, writer, requests, changes>>

(* Changed: the lock is not released.                                       *)
PutDocKeepsLock(n) ==
  /\ Holds(n, "putDoc")
  /\ embedded' = embedded \cup {threads[n].item}
  /\ embeddedDocCount' = embeddedDocCount + 1
  /\ threads' = [threads EXCEPT ![n].pc = "embed", ![n].item = None]
  /\ UNCHANGED <<ollama, rag, quarantined, active, named, embeddingInProgress, writer,
                 requests, failed, changes>>

PutDoc(n) ==
  /\ Holds(n, "putDoc")
  /\ embedded' = embedded \cup {threads[n].item}
  /\ embeddedDocCount' = embeddedDocCount + 1
  /\ threads' = [threads EXCEPT ![n].pc = "embed", ![n].item = None]
  /\ writer' = Nobody
  /\ UNCHANGED <<ollama, rag, quarantined, active, named, embeddingInProgress, requests,
                 failed, changes>>

(* The deferred store of the run; a retry first sleeps for half a minute.   *)
Finish(n) ==
  /\ threads[n].pc \in {"finish", "clear"}
  /\ embeddingInProgress' = FALSE
  /\ Leave(n, IF threads[n].pc = "clear" THEN "sleep" ELSE "done")
  /\ UNCHANGED <<ollama, rag, quarantined, active, named, embedded, embeddedDocCount,
                 writer, requests, failed, changes>>

(* Changed: the retry ends when the model is there.                         *)
PollOnly(n) ==
  /\ threads[n].pc = "sleep" /\ ollama = "ready"
  /\ embeddingInProgress' = FALSE
  /\ Go(n, "done")
  /\ UNCHANGED <<ollama, rag, quarantined, active, named, embedded, embeddedDocCount,
                 writer, requests, failed, changes>>

Poll(n) ==
  /\ threads[n].pc = "sleep" /\ ollama = "ready"
  /\ embeddingInProgress' = FALSE
  /\ Go(n, "trigger")
  /\ UNCHANGED <<ollama, rag, quarantined, active, named, embedded, embeddedDocCount,
                 writer, requests, failed, changes>>

Embed(n) ==
  \/ Swap(n) \/ Audit(n) \/ Trigger(n) \/ Start(n)
  \/ Lock(n) \/ Gather(n) \/ EmbedName(n) \/ PutName(n) \/ EmbedDoc(n) \/ PutDoc(n)
  \/ Finish(n) \/ Poll(n)

-----------------------------------------------------------------------------
(* The skills/toggle endpoint; the administrator's skills.                  *)
Toggle(s) ==
  /\ Serving /\ writer = Nobody /\ s \notin quarantined
  /\ active' = IF s \in active THEN active \ {s} ELSE active \cup {s}
  /\ UNCHANGED <<ollama, rag, quarantined, named, embedded, embeddedDocCount,
                 embeddingInProgress, writer, threads, requests, failed, changes>>

RequestStep(r, new) ==
  /\ requests' = [requests EXCEPT ![r] = new]
  /\ UNCHANGED <<ollama, rag, quarantined, active, named, embedded, embeddedDocCount,
                 embeddingInProgress, writer, threads, failed, changes>>

Chosen(r, skills) == [requests[r] EXCEPT !.pc = "next", !.left = skills]

(* injectSystemContext with a query, blank when no message of a user has    *)
(* text; DetectSkill takes skillsMu for reading.                            *)
Arrive(r) ==
  /\ requests[r].pc = "idle" /\ Serving /\ writer = Nobody
  /\ \E b \in BOOLEAN :
       RequestStep(r, [NoRequest EXCEPT !.pc = "detect", !.blank = b,
                                        !.clean = SkillIDs \ quarantined])

(* A header, a marker or keywords name a skill that is not quarantined.     *)
Named(r) ==
  /\ requests[r].pc = "detect"
  /\ \E s \in SkillIDs \ quarantined : RequestStep(r, Chosen(r, {s}))

(* None of them does: the nearest skill is asked for if the policy says so, *)
(* or else the administrator's skills are taken.                            *)
Unnamed(r) ==
  /\ requests[r].pc = "detect"
  /\ RequestStep(r, IF rag.on /\ rag.auto /\ ~requests[r].blank
                    THEN [requests[r] EXCEPT !.pc = "semantic"]
                    ELSE Chosen(r, active))

(* generateEmbedding of the query, skillsMu still held for reading.         *)
EmbedQuery(r) ==
  /\ requests[r].pc = "semantic"
  /\ RequestStep(r, IF GenerateEmbedding = "vector"
                    THEN [requests[r] EXCEPT !.pc = "nested"]
                    ELSE Chosen(r, active))

(* detectSkillSemantic takes skillsMu for reading once more.                *)
DetectSkillSemantic(r) ==
  /\ requests[r].pc = "nested" /\ writer = Nobody
  /\ \/ \E s \in named \ quarantined : RequestStep(r, Chosen(r, {s}))
     \/ RequestStep(r, Chosen(r, active))

(* BuildSkillContext, up to the search in the documents of the skill.       *)
(* Changed: the quarantine is not looked at again.                          *)
BuildTrusts(r) ==
  /\ requests[r].pc = "next" /\ writer = Nobody
  /\ \E s \in requests[r].left : \E about \in SUBSET DocsOf(s) :
       /\ requests[r].blank => about = {}
       /\ RequestStep(r, [requests[r] EXCEPT !.pc = "retrieve", !.skill = s,
                                             !.about = about, !.applied = @ \cup {s}])

Build(r) ==
  /\ requests[r].pc = "next" /\ writer = Nobody
  /\ \E s \in requests[r].left :
       IF s \in quarantined
       THEN RequestStep(r, [requests[r] EXCEPT !.left = @ \ {s}])
       ELSE \E about \in SUBSET DocsOf(s) :
              /\ requests[r].blank => about = {}
              /\ RequestStep(r, [requests[r] EXCEPT !.pc = "retrieve", !.skill = s,
                                                    !.about = about, !.applied = @ \cup {s}])

AtMostK(docs) ==
  {top \in SUBSET docs : Cardinality(top) = IF Cardinality(docs) > K THEN K ELSE Cardinality(docs)}

(* retrieveTopKSemantic: of the embedded ones, those the query is about     *)
(* first.                                                                   *)
TopKSemantic(docs, about) ==
  {top \in AtMostK(docs \cap embedded) :
     (about \cap embedded) \subseteq top \/ top \subseteq about}

(* retrieveTopK: those that share a word with the query; without a word to  *)
(* look for, the first ones.                                                *)
TopK(docs, about, blank) ==
  (IF about # {} \/ ~blank THEN AtMostK(about) ELSE {})
    \cup (IF about = {} THEN AtMostK(docs) ELSE {})

(* Changed: no search by words when nothing was embedded.                   *)
SemanticOnly(r) ==
  LET req == requests[r]
      docs == DocsOf(req.skill)
  IN /\ req.pc = "retrieve"
     /\ \E top \in IF rag.on /\ ~req.blank /\ GenerateEmbedding = "vector"
                   THEN TopKSemantic(docs, req.about)
                   ELSE TopK(docs, req.about, req.blank) :
          RequestStep(r, [req EXCEPT !.pc = "next", !.left = @ \ {req.skill}, !.skill = None,
                                     !.about = {}, !.got = top])

Retrieve(r) ==
  LET req == requests[r]
      docs == DocsOf(req.skill)
  IN /\ req.pc = "retrieve"
     /\ \E top \in IF rag.on /\ ~req.blank /\ GenerateEmbedding = "vector" /\ docs \cap embedded # {}
                   THEN TopKSemantic(docs, req.about)
                   ELSE TopK(docs, req.about, req.blank) :
          RequestStep(r, [req EXCEPT !.pc = "next", !.left = @ \ {req.skill}, !.skill = None,
                                     !.about = {}, !.got = top])

Answer(r) ==
  /\ requests[r].pc = "next" /\ requests[r].left = {}
  /\ RequestStep(r, NoRequest)

Serve(r) ==
  \/ Named(r) \/ Unnamed(r) \/ EmbedQuery(r) \/ DetectSkillSemantic(r)
  \/ Build(r) \/ Retrieve(r) \/ Answer(r)

Next ==
  \/ Change
  \/ \E n \in Loads : (\E p \in Policies : Load(n, p)) \/ Embed(n)
  \/ \E s \in SkillIDs : Toggle(s)
  \/ \E r \in Requests : Arrive(r) \/ Serve(r)

Spec == Init /\ [][Next]_vars

(* The scheduler runs every goroutine that can go on, calls of Ollama end   *)
(* (60 s, 2 s), sync.RWMutex lets a waiting writer in.                      *)
FairSpec ==
  /\ Spec
  /\ \A n \in Loads : WF_vars(Embed(n))
  /\ \A r \in Requests : WF_vars(Serve(r))

-----------------------------------------------------------------------------
(* Properties *)

Thread == [pc : {"idle", "swap", "audit", "trigger", "start", "gather", "name", "putName",
                 "embed", "putDoc", "finish", "clear", "sleep", "done"},
           policy : Policies, names : SUBSET SkillIDs, docs : SUBSET Docs,
           item : SkillIDs \cup Docs \cup {None}]
Request == [pc : {"idle", "detect", "semantic", "nested", "next", "retrieve"}, blank : BOOLEAN,
            left : SUBSET SkillIDs, skill : SkillIDs \cup {None}, about : SUBSET Docs,
            got : SUBSET Docs, applied : SUBSET SkillIDs, clean : SUBSET SkillIDs]

TypeOK ==
  /\ ollama \in {"ready", "missing", "down"}
  /\ rag \in [on : BOOLEAN, auto : BOOLEAN]
  /\ quarantined \subseteq SkillIDs /\ active \subseteq SkillIDs /\ named \subseteq SkillIDs
  /\ embedded \subseteq Docs /\ embeddedDocCount \in Nat
  /\ embeddingInProgress \in BOOLEAN /\ failed \in BOOLEAN
  /\ writer \in Loads \cup {Nobody}
  /\ threads \in [Loads -> Thread] /\ requests \in [Requests -> Request]

(* skillscan.go:14-18 and skills.go:570-575: whatever was activated,        *)
(* detected or being built when a policy was loaded, no context holds a     *)
(* skill that was quarantined for the whole of its request.                 *)
QuarantineHolds == \A r \in Requests : requests[r].applied \subseteq requests[r].clean

(* A context leaves out a document that the query is about, for one it is   *)
(* not about or for nothing, only while a run embeds the documents or after *)
(* the embedding of one failed: the others are then never searched.         *)
LeavesOut(r) ==
  /\ requests[r].pc = "retrieve" /\ requests'[r].pc = "next"
  /\ ~ (requests[r].about \subseteq requests'[r].got)
  /\ Cardinality(requests'[r].got) < K \/ ~ (requests'[r].got \subseteq requests[r].about)

FindsUnlessPartial ==
  [][\A r \in Requests : LeavesOut(r) => failed \/ \E n \in Loads : Running(n)]_vars

(* A reader that waits for skillsMu behind a writer that waits for it.      *)
Nested == writer # Nobody /\ \E r \in Requests : requests[r].pc = "nested"

(* A run that found the model missing is made up for once Ollama has it for *)
(* good, or else the lock is stuck.                                         *)
MissingIsRetried ==
  \A n \in Loads :
    [](threads[n].pc = "sleep" /\ [](ollama = "ready") => <>(embedded # {} \/ Nested))

(* Every request gets its context, every run ends or waits for a missing    *)
(* model, unless the nested read lock meets a run that wants to write.      *)
AnsweredUnlessNested ==
  /\ \A r \in Requests : requests[r].pc # "idle" ~> requests[r].pc = "idle" \/ Nested
  /\ \A n \in Loads : threads[n].pc \notin {"idle", "sleep"}
                        ~> threads[n].pc \in {"sleep", "done"} \/ Nested
=============================================================================
