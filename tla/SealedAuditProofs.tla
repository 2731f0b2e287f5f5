------------------------- MODULE SealedAuditProofs -------------------------
(* Proofs about SealedAudit.  First its types, whatever the disk does; then *)
(* the integrity of the files when writes are whole and the disk keeps them.*)
EXTENDS SealedAudit, SequenceTheorems, TLAPS

-----------------------------------------------------------------------------
(* Files *)

LEMMA FileUpdate ==
  ASSUME NEW T, NEW f, FileOK(f, T), NEW s \in Seq(T), NEW b \in BOOLEAN,
         Len(s) \in Nat, Len(s) >= Len(f.lines)
  PROVE  LET g == [f EXCEPT !.lines = s, !.open = b]
             k == [g EXCEPT !.synced = Len(g.lines)]
         IN  FileOK(g, T) /\ FileOK(k, T) /\ g.lines = s /\ k.lines = s
<1> DEFINE g == [f EXCEPT !.lines = s, !.open = b]
           k == [g EXCEPT !.synced = Len(g.lines)]
<1>1. f \in File(T) /\ f.synced <= Len(f.lines) /\ f.synced \in Nat /\ Len(f.lines) \in Nat
  BY DEF FileOK, File
<1>2. g \in File(T) /\ g.lines = s /\ g.synced = f.synced
  BY <1>1 DEF File
<1>3. g.synced <= Len(g.lines)
  BY <1>1, <1>2
<1> HIDE DEF g
<1>4. k \in File(T) /\ k.lines = s /\ k.synced = Len(s)
  BY <1>2 DEF File
<1>5. QED BY <1>2, <1>3, <1>4 DEF FileOK, g

LEMMA GlueType ==
  ASSUME NEW T, Junk \in T, NEW f, FileOK(f, T), NEW line \in T
  PROVE  /\ Glue(f, line) \in Seq(T)
         /\ Len(Glue(f, line)) \in Nat
         /\ Len(Glue(f, line)) >= Len(f.lines)
<1>1. f.lines \in Seq(T) /\ Len(f.lines) \in Nat
  BY DEF FileOK, File
<1>2. CASE f.open
  <2>1. Glue(f, line) = [f.lines EXCEPT ![Len(f.lines)] = Junk]
    BY <1>2 DEF Glue
  <2>2. CASE Len(f.lines) = 0
    <3>1. DOMAIN f.lines = 1 .. 0
      BY <1>1, <2>2, LenProperties
    <3>2. [f.lines EXCEPT ![Len(f.lines)] = Junk] = f.lines
      BY <1>1, <2>2, <3>1
    <3>3. Glue(f, line) = f.lines
      BY <2>1, <3>2
    <3>4. QED BY <1>1, <3>3
  <2>3. CASE Len(f.lines) # 0
    <3>1. Len(f.lines) \in 1 .. Len(f.lines)
      BY <1>1, <2>3
    <3>2. QED BY <1>1, <2>1, <3>1, ExceptSeq
  <2>4. QED BY <2>2, <2>3
<1>3. CASE ~f.open
  BY <1>1, <1>3, AppendProperties DEF Glue
<1>4. QED BY <1>2, <1>3

LEMMA WrittenType ==
  ASSUME NEW T, Junk \in T, NEW f, FileOK(f, T), NEW line \in T,
         NEW g \in Written(f, line)
  PROVE  FileOK(g, T)
<1> DEFINE h == [f EXCEPT !.lines = Glue(f, line), !.open = FALSE]
           k == [h EXCEPT !.synced = Len(h.lines)]
<1>1. /\ Glue(f, line) \in Seq(T)
      /\ Len(Glue(f, line)) \in Nat
      /\ Len(Glue(f, line)) >= Len(f.lines)
  BY GlueType
<1>2. FileOK(h, T) /\ FileOK(k, T)
  BY <1>1, FileUpdate
<1>3. g = k \/ g = h
  BY DEF Written
<1>4. QED BY <1>2, <1>3

LEMMA CutType ==
  ASSUME NEW T, Junk \in T, NEW f, FileOK(f, T), NEW line \in T, NEW g \in Cut(f, line)
  PROVE  FileOK(g, T)
<1>2. ASSUME NEW l \in T
      PROVE  FileOK([f EXCEPT !.lines = Glue(f, l), !.open = TRUE], T)
  <2>1. /\ Glue(f, l) \in Seq(T)
        /\ Len(Glue(f, l)) \in Nat
        /\ Len(Glue(f, l)) >= Len(f.lines)
    BY GlueType
  <2>2. QED BY <2>1, FileUpdate
<1>3. g = f \/ \E l \in {Junk, line} : g = [f EXCEPT !.lines = Glue(f, l), !.open = TRUE]
  BY DEF Cut
<1>4. QED BY <1>2, <1>3

LEMMA TruncatedType ==
  ASSUME NEW T, NEW f, FileOK(f, T), NEW g \in Truncated(f)
  PROVE  FileOK(g, T)
<1>1. f.lines \in Seq(T) /\ Len(f.lines) \in Nat /\ f.synced \in Nat
  BY DEF FileOK, File
<1>2. PICK k \in f.synced .. Len(f.lines) :
        g = [lines |-> SubSeq(f.lines, 1, k), open |-> f.open /\ k = Len(f.lines), synced |-> k]
  BY DEF Truncated
<1>3. k \in Nat /\ k <= Len(f.lines)
  BY <1>1, <1>2
<1>4. SubSeq(f.lines, 1, k) \in Seq(T) /\ Len(SubSeq(f.lines, 1, k)) = k
  BY <1>1, <1>3
<1>5. QED BY <1>2, <1>3, <1>4 DEF FileOK, File

-----------------------------------------------------------------------------
(* Types *)

LEMMA NewRecordType ==
  ASSUME TypeOK, NEW ev \in Input
  PROVE  NewRecord(ev) \in Record
<1>1. ev \in Event /\ RoundTrip(ev) \in Event
  BY SealedAuditAssumption DEF Input, Event, RoundTrip
<1>2. eng.seq \in Nat /\ eng.prevHash \in Hash
  BY DEF TypeOK, EngineState
<1>3. Append(eng.prevHash, ev) \in Hash
  BY <1>1, <1>2 DEF Hash, Leaf
<1>4. QED BY <1>1, <1>2, <1>3 DEF NewRecord, SealedRecord, Record, LeafHash, NodeHash, Leaf

LEMMA NewQuoteType == TypeOK => NewQuote \in Quote
  BY DEF TypeOK, EngineState, NewQuote, Quote, MerkleRoot, Hash

LEMMA ZeroEngineType == ZeroEngine \in EngineState
<1>1. << >> \in Seq(Leaf)
  BY EmptySeq
<1>2. QED BY <1>1 DEF ZeroEngine, EngineState, Hash, ZeroHash

LEMMA IdleType == TypeOK => Idle \in AuditorState
<1>1. << >> \in Seq(Record \cup {Junk})
  BY EmptySeq
<1>2. QED BY <1>1 DEF TypeOK, Idle, AuditorState

LEMMA StoppedType ==
  ASSUME TypeOK, Stopped
  PROVE  /\ proc' = "down" /\ eng' \in EngineState /\ replay' \in ReplayState
         /\ auditor' \in AuditorState /\ acked' \subseteq Record
  BY ZeroEngineType, IdleType DEF TypeOK, Stopped, NoReplay, ReplayState

LEMMA SealType ==
  ASSUME TypeOK, SealDone \/ SealFails \/ NothingToSeal
  PROVE  /\ eng' \in EngineState /\ FileOK(sealFile', Quote \cup {Junk})
         /\ faults' \in 0 .. MaxFaults
<1> USE NewQuoteType
<1>1. FileOK(sealFile, Quote \cup {Junk}) /\ NewQuote \in Quote \cup {Junk}
      /\ eng \in EngineState /\ faults \in 0 .. MaxFaults
  BY DEF TypeOK
<1>2. CASE SealDone
  <2>1. FileOK(sealFile', Quote \cup {Junk})
    BY <1>1, <1>2, WrittenType DEF SealDone
  <2>2. eng' \in EngineState
    <3>1. << >> \in Seq(Leaf)
      BY EmptySeq
    <3>2. eng.pending \in Hash /\ eng.sealID + 1 \in Nat
      BY <1>1 DEF EngineState, Hash
    <3>3. eng' = [eng EXCEPT !.sealID = eng.sealID + 1, !.prevRoot = eng.pending,
                            !.pending = << >>, !.pendStart = 0]
      BY <1>2 DEF SealDone, MerkleRoot
    <3>4. QED BY <1>1, <3>1, <3>2, <3>3 DEF EngineState
  <2>3. QED BY <1>1, <1>2, <2>1, <2>2 DEF SealDone
<1>3. CASE SealFails
  <2>1. FileOK(sealFile', Quote \cup {Junk})
    BY <1>1, <1>3, CutType DEF SealFails
  <2>2. faults' \in 0 .. MaxFaults
    BY <1>1, <1>3, SealedAuditAssumption DEF SealFails, Fault
  <2>3. QED BY <1>1, <1>3, <2>1, <2>2 DEF SealFails
<1>4. CASE NothingToSeal
  BY <1>1, <1>4 DEF NothingToSeal
<1>5. QED BY <1>2, <1>3, <1>4

LEMMA DisableType ==
  Disable => proc' = "disabled" /\ eng' \in EngineState /\ replay' \in ReplayState
  BY ZeroEngineType DEF Disable, NoReplay, ReplayState

LEMMA TypeStep == TypeOK /\ [Next]_vars => TypeOK'
<1> SUFFICES ASSUME TypeOK, [Next]_vars PROVE TypeOK'
  OBVIOUS
<1> USE DEF TypeOK
<1>1. ASSUME NEW ev \in Input, AppendEvent(ev) PROVE TypeOK'
  <2>1. NewRecord(ev) \in Record
    BY NewRecordType
  <2>2. FileOK(logFile', Record \cup {Junk})
    BY <1>1, <2>1, WrittenType DEF AppendEvent
  <2>3. /\ NewRecord(ev).seq \in Nat /\ NewRecord(ev).rec \in Hash
        /\ NewRecord(ev).leaf \in Leaf
    BY <2>1 DEF Record
  <2>4. Append(eng.pending, NewRecord(ev).leaf) \in Seq(Leaf)
    BY <2>3 DEF EngineState
  <2>5. eng' \in EngineState
    BY <1>1, <2>3, <2>4 DEF AppendEvent, EngineState
  <2>6. QED BY <1>1, <2>1, <2>2, <2>5 DEF AppendEvent
<1>2. ASSUME NEW ev \in Input, AppendFails(ev) PROVE TypeOK'
  <2>1. FileOK(logFile', Record \cup {Junk})
    BY <1>2, NewRecordType, CutType DEF AppendFails
  <2>2. QED BY <1>2, <2>1, SealedAuditAssumption DEF AppendFails, Fault
<1>3. CASE SealTick
  BY <1>3, SealType DEF SealTick
<1>4. CASE Close
  BY <1>4, SealType DEF Close
<1>5. CASE Crash
  BY <1>5, StoppedType, SealedAuditAssumption DEF Crash, Fault
<1>6. ASSUME NEW ev \in Input, CrashInAppend(ev) PROVE TypeOK'
  <2>1. FileOK(logFile', Record \cup {Junk})
    BY <1>6, NewRecordType, WrittenType, CutType DEF CrashInAppend
  <2>2. QED BY <1>6, <2>1, StoppedType, SealedAuditAssumption DEF CrashInAppend, Fault
<1>7. CASE CrashInSeal
  <2>1. FileOK(sealFile', Quote \cup {Junk})
    BY <1>7, NewQuoteType, WrittenType, CutType DEF CrashInSeal
  <2>2. QED BY <1>7, <2>1, StoppedType, SealedAuditAssumption DEF CrashInSeal, Fault
<1>8. CASE PowerLoss
  <2>1. FileOK(logFile', Record \cup {Junk}) /\ FileOK(sealFile', Quote \cup {Junk})
    BY <1>8, TruncatedType DEF PowerLoss
  <2>2. QED BY <1>8, <2>1, StoppedType, SealedAuditAssumption DEF PowerLoss, Fault
<1>9. CASE Restart
  BY <1>9 DEF Restart
<1>10. CASE ReplaySeal
  <2> DEFINE q == sealFile.lines[replay.next]
  <2>1. CASE q = Junk
    BY <1>10, <2>1, DisableType DEF ReplaySeal
  <2>2. CASE q # Junk
    <3>1. replay.next \in 1 .. Len(sealFile.lines) /\ sealFile.lines \in Seq(Quote \cup {Junk})
      BY <1>10 DEF ReplaySeal, ReplayState, FileOK, File
    <3>2. q \in Quote
      BY <2>2, <3>1, ElementOfSeq
    <3>3. q.sealID \in Nat /\ q.root \in Hash /\ q.seqEnd \in Nat
      BY <3>2 DEF Quote
    <3>4. /\ eng' = [eng EXCEPT !.sealID = q.sealID, !.prevRoot = q.root]
          /\ replay' = [next |-> replay.next + 1, lastSealedSeq |-> q.seqEnd]
      BY <1>10, <2>2 DEF ReplaySeal
    <3> HIDE DEF q
    <3>5. eng' \in EngineState
      BY <3>3, <3>4 DEF EngineState
    <3>6. replay' \in ReplayState
      BY <3>3, <3>4 DEF ReplayState
    <3>7. QED BY <1>10, <2>2, <3>5, <3>6 DEF ReplaySeal, q
  <2>3. QED BY <2>1, <2>2
<1>11. CASE ReplaySealsDone
  BY <1>11 DEF ReplaySealsDone, ReplayState
<1>12. CASE ReplayRecord
  <2> DEFINE r == logFile.lines[replay.next]
  <2>1. CASE r = Junk
    BY <1>12, <2>1, DisableType DEF ReplayRecord
  <2>2. CASE r # Junk
    <3>1. replay.next \in 1 .. Len(logFile.lines) /\ logFile.lines \in Seq(Record \cup {Junk})
      BY <1>12 DEF ReplayRecord, ReplayState, FileOK, File
    <3>2. r \in Record
      BY <2>2, <3>1, ElementOfSeq
    <3>3. r.seq \in Nat /\ r.rec \in Hash /\ r.leaf \in Leaf
          /\ Append(eng.pending, r.leaf) \in Seq(Leaf)
      BY <3>2 DEF Record, EngineState
    <3>4. PICK p \in Seq(Leaf), n \in Nat :
            eng' = [eng EXCEPT !.seq = r.seq, !.prevHash = r.rec,
                               !.pending = p, !.pendStart = n]
      <4>1. eng.pending \in Seq(Leaf) /\ eng.pendStart \in Nat
        BY DEF EngineState
      <4>2. QED BY <1>12, <2>2, <3>3, <4>1 DEF ReplayRecord
    <3>5. eng' \in EngineState
      BY <3>3, <3>4 DEF EngineState
    <3>6. replay' \in ReplayState
      BY <1>12, <2>2 DEF ReplayRecord, ReplayState
    <3>7. QED BY <1>12, <2>2, <3>5, <3>6 DEF ReplayRecord
  <2>3. QED BY <2>1, <2>2
<1>13. CASE ReplayDone
  BY <1>13 DEF ReplayDone, NoReplay, ReplayState
<1>14. CASE VerifySeal
  BY <1>14, SealType DEF VerifySeal, AuditorState
<1>15. CASE VerifyReadLog
  <2>1. auditor' \in AuditorState
    <3>1. Idle \in AuditorState /\ logFile.lines \in Seq(Record \cup {Junk})
          /\ Len(sealFile.lines) \in Nat
      BY IdleType DEF FileOK, File
    <3>2. [Idle EXCEPT !.answer = "error", !.raced = FALSE] \in AuditorState
      BY <3>1 DEF AuditorState
    <3>3. [auditor EXCEPT !.pc = "readSeals", !.recs = logFile.lines,
                          !.seals = Len(sealFile.lines)] \in AuditorState
      BY <3>1 DEF AuditorState
    <3>4. QED BY <1>15, <3>2, <3>3 DEF VerifyReadLog
  <2>2. QED BY <1>15, <2>1 DEF VerifyReadLog
<1>16. CASE VerifyReadSeals
  <2>1. auditor' \in AuditorState
    <3> DEFINE a == IF HasJunk(sealFile.lines) THEN "error"
                    ELSE IF Clean(auditor.recs, sealFile.lines) THEN "clean" ELSE "problems"
               b == Len(sealFile.lines) > auditor.seals
    <3>1. a \in {"none", "clean", "problems", "error"}
      OBVIOUS
    <3>2. b \in BOOLEAN
      OBVIOUS
    <3>3. auditor' = [Idle EXCEPT !.answer = a, !.raced = b]
      BY <1>16 DEF VerifyReadSeals
    <3> HIDE DEF a, b
    <3>4. QED BY <3>1, <3>2, <3>3, IdleType DEF AuditorState
  <2>2. QED BY <1>16, <2>1 DEF VerifyReadSeals
<1>17. CASE UNCHANGED vars
  BY <1>17 DEF vars
<1>18. QED BY <1>1, <1>2, <1>3, <1>4, <1>5, <1>6, <1>7, <1>8, <1>9, <1>10, <1>11, <1>12,
       <1>13, <1>14, <1>15, <1>16, <1>17 DEF Next, Engine, Stops, New, Verify

LEMMA TypeInit == Init => TypeOK
<1>1. << >> \in Seq(Record \cup {Junk}) /\ << >> \in Seq(Quote \cup {Junk})
      /\ Len(<< >>) = 0
  BY EmptySeq
<1>2. QED BY <1>1, ZeroEngineType, SealedAuditAssumption
      DEF Init, TypeOK, NoReplay, ReplayState, EmptyFile, FileOK, File, AuditorState

(* The engine's fields, the files and the verifier keep their types through *)
(* any sequence of appends, seals, verifications, torn writes, lost tails,  *)
(* crashes and replays (engine.go, the Engine type; verify.go).             *)
THEOREM TypeInvariant == Spec => []TypeOK
BY TypeInit, TypeStep, PTL DEF Spec
-----------------------------------------------------------------------------
(* When writes are whole, the disk keeps them and texts are valid UTF-8,   *)
(* the files of the audit engine stay intact through every interleaving of *)
(* appends, seals, verifications, crashes and replays.                     *)

Faithful == TornWrites = FALSE /\ LossyDisk = FALSE /\ "cut" \notin Texts

-----------------------------------------------------------------------------
(* Leaves *)

LEMMA LeavesType ==
  ASSUME NEW recs \in Seq(Record), NEW a \in Nat \ {0}, NEW b \in Nat, b <= Len(recs)
  PROVE  /\ Leaves(recs, a, b) \in Seq(Leaf)
         /\ Len(Leaves(recs, a, b)) = IF a <= b THEN b + 1 - a ELSE 0
         /\ \A k \in 1 .. (b + 1 - a) : Leaves(recs, a, b)[k] = recs[a + k - 1].event
<1> DEFINE n == IF a <= b THEN b + 1 - a ELSE 0
           L == Leaves(recs, a, b)
<1>1. n \in Nat /\ 1 .. (b + 1 - a) = 1 .. n
  OBVIOUS
<1>2. L = [k \in 1 .. n |-> recs[a + k - 1].event]
  BY <1>1 DEF Leaves, LeafHash
<1>3. ASSUME NEW k \in 1 .. n PROVE recs[a + k - 1].event \in Leaf
  <2>1. a + k - 1 \in 1 .. Len(recs)
    BY <1>1
  <2>2. recs[a + k - 1] \in Record
    BY <2>1, ElementOfSeq
  <2>3. QED BY <2>2 DEF Record, Leaf
<1> HIDE DEF n
<1>4. L \in [1 .. n -> Leaf]
  BY <1>2, <1>3
<1>5. L \in Seq(Leaf)
  BY <1>1, <1>4, SeqDef
<1>6. Len(L) = n
  BY <1>1, <1>4, <1>5, LenProperties
<1>7. QED BY <1>1, <1>2, <1>5, <1>6 DEF n

LEMMA LeavesEmpty ==
  ASSUME NEW recs \in Seq(Record), NEW a \in Nat \ {0}, NEW b \in Nat, b <= Len(recs), b < a
  PROVE  Leaves(recs, a, b) = << >>
BY LeavesType, EmptySeq

LEMMA LeavesExtend ==
  ASSUME NEW recs \in Seq(Record), NEW a \in Nat \ {0}, NEW b \in Nat,
         b + 1 <= Len(recs), a <= b + 1
  PROVE  Leaves(recs, a, b + 1) = Append(Leaves(recs, a, b), recs[b + 1].event)
<1> DEFINE L == Leaves(recs, a, b)
           M == Leaves(recs, a, b + 1)
           e == recs[b + 1].event
<1>1. /\ Len(recs) \in Nat /\ b + 1 \in Nat /\ b <= Len(recs)
      /\ (IF a <= b THEN b + 1 - a ELSE 0) = b + 1 - a
      /\ (IF a <= b + 1 THEN (b + 1) + 1 - a ELSE 0) = b + 2 - a
      /\ (b + 1) + 1 - a = b + 2 - a
  OBVIOUS
<1>2. L \in Seq(Leaf) /\ Len(L) = b + 1 - a
      /\ \A k \in 1 .. (b + 1 - a) : L[k] = recs[a + k - 1].event
  <2>1. /\ L \in Seq(Leaf)
        /\ Len(L) = IF a <= b THEN b + 1 - a ELSE 0
        /\ \A k \in 1 .. (b + 1 - a) : L[k] = recs[a + k - 1].event
    BY <1>1, LeavesType
  <2> HIDE DEF L
  <2>2. QED BY <1>1, <2>1
<1>3. M \in Seq(Leaf) /\ Len(M) = b + 2 - a
      /\ \A k \in 1 .. (b + 2 - a) : M[k] = recs[a + k - 1].event
  <2>1. /\ M \in Seq(Leaf)
        /\ Len(M) = IF a <= b + 1 THEN (b + 1) + 1 - a ELSE 0
        /\ \A k \in 1 .. ((b + 1) + 1 - a) : M[k] = recs[a + k - 1].event
    BY <1>1, LeavesType
  <2> HIDE DEF M
  <2>2. QED BY <1>1, <2>1
<1>4. e \in Leaf
  <2>1. recs[b + 1] \in Record
    BY <1>1, ElementOfSeq
  <2>2. QED BY <2>1 DEF Record, Leaf
<1> HIDE DEF L, M, e
<1>5. /\ Append(L, e) \in Seq(Leaf) /\ Len(Append(L, e)) = b + 2 - a
      /\ \A k \in 1 .. (b + 1 - a) : Append(L, e)[k] = L[k]
      /\ Append(L, e)[b + 2 - a] = e
  BY <1>2, <1>4, AppendProperties
<1>6. ASSUME NEW k \in 1 .. Len(M) PROVE M[k] = Append(L, e)[k]
  <2>1. CASE k = b + 2 - a
    BY <1>3, <1>5, <2>1 DEF e
  <2>2. CASE k # b + 2 - a
    BY <1>2, <1>3, <1>5, <2>2
  <2>3. QED BY <2>1, <2>2
<1>7. M = Append(L, e)
  BY <1>3, <1>5, <1>6, SeqEqual
<1>8. QED BY <1>7 DEF L, M, e

LEMMA LeavesStable ==
  ASSUME NEW recs \in Seq(Record), NEW more \in Seq(Record),
         NEW a \in Nat \ {0}, NEW b \in Nat, b <= Len(recs), b <= Len(more),
         \A i \in 1 .. b : more[i] = recs[i]
  PROVE  Leaves(more, a, b) = Leaves(recs, a, b)
<1>1. ASSUME NEW k \in 1 .. (b + 1 - a)
      PROVE  more[a + k - 1] = recs[a + k - 1]
  OBVIOUS
<1>2. QED BY <1>1 DEF Leaves

-----------------------------------------------------------------------------
(* Growing the files *)

(* One more record, linked to the last, keeps the log a chain.              *)
LEMMA AddRecord ==
  ASSUME NEW recs, LogIntact(recs), NEW ev \in Event, ev.text # "cut"
  PROVE  LET n == Len(recs)
             r == SealedRecord(n + 1, ev, PrevRec(recs, n + 1))
         IN  LogIntact(Append(recs, r)) /\ r \in Record
<1> DEFINE n == Len(recs)
           p == PrevRec(recs, n + 1)
           r == SealedRecord(n + 1, ev, p)
           more == Append(recs, r)
<1>1. recs \in Seq(Record) /\ n \in Nat
  BY DEF LogIntact
<1>2. p \in Hash
  <2>1. CASE n = 0
    BY <2>1, EmptySeq DEF PrevRec, ZeroHash, Hash
  <2>2. CASE n # 0
    <3>1. n \in 1 .. Len(recs)
      BY <1>1, <2>2
    <3>2. recs[n] \in Record
      BY <1>1, <3>1, ElementOfSeq
    <3>3. QED BY <1>1, <2>2, <3>2 DEF PrevRec, Record
  <2>3. QED BY <2>1, <2>2
<1>3. RoundTrip(ev) = ev
  BY DEF RoundTrip
<1> HIDE DEF p
<1>4. r = [seq |-> n + 1, event |-> ev, leaf |-> ev, prev |-> p, rec |-> Append(p, ev)]
  BY <1>3 DEF SealedRecord, LeafHash, NodeHash
<1>5. r \in Record
  <2>1. ev \in Leaf
    BY DEF Leaf
  <2>2. Append(p, ev) \in Hash
    BY <1>2, <2>1, AppendProperties DEF Hash
  <2> HIDE DEF r
  <2> DEFINE h == Append(p, ev)
  <2>3. h \in Hash /\ r = [seq |-> n + 1, event |-> ev, leaf |-> ev, prev |-> p, rec |-> h]
    BY <1>4, <2>2
  <2> HIDE DEF h
  <2>4. n + 1 \in Nat
    BY <1>1
  <2>5. QED BY <1>2, <2>1, <2>3, <2>4 DEF Record
<1>6. /\ more \in Seq(Record) /\ Len(more) = n + 1
      /\ \A i \in 1 .. n : more[i] = recs[i]
      /\ more[n + 1] = r
  BY <1>1, <1>5, AppendProperties
<1> HIDE DEF more, r
<1>7. ASSUME NEW i \in 1 .. n PROVE RecordOK(more, i)
  <2>1. RecordOK(recs, i) /\ more[i] = recs[i] /\ (i # 1 => i - 1 \in 1 .. n)
    BY <1>1, <1>6 DEF LogIntact
  <2>2. PrevRec(more, i) = PrevRec(recs, i)
    BY <1>6, <2>1 DEF PrevRec
  <2>3. QED BY <2>1, <2>2 DEF RecordOK
<1>8. RecordOK(more, n + 1)
  <2>1. PrevRec(more, n + 1) = p
    BY <1>1, <1>6 DEF PrevRec, p
  <2>2. QED BY <1>4, <1>6, <2>1 DEF RecordOK, LeafHash, NodeHash
<1>9. QED BY <1>1, <1>5, <1>6, <1>7, <1>8 DEF LogIntact, more, r, p

(* The seals of a log are the seals of any longer log.                      *)
LEMMA SealsStable ==
  ASSUME NEW recs, NEW quotes, NEW more, LogIntact(recs), LogIntact(more),
         Len(recs) <= Len(more), \A i \in 1 .. Len(recs) : more[i] = recs[i],
         SealsIntact(recs, quotes)
  PROVE  SealsIntact(more, quotes)
<1>1. /\ recs \in Seq(Record) /\ more \in Seq(Record) /\ quotes \in Seq(Quote)
      /\ Len(recs) \in Nat /\ Len(more) \in Nat /\ Len(quotes) \in Nat
  BY DEF LogIntact, SealsIntact
<1>2. ASSUME NEW j \in 1 .. Len(quotes)
      PROVE  QuoteOK(more, quotes, j) /\ quotes[j].seqEnd <= Len(recs) /\ quotes[j] \in Quote
             /\ quotes[j].seqEnd \in Nat /\ quotes[j].seqStart \in Nat \ {0}
  <2>1. quotes[j] \in Quote
    BY <1>1, ElementOfSeq
  <2>2. quotes[j].seqEnd \in Nat /\ quotes[j].seqStart \in Nat
    BY <2>1 DEF Quote
  <2>3. SealEnd(quotes, j - 1) \in Nat
    <3>1. CASE j = 1
      BY <3>1 DEF SealEnd
    <3>2. CASE j # 1
      <4>1. j - 1 \in 1 .. Len(quotes)
        BY <1>1, <3>2
      <4>2. quotes[j - 1] \in Quote
        BY <1>1, <4>1, ElementOfSeq
      <4>3. QED BY <3>2, <4>2 DEF SealEnd, Quote
    <3>3. QED BY <3>1, <3>2
  <2>4. quotes[j].seqStart = 1 + SealEnd(quotes, j - 1)
    BY DEF SealsIntact, Contiguous
  <2>5. quotes[j].seqStart \in Nat \ {0}
    BY <2>2, <2>3, <2>4
  <2>6. QuoteOK(recs, quotes, j)
    BY DEF SealsIntact
  <2>7. Leaves(more, quotes[j].seqStart, quotes[j].seqEnd)
          = Leaves(recs, quotes[j].seqStart, quotes[j].seqEnd)
    <3> DEFINE a == quotes[j].seqStart
               b == quotes[j].seqEnd
    <3>1. a \in Nat \ {0} /\ b \in Nat
      BY <2>2, <2>5
    <3>2. b <= Len(recs)
      BY <2>6 DEF QuoteOK
    <3> HIDE DEF a, b
    <3>3. b <= Len(more) /\ \A i \in 1 .. b : more[i] = recs[i]
      BY <1>1, <3>1, <3>2
    <3>4. Leaves(more, a, b) = Leaves(recs, a, b)
      BY <1>1, <3>1, <3>2, <3>3, LeavesStable
    <3>5. QED BY <3>4 DEF a, b
  <2>8. QED BY <1>1, <2>1, <2>2, <2>5, <2>6, <2>7 DEF QuoteOK
<1>3. ASSUME NEW i \in 1 .. SealEnd(quotes, Len(quotes))
      PROVE  \E j \in 1 .. Len(quotes) : Attests(more, quotes[j], i)
  <2>1. PICK j \in 1 .. Len(quotes) : Attests(recs, quotes[j], i)
    BY DEF SealsIntact
  <2>2. i \in 1 .. Len(recs)
    BY <1>1, <1>2, <2>1 DEF Attests
  <2>3. QED BY <2>1, <2>2 DEF Attests
<1>4. QED BY <1>1, <1>2, <1>3 DEF SealsIntact

(* The end of each seal, and of the last, is a place in the log.            *)
LEMMA SealEndType ==
  ASSUME NEW recs, NEW quotes, LogIntact(recs), SealsIntact(recs, quotes),
         NEW j \in 0 .. Len(quotes)
  PROVE  /\ SealEnd(quotes, j) \in Nat /\ SealEnd(quotes, j) <= Len(recs)
         /\ SealEnd(quotes, j) <= SealEnd(quotes, Len(quotes))
<1>1. ASSUME NEW k \in 1 .. Len(quotes)
      PROVE  /\ quotes[k].seqEnd \in Nat /\ quotes[k].seqEnd <= Len(recs)
             /\ quotes[k].seqEnd <= SealEnd(quotes, Len(quotes))
  <2>1. quotes[k] \in Quote
    BY ElementOfSeq DEF SealsIntact
  <2>2. QED BY <2>1 DEF SealsIntact, QuoteOK, Quote
<1>2. Len(recs) \in Nat /\ Len(quotes) \in Nat
  BY DEF LogIntact, SealsIntact
<1>3. CASE j = 0
  <2>1. CASE Len(quotes) = 0
    BY <1>2, <1>3, <2>1 DEF SealEnd
  <2>2. CASE Len(quotes) # 0
    BY <1>1, <1>2, <1>3, <2>2 DEF SealEnd
  <2>3. QED BY <2>1, <2>2
<1>4. CASE j # 0
  BY <1>1, <1>2, <1>4 DEF SealEnd
<1>5. QED BY <1>3, <1>4

(* Sealing what is pending extends the partition by one batch.              *)
LEMMA AddQuote ==
  ASSUME NEW recs, NEW quotes, NEW e, LogIntact(recs), SealsIntact(recs, quotes),
         EngineAt(e, recs, quotes, Len(recs)), e.pending # << >>,
         e.prevRoot \in Hash,
         NEW q, q = [sealID |-> e.sealID + 1, seqStart |-> e.pendStart, seqEnd |-> e.seq,
                     root |-> e.pending, prevRoot |-> e.prevRoot]
  PROVE  /\ q \in Quote /\ q.seqEnd = Len(recs)
         /\ SealsIntact(recs, Append(quotes, q))
<1> DEFINE n == Len(recs)
           m == Len(quotes)
           done == SealEnd(quotes, m)
           more == Append(quotes, q)
<1>1. /\ recs \in Seq(Record) /\ quotes \in Seq(Quote) /\ n \in Nat /\ m \in Nat
  BY DEF LogIntact, SealsIntact
<1>2. done \in Nat /\ done <= n
  BY <1>1, SealEndType
<1>3. /\ e.seq = n /\ e.sealID = m /\ e.prevRoot = PrevRoot(quotes, m + 1)
      /\ e.pending = Leaves(recs, done + 1, n)
      /\ e.pendStart = IF n <= done THEN 0 ELSE done + 1
  BY DEF EngineAt
<1> HIDE DEF done
<1>4. done < n
  <2>1. SUFFICES ASSUME done >= n PROVE FALSE
    BY <1>1, <1>2
  <2>2. done + 1 \in Nat \ {0} /\ n < done + 1 /\ n <= Len(recs)
    BY <1>1, <1>2, <2>1
  <2>3. Leaves(recs, done + 1, n) = << >>
    BY <1>1, <2>2, LeavesEmpty
  <2>4. QED BY <1>3, <2>3
<1>5. e.pendStart = done + 1
  BY <1>1, <1>2, <1>3, <1>4
<1>6. /\ e.pending \in Seq(Leaf)
      /\ \A k \in 1 .. (n + 1 - (done + 1)) : e.pending[k] = recs[done + 1 + k - 1].event
  <2>1. done + 1 \in Nat \ {0}
    BY <1>2
  <2> DEFINE a == done + 1
  <2>2. a \in Nat \ {0} /\ n \in Nat /\ n <= Len(recs) /\ e.pending = Leaves(recs, a, n)
    BY <1>1, <1>3, <2>1
  <2> HIDE DEF a
  <2>3. /\ Leaves(recs, a, n) \in Seq(Leaf)
        /\ \A k \in 1 .. (n + 1 - a) : Leaves(recs, a, n)[k] = recs[a + k - 1].event
    BY <1>1, <2>2, LeavesType
  <2>4. QED BY <2>2, <2>3 DEF a
<1>7. q \in Quote
  <2>1. /\ e.sealID + 1 \in Nat /\ e.pendStart \in Nat /\ e.seq \in Nat
        /\ e.pending \in Hash
    BY <1>1, <1>2, <1>3, <1>5, <1>6 DEF Hash
  <2>2. QED BY <2>1 DEF Quote
<1>8. /\ q.sealID = m + 1 /\ q.seqStart = done + 1 /\ q.seqEnd = n
      /\ q.root = e.pending /\ q.prevRoot = PrevRoot(quotes, m + 1)
  BY <1>3, <1>5
<1>9. /\ more \in Seq(Quote) /\ Len(more) = m + 1
      /\ \A j \in 1 .. m : more[j] = quotes[j]
      /\ more[m + 1] = q
  BY <1>1, <1>7, AppendProperties
<1> HIDE DEF more
<1>10. SealEnd(more, m + 1) = n /\ \A j \in 0 .. m : SealEnd(more, j) = SealEnd(quotes, j)
  BY <1>1, <1>8, <1>9 DEF SealEnd
<1>11. ASSUME NEW j \in 1 .. m + 1 PROVE QuoteOK(recs, more, j)
  <2>1. CASE j = m + 1
    <3>1. PrevRoot(more, m + 1) = PrevRoot(quotes, m + 1)
      BY <1>1, <1>9 DEF PrevRoot
    <3>2. QED BY <1>1, <1>3, <1>8, <1>9, <2>1, <3>1 DEF QuoteOK, MerkleRoot
  <2>2. CASE j # m + 1
    <3>1. j \in 1 .. m /\ more[j] = quotes[j] /\ (j # 1 => j - 1 \in 1 .. m)
      BY <1>1, <1>9, <2>2
    <3>2. PrevRoot(more, j) = PrevRoot(quotes, j)
      BY <1>9, <3>1 DEF PrevRoot
    <3>3. QED BY <3>1, <3>2 DEF SealsIntact, QuoteOK
  <2>3. QED BY <2>1, <2>2
<1>12. Contiguous(more)
  <2>1. ASSUME NEW j \in 1 .. m + 1
        PROVE  /\ more[j].seqStart = 1 + SealEnd(more, j - 1)
               /\ more[j].seqStart <= more[j].seqEnd /\ more[j].sealID = j
    <3>1. CASE j = m + 1
      <4>1. SealEnd(more, j - 1) = done
        BY <1>1, <1>10, <3>1 DEF done
      <4>2. QED BY <1>1, <1>2, <1>4, <1>8, <1>9, <3>1, <4>1
    <3>2. CASE j # m + 1
      <4>1. j \in 1 .. m /\ j - 1 \in 0 .. m
        BY <1>1, <3>2
      <4>2. QED BY <1>9, <1>10, <4>1 DEF SealsIntact, Contiguous
    <3>3. QED BY <3>1, <3>2
  <2>2. QED BY <1>9, <2>1 DEF Contiguous
<1>13. ASSUME NEW j \in 1 .. m + 1 PROVE more[j].seqEnd <= n
  <2>1. CASE j = m + 1
    BY <1>1, <1>8, <1>9, <2>1
  <2>2. CASE j # m + 1
    <3>1. j \in 1 .. m
      BY <1>1, <2>2
    <3>2. QED BY <1>9, <3>1 DEF SealsIntact, QuoteOK
  <2>3. QED BY <2>1, <2>2
<1>14. ASSUME NEW i \in 1 .. n PROVE \E j \in 1 .. m + 1 : Attests(recs, more[j], i)
  <2>1. CASE i <= done
    <3>1. PICK j \in 1 .. m : Attests(recs, quotes[j], i)
      BY <1>1, <1>2, <2>1 DEF SealsIntact, done
    <3>2. j \in 1 .. m + 1 /\ more[j] = quotes[j]
      BY <1>1, <1>9
    <3>3. QED BY <3>1, <3>2
  <2>2. CASE i > done
    <3> DEFINE k == i + 1 - (done + 1)
    <3>1. k \in 1 .. (n + 1 - (done + 1)) /\ done + 1 + k - 1 = i /\ i \in done + 1 .. n
      BY <1>1, <1>2, <2>2
    <3>2. e.pending[k] = recs[i].event
      BY <1>6, <3>1
    <3>3. recs[i].leaf = recs[i].event
      BY DEF LogIntact, RecordOK, LeafHash
    <3>4. q.root[i + 1 - q.seqStart] = recs[i].leaf
      BY <1>8, <3>2, <3>3
    <3>5. Attests(recs, more[m + 1], i)
      BY <1>8, <1>9, <3>1, <3>4 DEF Attests
    <3>6. QED BY <1>1, <3>5
  <2>3. QED BY <1>1, <1>2, <2>1, <2>2
<1>15. SealsIntact(recs, more)
  BY <1>1, <1>9, <1>10, <1>11, <1>12, <1>13, <1>14 DEF SealsIntact
<1>16. QED BY <1>7, <1>8, <1>15 DEF more

-----------------------------------------------------------------------------
(* Following the files *)

(* An engine that reads the next record is one record further.              *)
LEMMA EngineAdvance ==
  ASSUME NEW recs, NEW quotes, NEW e, NEW n \in Nat, LogIntact(recs), SealsIntact(recs, quotes),
         EngineAt(e, recs, quotes, n), n + 1 <= Len(recs),
         NEW f, NEW r, r = recs[n + 1],
         LET fresh == r.seq > SealEnd(quotes, Len(quotes)) IN
         /\ f.seq = r.seq /\ f.prevHash = r.rec
         /\ f.sealID = e.sealID /\ f.prevRoot = e.prevRoot
         /\ f.pending = IF fresh THEN Append(e.pending, r.leaf) ELSE e.pending
         /\ f.pendStart = IF fresh /\ e.pending = << >> THEN r.seq ELSE e.pendStart
  PROVE  EngineAt(f, recs, quotes, n + 1)
<1> DEFINE m == Len(quotes)
           done == SealEnd(quotes, m)
<1>1. recs \in Seq(Record) /\ quotes \in Seq(Quote) /\ Len(recs) \in Nat /\ m \in Nat
  BY DEF LogIntact, SealsIntact
<1>2. done \in Nat /\ done <= Len(recs)
  BY <1>1, SealEndType
<1>3. RecordOK(recs, n + 1)
  BY <1>1 DEF LogIntact
<1>4. r.seq = n + 1 /\ r.leaf = r.event
  BY <1>3 DEF RecordOK, LeafHash
<1>5. /\ e.pending = Leaves(recs, done + 1, n)
      /\ e.pendStart = IF n <= done THEN 0 ELSE done + 1
      /\ e.sealID = m /\ e.prevRoot = PrevRoot(quotes, m + 1)
  BY DEF EngineAt
<1>6. f.prevHash = PrevRec(recs, (n + 1) + 1)
  BY <1>1 DEF PrevRec
<1>7. /\ f.pending = IF r.seq > done THEN Append(e.pending, r.leaf) ELSE e.pending
      /\ f.pendStart = IF r.seq > done /\ e.pending = << >> THEN r.seq ELSE e.pendStart
      /\ f.seq = n + 1 /\ f.sealID = m /\ f.prevRoot = PrevRoot(quotes, m + 1)
  BY <1>4, <1>5
<1> DEFINE a == done + 1
<1>8. a \in Nat \ {0} /\ n <= Len(recs)
  BY <1>1, <1>2
<1> HIDE DEF done, m, a
<1>9. CASE n + 1 <= done
  <2>1. ~(r.seq > done) /\ n < a /\ n + 1 < a
    BY <1>2, <1>4, <1>9 DEF a
  <2>2. Leaves(recs, a, n) = << >> /\ Leaves(recs, a, n + 1) = << >>
    BY <1>1, <1>8, <2>1, LeavesEmpty
  <2>3. f.pending = Leaves(recs, a, n + 1)
    BY <1>5, <1>7, <2>1, <2>2 DEF a
  <2>4. f.pendStart = 0
    BY <1>2, <1>5, <1>7, <1>9, <2>1
  <2>5. QED BY <1>6, <1>7, <1>9, <2>3, <2>4 DEF EngineAt, a, m, done
<1>10. CASE n + 1 > done
  <2>1. r.seq > done /\ a <= n + 1
    BY <1>2, <1>4, <1>10 DEF a
  <2>2. Leaves(recs, a, n + 1) = Append(Leaves(recs, a, n), recs[n + 1].event)
    BY <1>1, <1>8, <2>1, LeavesExtend
  <2>3. f.pending = Leaves(recs, a, n + 1)
    BY <1>4, <1>5, <1>7, <2>1, <2>2 DEF a
  <2>4. f.pendStart = a
    <3>1. CASE n <= done
      <4>1. n < a /\ r.seq = a
        BY <1>2, <1>4, <1>10, <3>1 DEF a
      <4>2. e.pending = << >>
        BY <1>1, <1>5, <1>8, <4>1, LeavesEmpty DEF a
      <4>3. QED BY <1>7, <2>1, <4>1, <4>2
    <3>2. CASE n > done
      <4>1. a <= n /\ ~(n <= done)
        BY <1>2, <3>2 DEF a
      <4>2. Len(Leaves(recs, a, n)) = IF a <= n THEN n + 1 - a ELSE 0
        BY <1>1, <1>8, LeavesType
      <4>3. Len(Leaves(recs, a, n)) # 0
        BY <1>8, <4>1, <4>2
      <4>4. e.pending # << >>
        BY <1>5, <4>3, EmptySeq DEF a
      <4>5. QED BY <1>5, <1>7, <4>1, <4>4 DEF a
    <3>3. QED BY <1>2, <3>1, <3>2
  <2>5. ~(n + 1 <= done)
    BY <1>2, <1>10
  <2>6. QED BY <1>6, <1>7, <2>3, <2>4, <2>5 DEF EngineAt, a, m, done
<1>11. QED BY <1>2, <1>9, <1>10

(* Where an engine stands does not change when the log grows behind it.     *)
LEMMA EngineStable ==
  ASSUME NEW recs, NEW more, NEW quotes, NEW e, NEW n \in Nat,
         LogIntact(recs), LogIntact(more), SealsIntact(recs, quotes),
         n <= Len(recs), Len(recs) <= Len(more),
         \A i \in 1 .. Len(recs) : more[i] = recs[i], EngineAt(e, recs, quotes, n)
  PROVE  EngineAt(e, more, quotes, n)
<1>1. recs \in Seq(Record) /\ more \in Seq(Record) /\ quotes \in Seq(Quote)
      /\ Len(recs) \in Nat /\ Len(more) \in Nat
  BY DEF LogIntact, SealsIntact
<1> DEFINE a == SealEnd(quotes, Len(quotes)) + 1
<1>2. a \in Nat \ {0}
  BY <1>1, SealEndType
<1> HIDE DEF a
<1>3. n <= Len(more) /\ \A i \in 1 .. n : more[i] = recs[i]
  BY <1>1
<1>4. Leaves(more, a, n) = Leaves(recs, a, n)
  BY <1>1, <1>2, <1>3, LeavesStable
<1>5. PrevRec(more, n + 1) = PrevRec(recs, n + 1)
  BY <1>1 DEF PrevRec
<1>6. QED BY <1>4, <1>5 DEF EngineAt, a

-----------------------------------------------------------------------------
(* Whole writes *)

LEMMA WholeWrite ==
  ASSUME Faithful, NEW T, NEW f, FileOK(f, T), ~f.open, NEW line, NEW g \in Written(f, line)
  PROVE  g.lines = Append(f.lines, line) /\ ~g.open
<1> DEFINE h == [f EXCEPT !.lines = Append(f.lines, line), !.open = FALSE]
<1>1. Glue(f, line) = Append(f.lines, line)
  BY DEF Glue
<1>2. g = [h EXCEPT !.synced = Len(h.lines)]
  BY <1>1 DEF Written, Faithful
<1>3. h.lines = Append(f.lines, line) /\ h.open = FALSE /\ DOMAIN h = {"lines", "open", "synced"}
  BY DEF FileOK, File
<1> HIDE DEF h
<1>4. QED BY <1>2, <1>3

LEMMA WholeCut ==
  ASSUME Faithful, NEW f, NEW line, NEW g \in Cut(f, line)
  PROVE  g = f
BY DEF Cut, Faithful

LEMMA NoJunk ==
  ASSUME NEW T, Junk \notin T, NEW lines \in Seq(T)
  PROVE  ~HasJunk(lines)
BY ElementOfSeq DEF HasJunk

(* A running engine's next record is the one AddRecord adds.                *)
LEMMA NextRecord ==
  ASSUME Faithful, TypeOK, Intact, proc = "up", NEW ev \in Input
  PROVE  LET r == NewRecord(ev)
             more == Append(logFile.lines, r)
             n == Len(logFile.lines)
         IN  /\ r \in Record /\ r.seq = n + 1 /\ n \in Nat
             /\ LogIntact(more) /\ Len(more) = n + 1 /\ more[n + 1] = r
             /\ \A i \in 1 .. n : more[i] = logFile.lines[i]
             /\ SealsIntact(more, sealFile.lines)
<1> DEFINE recs == logFile.lines
           n == Len(recs)
           r == NewRecord(ev)
<1>1. LogIntact(recs) /\ SealsIntact(recs, sealFile.lines) /\ recs \in Seq(Record) /\ n \in Nat
  BY DEF Intact, FilesIntact, LogIntact
<1>2. eng.seq = n /\ eng.prevHash = PrevRec(recs, n + 1)
  BY DEF Intact, EngineIntact, EngineAt
<1>3. r = SealedRecord(n + 1, ev, PrevRec(recs, n + 1))
  BY <1>2 DEF NewRecord
<1>4. ev \in Event /\ ev.text # "cut"
  BY SealedAuditAssumption DEF Input, Event, Faithful
<1> HIDE DEF recs, r
<1>5. LogIntact(Append(recs, r)) /\ r \in Record
  BY <1>1, <1>3, <1>4, AddRecord
<1>6. r.seq = n + 1
  BY <1>3 DEF SealedRecord
<1>7. /\ Len(Append(recs, r)) = n + 1 /\ Append(recs, r)[n + 1] = r
      /\ \A i \in 1 .. n : Append(recs, r)[i] = recs[i]
  BY <1>1, <1>5, AppendProperties
<1>8. SealsIntact(Append(recs, r), sealFile.lines)
  <2> DEFINE more == Append(recs, r)
             quotes == sealFile.lines
  <2>1. /\ LogIntact(recs) /\ LogIntact(more) /\ SealsIntact(recs, quotes)
        /\ Len(recs) <= Len(more) /\ \A i \in 1 .. Len(recs) : more[i] = recs[i]
    BY <1>1, <1>5, <1>7
  <2> HIDE DEF more, quotes
  <2>2. SealsIntact(more, quotes)
    BY <2>1, SealsStable
  <2>3. QED BY <2>2 DEF more, quotes
<1>9. QED BY <1>1, <1>5, <1>6, <1>7, <1>8 DEF recs, r

(* Where the two files only grew, what the verifier and the callers of      *)
(* Append hold stays true.                                                  *)
LogGrew == /\ Len(logFile.lines) <= Len(logFile'.lines)
           /\ \A i \in 1 .. Len(logFile.lines) : logFile'.lines[i] = logFile.lines[i]
SealsGrew == /\ Len(sealFile.lines) <= Len(sealFile'.lines)
             /\ \A j \in 1 .. Len(sealFile.lines) : sealFile'.lines[j] = sealFile.lines[j]

LEMMA AuditorKept ==
  ASSUME TypeOK, TypeOK', AuditorIntact, LogGrew, SealsGrew,
         auditor'.answer = auditor.answer, auditor'.raced = auditor.raced,
         auditor' = auditor \/ auditor'.pc # "readSeals"
  PROVE  AuditorIntact'
<1>1. /\ Len(logFile.lines) \in Nat /\ Len(sealFile.lines) \in Nat
      /\ Len(logFile'.lines) \in Nat /\ Len(sealFile'.lines) \in Nat
  BY DEF TypeOK, FileOK, File
<1>2. AlarmOnlyIfRaced'
  BY DEF AuditorIntact, AlarmOnlyIfRaced
<1>3. ASSUME auditor'.pc = "readSeals"
      PROVE  /\ auditor'.recs \in Seq(Record)
             /\ Len(auditor'.recs) <= Len(logFile'.lines)
             /\ \A i \in 1 .. Len(auditor'.recs) : auditor'.recs[i] = logFile'.lines[i]
             /\ auditor'.seals <= Len(sealFile'.lines)
             /\ SealEnd(sealFile'.lines, auditor'.seals) <= Len(auditor'.recs)
  <2>1. /\ auditor' = auditor /\ auditor.pc = "readSeals" /\ auditor.recs \in Seq(Record)
        /\ Len(auditor.recs) \in Nat /\ auditor.seals \in Nat
    BY <1>3 DEF TypeOK, AuditorState, AuditorIntact
  <2>2. /\ Len(auditor.recs) <= Len(logFile.lines)
        /\ \A i \in 1 .. Len(auditor.recs) : auditor.recs[i] = logFile.lines[i]
        /\ auditor.seals <= Len(sealFile.lines)
        /\ SealEnd(sealFile.lines, auditor.seals) <= Len(auditor.recs)
    BY <2>1 DEF AuditorIntact
  <2>3. SealEnd(sealFile'.lines, auditor.seals) = SealEnd(sealFile.lines, auditor.seals)
    <3>1. auditor.seals # 0 => auditor.seals \in 1 .. Len(sealFile.lines)
      BY <1>1, <2>1, <2>2
    <3>2. auditor.seals # 0 => sealFile'.lines[auditor.seals] = sealFile.lines[auditor.seals]
      BY <3>1 DEF SealsGrew
    <3>3. QED BY <3>2 DEF SealEnd
  <2>4. ASSUME NEW i \in 1 .. Len(auditor.recs)
        PROVE  auditor.recs[i] = logFile'.lines[i]
    BY <1>1, <2>1, <2>2 DEF LogGrew
  <2>5. /\ Len(auditor.recs) <= Len(logFile'.lines)
        /\ auditor.seals <= Len(sealFile'.lines)
    BY <1>1, <2>1, <2>2 DEF LogGrew, SealsGrew
  <2>6. SealEnd(sealFile'.lines, auditor.seals) <= Len(auditor.recs)
    BY <2>2, <2>3
  <2>7. QED BY <2>1, <2>4, <2>5, <2>6
<1>4. QED BY <1>2, <1>3 DEF AuditorIntact

LEMMA AckedKept ==
  ASSUME TypeOK, TypeOK', AckedIntact, LogGrew, acked' = acked
  PROVE  AckedIntact'
<1>1. Len(logFile.lines) \in Nat /\ Len(logFile'.lines) \in Nat
  BY DEF TypeOK, FileOK, File
<1>2. QED BY <1>1 DEF AckedIntact, LogGrew

(* Seal, in all its outcomes, keeps the files intact and the engine where   *)
(* they say.                                                                *)
LEMMA SealKeeps ==
  ASSUME Faithful, TypeOK, Intact, proc = "up", logFile' = logFile,
         SealDone \/ SealFails \/ NothingToSeal
  PROVE  /\ FilesIntact' /\ SealsGrew
         /\ EngineAt(eng', logFile'.lines, sealFile'.lines, Len(logFile'.lines))
<1> DEFINE recs == logFile.lines
           quotes == sealFile.lines
           n == Len(recs)
           m == Len(quotes)
<1>1. /\ LogIntact(recs) /\ SealsIntact(recs, quotes) /\ ~logFile.open /\ ~sealFile.open
      /\ EngineAt(eng, recs, quotes, n)
  BY DEF Intact, FilesIntact, EngineIntact
<1>2. recs \in Seq(Record) /\ quotes \in Seq(Quote) /\ n \in Nat /\ m \in Nat
  BY <1>1 DEF LogIntact, SealsIntact
<1>3. CASE eng' = eng /\ sealFile' = sealFile
  BY <1>1, <1>2, <1>3 DEF FilesIntact, SealsGrew
<1>4. CASE SealDone
  <2> DEFINE q == NewQuote
             more == Append(quotes, q)
  <2>1. q = [sealID |-> eng.sealID + 1, seqStart |-> eng.pendStart, seqEnd |-> eng.seq,
             root |-> eng.pending, prevRoot |-> eng.prevRoot]
    BY DEF NewQuote, MerkleRoot
  <2>2. eng.prevRoot \in Hash /\ eng \in EngineState /\ eng.pending # << >>
    BY <1>4 DEF TypeOK, EngineState, SealDone
  <2> HIDE DEF q, recs, quotes
  <2>3. q \in Quote /\ q.seqEnd = n /\ SealsIntact(recs, more)
    BY <1>1, <2>1, <2>2, AddQuote
  <2>4. sealFile'.lines = more /\ ~sealFile'.open
    <3>1. FileOK(sealFile, Quote \cup {Junk}) /\ sealFile' \in Written(sealFile, q)
      BY <1>4 DEF TypeOK, SealDone, q
    <3>2. QED BY <1>1, <3>1, WholeWrite DEF quotes
  <2>5. /\ Len(more) = m + 1 /\ more[m + 1] = q /\ \A j \in 1 .. m : more[j] = quotes[j]
    BY <1>2, <2>3, AppendProperties
  <2> HIDE DEF more
  <2>6. FilesIntact'
    BY <1>1, <2>3, <2>4 DEF FilesIntact, recs
  <2>7. SealsGrew
    BY <1>2, <2>4, <2>5 DEF SealsGrew, quotes
  <2>8. /\ eng'.seq = eng.seq /\ eng'.prevHash = eng.prevHash /\ eng'.sealID = eng.sealID + 1
        /\ eng'.prevRoot = eng.pending /\ eng'.pending = << >> /\ eng'.pendStart = 0
    BY <1>4, <2>2 DEF SealDone, EngineState, MerkleRoot
  <2>9. EngineAt(eng', recs, more, n)
    <3>1. SealEnd(more, Len(more)) = n
      BY <1>2, <2>3, <2>5 DEF SealEnd
    <3>2. PrevRoot(more, Len(more) + 1) = eng.pending
      <4>1. Len(more) + 1 # 1 /\ (Len(more) + 1) - 1 = m + 1
        BY <1>2, <2>5
      <4>2. QED BY <2>1, <2>5, <4>1 DEF PrevRoot
    <3>3. Leaves(recs, n + 1, n) = << >>
      <4>1. n + 1 \in Nat \ {0} /\ n <= Len(recs) /\ n < n + 1
        BY <1>2
      <4>2. QED BY <1>2, <4>1, LeavesEmpty
    <3>4. eng.seq = n /\ eng.prevHash = PrevRec(recs, n + 1) /\ eng.sealID = m
      BY <1>1 DEF EngineAt
    <3>5. QED BY <1>2, <2>5, <2>8, <3>1, <3>2, <3>3, <3>4 DEF EngineAt
  <2>10. QED BY <2>4, <2>6, <2>7, <2>9 DEF recs
<1>5. CASE SealFails
  <2>1. sealFile' = sealFile /\ eng' = eng
    BY <1>5, WholeCut DEF SealFails
  <2>2. QED BY <1>3, <2>1
<1>6. CASE NothingToSeal
  BY <1>3, <1>6 DEF NothingToSeal
<1>7. QED BY <1>4, <1>5, <1>6

-----------------------------------------------------------------------------
(* Every step keeps the invariant *)

LEMMA IntactFacts ==
  ASSUME TypeOK, Intact
  PROVE  /\ LogIntact(logFile.lines) /\ SealsIntact(logFile.lines, sealFile.lines)
         /\ logFile.lines \in Seq(Record) /\ sealFile.lines \in Seq(Quote)
         /\ Len(logFile.lines) \in Nat /\ Len(sealFile.lines) \in Nat
         /\ ~HasJunk(logFile.lines) /\ ~HasJunk(sealFile.lines)
<1>1. LogIntact(logFile.lines) /\ SealsIntact(logFile.lines, sealFile.lines)
  BY DEF Intact, FilesIntact
<1>2. logFile.lines \in Seq(Record) /\ sealFile.lines \in Seq(Quote)
  BY <1>1 DEF LogIntact, SealsIntact
<1>3. QED BY <1>1, <1>2, NoJunk, SealedAuditAssumption

LEMMA IntactAppend ==
  ASSUME Faithful, TypeOK, TypeOK', Intact, NEW ev \in Input, AppendEvent(ev)
  PROVE  Intact'
<1> DEFINE recs == logFile.lines
           n == Len(recs)
           r == NewRecord(ev)
           more == Append(recs, r)
           quotes == sealFile.lines
<1>1. /\ proc = "up" /\ proc' = "up" /\ logFile' \in Written(logFile, r)
      /\ acked' = acked \cup {r} /\ sealFile' = sealFile /\ auditor' = auditor
  BY DEF AppendEvent
<1>2. /\ r \in Record /\ r.seq = n + 1 /\ n \in Nat
      /\ LogIntact(more) /\ Len(more) = n + 1 /\ more[n + 1] = r
      /\ \A i \in 1 .. n : more[i] = recs[i]
      /\ SealsIntact(more, quotes)
  BY <1>1, NextRecord
<1>3. logFile'.lines = more /\ ~logFile'.open
  <2>1. FileOK(logFile, Record \cup {Junk}) /\ ~logFile.open
    BY DEF TypeOK, Intact, FilesIntact
  <2>2. QED BY <1>1, <2>1, WholeWrite
<1>4. /\ LogIntact(recs) /\ SealsIntact(recs, quotes) /\ EngineAt(eng, recs, quotes, n)
      /\ ~sealFile.open /\ eng \in EngineState
  BY <1>1 DEF Intact, FilesIntact, EngineIntact, TypeOK
<1>5. /\ eng'.seq = r.seq /\ eng'.prevHash = r.rec /\ eng'.sealID = eng.sealID
      /\ eng'.prevRoot = eng.prevRoot /\ eng'.pending = Append(eng.pending, r.leaf)
      /\ eng'.pendStart = IF eng.pending = << >> THEN r.seq ELSE eng.pendStart
  <2> HIDE DEF r
  <2>1. eng' = [eng EXCEPT !.seq = r.seq, !.prevHash = r.rec,
                        !.pending = Append(eng.pending, r.leaf),
                        !.pendStart = IF eng.pending = << >> THEN r.seq ELSE eng.pendStart]
    BY DEF AppendEvent, r
  <2>2. QED BY <1>4, <2>1 DEF EngineState
<1> HIDE DEF more, r, recs, quotes
<1>6. FilesIntact'
  BY <1>1, <1>2, <1>3, <1>4 DEF FilesIntact, quotes
<1>7. EngineAt(eng, more, quotes, n)
  <2>1. n <= Len(recs) /\ Len(recs) <= Len(more)
    BY <1>2
  <2>2. QED BY <1>2, <1>4, <2>1, EngineStable
<1>8. EngineAt(eng', more, quotes, n + 1)
  <2>1. r.seq > SealEnd(quotes, Len(quotes))
    <3>1. Len(quotes) \in 0 .. Len(quotes)
      BY <1>2 DEF SealsIntact
    <3>2. SealEnd(quotes, Len(quotes)) \in Nat /\ SealEnd(quotes, Len(quotes)) <= n
      BY <1>4, <3>1, SealEndType
    <3>3. QED BY <1>2, <3>2
  <2>2. n + 1 <= Len(more) /\ r = more[n + 1]
    BY <1>2
  <2> DEFINE fresh == r.seq > SealEnd(quotes, Len(quotes))
  <2>3. /\ eng'.pending = IF fresh THEN Append(eng.pending, r.leaf) ELSE eng.pending
        /\ eng'.pendStart = IF fresh /\ eng.pending = << >> THEN r.seq ELSE eng.pendStart
    BY <1>5, <2>1
  <2>4. QED BY <1>2, <1>5, <1>7, <2>2, <2>3, EngineAdvance
<1>9. EngineIntact'
  BY <1>1, <1>2, <1>3, <1>8 DEF EngineIntact, quotes
<1>10. LogGrew /\ SealsGrew
  BY <1>1, <1>2, <1>3 DEF LogGrew, SealsGrew, recs
<1>11. AuditorIntact'
  BY <1>1, <1>10, AuditorKept DEF Intact
<1>12. AckedIntact'
  <2>1. ASSUME NEW s \in acked'
        PROVE  s.seq \in 1 .. Len(logFile'.lines) /\ logFile'.lines[s.seq] = s
    <3>1. CASE s = r
      BY <1>2, <1>3, <3>1
    <3>2. CASE s \in acked
      BY <1>2, <1>3, <3>2 DEF Intact, AckedIntact, recs
    <3>3. QED BY <1>1, <2>1, <3>1, <3>2
  <2>2. QED BY <2>1 DEF AckedIntact
<1>13. QED BY <1>6, <1>9, <1>11, <1>12 DEF Intact

LEMMA IntactStop ==
  ASSUME Faithful, TypeOK, TypeOK', Intact, Stopped, FilesIntact', LogGrew, SealsGrew
  PROVE  Intact'
<1>1. EngineIntact'
  BY DEF EngineIntact, Stopped
<1>2. auditor'.answer = auditor.answer /\ auditor'.raced = auditor.raced /\ auditor'.pc = "idle"
  BY DEF Stopped, Idle, TypeOK, AuditorState
<1>3. AuditorIntact'
  BY <1>2, AuditorKept DEF Intact
<1>4. AckedIntact'
  BY AckedKept DEF Intact, Stopped
<1>5. QED BY <1>1, <1>3, <1>4 DEF Intact

LEMMA FilesKept ==
  ASSUME TypeOK, logFile' = logFile, sealFile' = sealFile
  PROVE  LogGrew /\ SealsGrew /\ (FilesIntact => FilesIntact')
<1>1. Len(logFile.lines) \in Nat /\ Len(sealFile.lines) \in Nat
  BY DEF TypeOK, FileOK, File
<1>2. QED BY <1>1 DEF LogGrew, SealsGrew, FilesIntact

LEMMA IntactCrash ==
  ASSUME Faithful, TypeOK, TypeOK', Intact, Stops
  PROVE  Intact'
<1>1. CASE Crash
  BY <1>1, FilesKept, IntactStop DEF Crash, Intact
<1>2. CASE CrashInSeal
  <2>1. /\ proc = "up" /\ eng.pending # << >> /\ logFile' = logFile /\ Stopped
        /\ sealFile' \in Written(sealFile, NewQuote) \cup Cut(sealFile, NewQuote)
    BY <1>2 DEF CrashInSeal
  <2>2. FilesIntact' /\ LogGrew /\ SealsGrew
    <3>1. CASE sealFile' \in Cut(sealFile, NewQuote)
      <4>1. sealFile' = sealFile
        BY <3>1, WholeCut
      <4>2. QED BY <2>1, <4>1, FilesKept DEF Intact
    <3>2. CASE sealFile' \in Written(sealFile, NewQuote)
      <4> DEFINE recs == logFile.lines
                 quotes == sealFile.lines
                 q == NewQuote
                 more == Append(quotes, q)
      <4>1. /\ LogIntact(recs) /\ SealsIntact(recs, quotes) /\ EngineAt(eng, recs, quotes, Len(recs))
            /\ ~logFile.open /\ ~sealFile.open /\ eng.prevRoot \in Hash
            /\ FileOK(sealFile, Quote \cup {Junk})
        BY <2>1 DEF Intact, FilesIntact, EngineIntact, TypeOK, EngineState
      <4>2. q = [sealID |-> eng.sealID + 1, seqStart |-> eng.pendStart, seqEnd |-> eng.seq,
                 root |-> eng.pending, prevRoot |-> eng.prevRoot]
        BY DEF NewQuote, MerkleRoot
      <4>3. sealFile'.lines = more /\ ~sealFile'.open
        BY <3>2, <4>1, WholeWrite
      <4> HIDE DEF q, recs, quotes
      <4>4. q \in Quote /\ SealsIntact(recs, more)
        BY <2>1, <4>1, <4>2, AddQuote
      <4>5. quotes \in Seq(Quote) /\ Len(quotes) \in Nat
        BY <4>1 DEF SealsIntact
      <4>6. Len(more) = Len(quotes) + 1 /\ \A j \in 1 .. Len(quotes) : more[j] = quotes[j]
        BY <4>4, <4>5, AppendProperties
      <4> HIDE DEF more
      <4>7. FilesIntact'
        BY <2>1, <4>1, <4>3, <4>4 DEF FilesIntact, recs
      <4>8. LogGrew
        BY <2>1 DEF LogGrew, TypeOK, FileOK, File
      <4>9. SealsGrew
        BY <4>3, <4>5, <4>6 DEF SealsGrew, quotes
      <4>10. QED BY <4>7, <4>8, <4>9
    <3>3. QED BY <2>1, <3>1, <3>2
  <2>3. QED BY <2>1, <2>2, IntactStop
<1>3. CASE PowerLoss
  BY <1>3 DEF PowerLoss, Faithful
<1>4. ASSUME NEW ev \in Input, CrashInAppend(ev) PROVE Intact'
  <2>1. /\ proc = "up" /\ sealFile' = sealFile /\ Stopped
        /\ logFile' \in Written(logFile, NewRecord(ev)) \cup Cut(logFile, NewRecord(ev))
    BY <1>4 DEF CrashInAppend
  <2>2. FilesIntact' /\ LogGrew /\ SealsGrew
    <3>1. CASE logFile' \in Cut(logFile, NewRecord(ev))
      <4>1. logFile' = logFile
        BY <3>1, WholeCut
      <4>2. QED BY <2>1, <4>1, FilesKept DEF Intact
    <3>2. CASE logFile' \in Written(logFile, NewRecord(ev))
      <4> DEFINE recs == logFile.lines
                 n == Len(recs)
                 r == NewRecord(ev)
                 more == Append(recs, r)
      <4>1. /\ n \in Nat /\ LogIntact(more) /\ Len(more) = n + 1
            /\ \A i \in 1 .. n : more[i] = recs[i]
            /\ SealsIntact(more, sealFile.lines)
        BY <2>1, NextRecord
      <4>2. ~logFile.open /\ ~sealFile.open /\ FileOK(logFile, Record \cup {Junk})
        BY DEF Intact, FilesIntact, TypeOK
      <4>3. logFile'.lines = more /\ ~logFile'.open
        BY <3>2, <4>2, WholeWrite
      <4> HIDE DEF more, recs, r
      <4>4. FilesIntact'
        BY <2>1, <4>1, <4>2, <4>3 DEF FilesIntact
      <4>5. LogGrew
        BY <4>1, <4>3 DEF LogGrew, recs
      <4>6. SealsGrew
        BY <2>1 DEF SealsGrew, TypeOK, FileOK, File
      <4>7. QED BY <4>4, <4>5, <4>6
    <3>3. QED BY <2>1, <3>1, <3>2
  <2>3. QED BY <2>1, <2>2, IntactStop
<1>5. QED BY <1>1, <1>2, <1>3, <1>4 DEF Stops

LEMMA IntactNew ==
  ASSUME Faithful, TypeOK, TypeOK', Intact, New
  PROVE  Intact'
<1> DEFINE recs == logFile.lines
           quotes == sealFile.lines
           done == SealEnd(quotes, Len(quotes))
           k == replay.next
<1>1. /\ logFile' = logFile /\ sealFile' = sealFile /\ auditor' = auditor /\ acked' = acked
  BY DEF New, Restart, ReplaySeal, ReplaySealsDone, ReplayRecord, ReplayDone
<1>2. FilesIntact' /\ AuditorIntact' /\ AckedIntact'
  BY <1>1, FilesKept, AuditorKept, AckedKept DEF Intact
<1>3. /\ LogIntact(recs) /\ SealsIntact(recs, quotes)
      /\ recs \in Seq(Record) /\ quotes \in Seq(Quote)
      /\ Len(recs) \in Nat /\ Len(quotes) \in Nat
      /\ ~HasJunk(recs) /\ ~HasJunk(quotes)
  BY IntactFacts
<1>4. eng \in EngineState /\ k \in Nat \ {0} /\ replay \in ReplayState
  BY DEF TypeOK, ReplayState
<1>5. done \in Nat /\ done <= Len(recs)
  <2>1. Len(quotes) \in 0 .. Len(quotes)
    BY <1>3
  <2>2. QED BY <1>3, <2>1, SealEndType
<1>6. EngineIntact
  BY DEF Intact
<1>7. EngineIntact'
  <2>1. CASE Restart
    <3>1. /\ proc' = "replaySeals" /\ eng = ZeroEngine /\ eng' = eng
          /\ replay = NoReplay /\ replay' = replay
      BY <1>6, <2>1 DEF Restart, EngineIntact
    <3>2. /\ replay'.next <= Len(sealFile'.lines) + 1
          /\ eng' = [ZeroEngine EXCEPT !.sealID = replay'.next - 1,
                                       !.prevRoot = PrevRoot(sealFile'.lines, replay'.next)]
          /\ replay'.lastSealedSeq = SealEnd(sealFile'.lines, replay'.next - 1)
      <4>1. replay'.next = 1 /\ replay'.lastSealedSeq = 0
        BY <3>1 DEF NoReplay
      <4>2. PrevRoot(quotes, 1) = << >> /\ SealEnd(quotes, 0) = 0 /\ 1 - 1 = 0
        BY DEF PrevRoot, SealEnd, ZeroHash
      <4>3. ZeroEngine.sealID = 0 /\ ZeroEngine.prevRoot = << >> /\ ZeroEngine \in EngineState
        BY ZeroEngineType DEF ZeroEngine, ZeroHash
      <4>4. [ZeroEngine EXCEPT !.sealID = 0, !.prevRoot = << >>] = ZeroEngine
        <5>1. [ZeroEngine EXCEPT !.sealID = 0] = ZeroEngine
          BY <4>3 DEF EngineState
        <5>2. [ZeroEngine EXCEPT !.prevRoot = << >>] = ZeroEngine
          BY <4>3 DEF EngineState
        <5>3. QED BY <5>1, <5>2
      <4>5. eng' = [ZeroEngine EXCEPT !.sealID = replay'.next - 1,
                                      !.prevRoot = PrevRoot(sealFile'.lines, replay'.next)]
        BY <1>1, <3>1, <4>1, <4>2, <4>4
      <4>6. replay'.next <= Len(sealFile'.lines) + 1
        BY <1>1, <1>3, <4>1
      <4>7. replay'.lastSealedSeq = SealEnd(sealFile'.lines, replay'.next - 1)
        BY <1>1, <4>1, <4>2
      <4>8. QED BY <4>5, <4>6, <4>7
    <3>3. QED BY <3>1, <3>2 DEF EngineIntact
  <2>2. CASE ReplaySeal
    <3> DEFINE q == quotes[k]
    <3>1. /\ proc = "replaySeals" /\ k \in 1 .. Len(quotes)
          /\ eng = [ZeroEngine EXCEPT !.sealID = k - 1, !.prevRoot = PrevRoot(quotes, k)]
      BY <1>3, <1>4, <1>6, <2>2 DEF ReplaySeal, EngineIntact
    <3>2. q # Junk
      BY <1>3, <3>1 DEF HasJunk
    <3>3. /\ eng' = [eng EXCEPT !.sealID = q.sealID, !.prevRoot = q.root]
          /\ replay' = [next |-> k + 1, lastSealedSeq |-> q.seqEnd] /\ proc' = "replaySeals"
      BY <2>2, <3>1, <3>2 DEF ReplaySeal
    <3>4. q.sealID = k
      BY <1>3, <3>1 DEF SealsIntact, Contiguous
    <3>5. q.root = PrevRoot(quotes, k + 1) /\ q.seqEnd = SealEnd(quotes, k)
          /\ (k + 1) - 1 = k /\ k + 1 <= Len(quotes) + 1
      BY <1>3, <3>1 DEF PrevRoot, SealEnd
    <3> HIDE DEF q
    <3>6. eng' = [ZeroEngine EXCEPT !.sealID = k, !.prevRoot = q.root]
      BY <3>1, <3>3, <3>4 DEF ZeroEngine
    <3>7. QED BY <1>1, <3>3, <3>5, <3>6 DEF EngineIntact
  <2>3. CASE ReplaySealsDone
    <3>1. /\ proc = "replaySeals" /\ k = Len(quotes) + 1 /\ k - 1 = Len(quotes)
          /\ eng = [ZeroEngine EXCEPT !.sealID = k - 1, !.prevRoot = PrevRoot(quotes, k)]
          /\ replay.lastSealedSeq = SealEnd(quotes, k - 1)
      BY <1>3, <1>4, <1>6, <2>3 DEF ReplaySealsDone, EngineIntact
    <3>2. /\ proc' = "replayLog" /\ eng' = eng
          /\ replay'.next = 1 /\ replay'.lastSealedSeq = done
      BY <1>4, <2>3, <3>1 DEF ReplaySealsDone, ReplayState
    <3>3. Leaves(recs, done + 1, 0) = << >>
      <4>1. done + 1 \in Nat \ {0} /\ 0 \in Nat /\ 0 <= Len(recs) /\ 0 < done + 1
        BY <1>3, <1>5
      <4>2. QED BY <1>3, <4>1, LeavesEmpty
    <3>4. /\ eng.seq = 0 /\ eng.prevHash = ZeroHash /\ eng.sealID = Len(quotes)
          /\ eng.prevRoot = PrevRoot(quotes, Len(quotes) + 1)
          /\ eng.pending = << >> /\ eng.pendStart = 0
      BY <3>1 DEF ZeroEngine
    <3>5. EngineAt(eng, recs, quotes, 0)
      BY <1>5, <3>3, <3>4 DEF EngineAt, PrevRec
    <3>6. QED BY <1>1, <1>3, <3>2, <3>5 DEF EngineIntact, SealedUpTo
  <2>4. CASE ReplayRecord
    <3> DEFINE r == recs[k]
               fresh == r.seq > done
    <3>1. /\ proc = "replayLog" /\ k \in 1 .. Len(recs) /\ replay.lastSealedSeq = done
          /\ EngineAt(eng, recs, quotes, k - 1)
      BY <1>3, <1>4, <1>6, <2>4 DEF ReplayRecord, EngineIntact, SealedUpTo
    <3>2. r # Junk
      BY <1>3, <3>1 DEF HasJunk
    <3>3. /\ eng' = [eng EXCEPT
                       !.seq = r.seq, !.prevHash = r.rec,
                       !.pending = IF fresh THEN Append(@, r.leaf) ELSE @,
                       !.pendStart = IF fresh /\ eng.pending = << >> THEN r.seq ELSE @]
          /\ replay' = [replay EXCEPT !.next = k + 1] /\ proc' = "replayLog"
      BY <2>4, <3>1, <3>2 DEF ReplayRecord
    <3>4. replay'.next = k + 1 /\ replay'.lastSealedSeq = done
      BY <1>4, <3>1, <3>3 DEF ReplayState
    <3> HIDE DEF r, fresh
    <3>5. /\ eng'.seq = r.seq /\ eng'.prevHash = r.rec /\ eng'.sealID = eng.sealID
          /\ eng'.prevRoot = eng.prevRoot
          /\ eng'.pending = IF fresh THEN Append(eng.pending, r.leaf) ELSE eng.pending
          /\ eng'.pendStart = IF fresh /\ eng.pending = << >> THEN r.seq ELSE eng.pendStart
      BY <1>4, <3>3 DEF EngineState
    <3>6. k - 1 \in Nat /\ (k - 1) + 1 = k /\ (k - 1) + 1 <= Len(recs) /\ (k + 1) - 1 = k
          /\ r = recs[(k - 1) + 1]
      BY <1>3, <3>1 DEF r
    <3> DEFINE j == k - 1
    <3>7. EngineAt(eng', recs, quotes, k)
      <4>1. j \in Nat /\ EngineAt(eng, recs, quotes, j) /\ j + 1 <= Len(recs)
            /\ r = recs[j + 1] /\ j + 1 = k
        BY <3>1, <3>6
      <4> HIDE DEF j
      <4>2. EngineAt(eng', recs, quotes, j + 1)
        BY <1>3, <3>5, <4>1, EngineAdvance DEF fresh
      <4>3. QED BY <4>1, <4>2
    <3>8. QED BY <1>1, <1>3, <3>1, <3>3, <3>4, <3>6, <3>7 DEF EngineIntact, SealedUpTo
  <2>5. CASE ReplayDone
    <3>1. /\ proc' = "up" /\ eng' = eng /\ k - 1 = Len(recs)
          /\ EngineAt(eng, recs, quotes, k - 1)
      BY <1>3, <1>4, <1>6, <2>5 DEF ReplayDone, EngineIntact
    <3>2. QED BY <1>1, <3>1 DEF EngineIntact
  <2>6. QED BY <2>1, <2>2, <2>3, <2>4, <2>5 DEF New
<1>8. QED BY <1>2, <1>7 DEF Intact

(* What Verify read before the last seal was written, it finds clean.       *)
LEMMA ReadsClean ==
  ASSUME TypeOK, Intact, auditor.pc = "readSeals", Len(sealFile.lines) <= auditor.seals
  PROVE  Clean(auditor.recs, sealFile.lines)
<1> DEFINE recs == logFile.lines
           quotes == sealFile.lines
           read == auditor.recs
<1>1. /\ LogIntact(recs) /\ SealsIntact(recs, quotes)
      /\ recs \in Seq(Record) /\ quotes \in Seq(Quote)
      /\ Len(recs) \in Nat /\ Len(quotes) \in Nat
  BY IntactFacts
<1>2. /\ read \in Seq(Record) /\ Len(read) \in Nat /\ Len(read) <= Len(recs)
      /\ \A i \in 1 .. Len(read) : read[i] = recs[i]
      /\ SealEnd(quotes, Len(quotes)) <= Len(read)
  <2>1. auditor.seals = Len(quotes)
    BY <1>1 DEF Intact, AuditorIntact, TypeOK, AuditorState
  <2>2. QED BY <2>1 DEF Intact, AuditorIntact
<1> HIDE DEF recs, quotes, read
<1>3. ASSUME NEW i \in 1 .. Len(read) PROVE RecordOK(read, i)
  <2>1. i \in 1 .. Len(recs) /\ read[i] = recs[i] /\ (i # 1 => i - 1 \in 1 .. Len(read))
    BY <1>1, <1>2
  <2>2. PrevRec(read, i) = PrevRec(recs, i)
    BY <1>2, <2>1 DEF PrevRec
  <2>3. RecordOK(recs, i)
    BY <1>1, <2>1 DEF LogIntact
  <2>4. QED BY <2>1, <2>2, <2>3 DEF RecordOK
<1>4. ASSUME NEW j \in 1 .. Len(quotes) PROVE QuoteOK(read, quotes, j)
  <2> DEFINE a == quotes[j].seqStart
             b == quotes[j].seqEnd
  <2>1. quotes[j] \in Quote
    BY <1>1, ElementOfSeq
  <2>2. /\ QuoteOK(recs, quotes, j) /\ b <= SealEnd(quotes, Len(quotes))
        /\ a = 1 + SealEnd(quotes, j - 1)
    BY <1>1 DEF SealsIntact, Contiguous
  <2>3. SealEnd(quotes, j - 1) \in Nat /\ SealEnd(quotes, Len(quotes)) \in Nat
    <3>1. j - 1 \in 0 .. Len(quotes) /\ Len(quotes) \in 0 .. Len(quotes)
      BY <1>1
    <3>2. QED BY <1>1, <3>1, SealEndType
  <2>4. b \in Nat /\ a \in Nat \ {0}
    BY <2>1, <2>2, <2>3 DEF Quote
  <2>5. quotes[j].root = MerkleRoot(Leaves(recs, a, b)) /\ quotes[j].prevRoot = PrevRoot(quotes, j)
    BY <2>2 DEF QuoteOK
  <2> HIDE DEF a, b
  <2>6. b <= Len(read) /\ b <= Len(recs) /\ \A i \in 1 .. b : read[i] = recs[i]
    BY <1>1, <1>2, <2>2, <2>3, <2>4
  <2>7. Leaves(read, a, b) = Leaves(recs, a, b)
    BY <1>1, <1>2, <2>4, <2>6, LeavesStable
  <2>8. QED BY <2>5, <2>6, <2>7 DEF QuoteOK, a, b
<1>5. QED BY <1>3, <1>4 DEF Clean, read, quotes

LEMMA IntactVerify ==
  ASSUME Faithful, TypeOK, TypeOK', Intact, Verify
  PROVE  Intact'
<1>1. CASE VerifySeal
  <2>1. /\ proc = "up" /\ proc' = "up" /\ logFile' = logFile /\ acked' = acked
        /\ SealDone \/ SealFails \/ NothingToSeal
        /\ auditor' = [auditor EXCEPT !.pc = "readLog"]
    BY <1>1 DEF VerifySeal
  <2>2. /\ FilesIntact' /\ SealsGrew
        /\ EngineAt(eng', logFile'.lines, sealFile'.lines, Len(logFile'.lines))
    BY <2>1, SealKeeps
  <2>3. LogGrew
    BY <2>1 DEF LogGrew, TypeOK, FileOK, File
  <2>4. auditor'.answer = auditor.answer /\ auditor'.raced = auditor.raced
        /\ auditor'.pc = "readLog"
    BY <2>1 DEF TypeOK, AuditorState
  <2>5. AuditorIntact' /\ AckedIntact'
    BY <2>1, <2>2, <2>3, <2>4, AuditorKept, AckedKept DEF Intact
  <2>6. EngineIntact'
    BY <2>1, <2>2 DEF EngineIntact
  <2>7. QED BY <2>2, <2>5, <2>6 DEF Intact
<1>2. ASSUME logFile' = logFile, sealFile' = sealFile, eng' = eng, proc' = proc,
             replay' = replay, acked' = acked, AuditorIntact'
      PROVE  Intact'
  BY <1>2, FilesKept, AckedKept DEF Intact, EngineIntact, SealedUpTo
<1>3. CASE VerifyReadLog
  <2>1. /\ logFile' = logFile /\ sealFile' = sealFile /\ eng' = eng /\ proc' = proc
        /\ replay' = replay /\ acked' = acked
    BY <1>3 DEF VerifyReadLog
  <2>2. /\ ~HasJunk(logFile.lines) /\ LogIntact(logFile.lines)
        /\ SealsIntact(logFile.lines, sealFile.lines)
        /\ logFile.lines \in Seq(Record) /\ Len(logFile.lines) \in Nat
        /\ Len(sealFile.lines) \in Nat
    BY IntactFacts
  <2>3. auditor' = [auditor EXCEPT !.pc = "readSeals", !.recs = logFile.lines,
                                  !.seals = Len(sealFile.lines)]
    BY <1>3, <2>2 DEF VerifyReadLog
  <2>4. /\ auditor'.recs = logFile.lines /\ auditor'.seals = Len(sealFile.lines)
        /\ auditor'.answer = auditor.answer /\ auditor'.raced = auditor.raced
    BY <2>3 DEF TypeOK, AuditorState
  <2>5. SealEnd(sealFile.lines, Len(sealFile.lines)) <= Len(logFile.lines)
    <3>1. Len(sealFile.lines) \in 0 .. Len(sealFile.lines)
      BY <2>2
    <3>2. QED BY <2>2, <3>1, SealEndType
  <2>6. AuditorIntact'
    BY <2>1, <2>2, <2>4, <2>5 DEF Intact, AuditorIntact, AlarmOnlyIfRaced
  <2>7. QED BY <1>2, <2>1, <2>6
<1>4. CASE VerifyReadSeals
  <2>1. /\ logFile' = logFile /\ sealFile' = sealFile /\ eng' = eng /\ proc' = proc
        /\ replay' = replay /\ acked' = acked /\ auditor.pc = "readSeals"
    BY <1>4 DEF VerifyReadSeals
  <2>2. ~HasJunk(sealFile.lines) /\ Len(sealFile.lines) \in Nat /\ auditor.seals \in Nat
    BY IntactFacts DEF TypeOK, AuditorState
  <2> DEFINE a == IF HasJunk(sealFile.lines) THEN "error"
                  ELSE IF Clean(auditor.recs, sealFile.lines) THEN "clean" ELSE "problems"
             b == Len(sealFile.lines) > auditor.seals
  <2>3. auditor' = [Idle EXCEPT !.answer = a, !.raced = b]
    BY <1>4 DEF VerifyReadSeals
  <2>4. a = "clean" \/ b
    BY <2>1, <2>2, ReadsClean
  <2> HIDE DEF a, b
  <2>5. auditor'.answer = a /\ auditor'.raced = b /\ auditor'.pc = "idle"
    BY <2>3 DEF Idle, TypeOK, AuditorState
  <2>6. AuditorIntact'
    BY <2>4, <2>5 DEF AuditorIntact, AlarmOnlyIfRaced
  <2>7. QED BY <1>2, <2>1, <2>6
<1>5. QED BY <1>1, <1>3, <1>4 DEF Verify

LEMMA IntactEngine ==
  ASSUME Faithful, TypeOK, TypeOK', Intact, Engine
  PROVE  Intact'
<1>1. CASE SealTick \/ Close
  <2>1. /\ proc = "up" /\ proc' \in {"up", "closed"} /\ logFile' = logFile /\ acked' = acked
        /\ SealDone \/ SealFails \/ NothingToSeal
        /\ auditor' = auditor
    BY <1>1 DEF SealTick, Close
  <2>2. /\ FilesIntact' /\ SealsGrew
        /\ EngineAt(eng', logFile'.lines, sealFile'.lines, Len(logFile'.lines))
    BY <2>1, SealKeeps
  <2>3. LogGrew
    BY <2>1 DEF LogGrew, TypeOK, FileOK, File
  <2>4. AuditorIntact' /\ AckedIntact'
    BY <2>1, <2>2, <2>3, AuditorKept, AckedKept DEF Intact
  <2>5. EngineIntact'
    BY <2>1, <2>2 DEF EngineIntact
  <2>6. QED BY <2>2, <2>4, <2>5 DEF Intact
<1>2. ASSUME NEW ev \in Input, AppendFails(ev) PROVE Intact'
  <2>1. /\ logFile' = logFile /\ sealFile' = sealFile /\ eng' = eng /\ proc' = proc
        /\ replay' = replay /\ acked' = acked /\ auditor' = auditor
    BY <1>2, WholeCut DEF AppendFails
  <2>2. AuditorIntact' /\ AckedIntact' /\ FilesIntact'
    BY <2>1, FilesKept, AuditorKept, AckedKept DEF Intact
  <2>3. QED BY <2>1, <2>2 DEF Intact, EngineIntact, SealedUpTo
<1>3. QED BY <1>1, <1>2, IntactAppend DEF Engine

LEMMA IntactInit == Init => Intact
<1> SUFFICES ASSUME Init PROVE Intact
  OBVIOUS
<1> DEFINE recs == logFile.lines
           quotes == sealFile.lines
<1>1. /\ recs = << >> /\ quotes = << >> /\ ~logFile.open /\ ~sealFile.open
      /\ proc = "down" /\ eng = ZeroEngine /\ replay = NoReplay
      /\ auditor.pc = "idle" /\ auditor.answer = "none" /\ acked = {}
  BY DEF Init, EmptyFile
<1>2. recs \in Seq(Record) /\ quotes \in Seq(Quote) /\ Len(recs) = 0 /\ Len(quotes) = 0
  BY <1>1, EmptySeq
<1> HIDE DEF recs, quotes
<1>3. LogIntact(recs)
  BY <1>2 DEF LogIntact
<1>4. SealsIntact(recs, quotes)
  BY <1>2 DEF SealsIntact, Contiguous, SealEnd
<1>5. FilesIntact
  BY <1>1, <1>3, <1>4 DEF FilesIntact, recs, quotes
<1>6. EngineIntact /\ AuditorIntact /\ AckedIntact
  BY <1>1 DEF EngineIntact, AuditorIntact, AckedIntact, AlarmOnlyIfRaced
<1>7. QED BY <1>5, <1>6 DEF Intact

LEMMA IntactStep == ASSUME Faithful PROVE TypeOK /\ TypeOK' /\ Intact /\ [Next]_vars => Intact'
<1> SUFFICES ASSUME TypeOK, TypeOK', Intact, [Next]_vars PROVE Intact'
  OBVIOUS
<1>1. CASE Engine
  BY <1>1, IntactEngine
<1>2. CASE Stops
  BY <1>2, IntactCrash
<1>3. CASE New
  BY <1>3, IntactNew
<1>4. CASE Verify
  BY <1>4, IntactVerify
<1>5. CASE UNCHANGED vars
  <2>1. /\ logFile' = logFile /\ sealFile' = sealFile /\ eng' = eng /\ proc' = proc
        /\ replay' = replay /\ acked' = acked /\ auditor' = auditor
    BY <1>5 DEF vars
  <2>2. FilesIntact' /\ AuditorIntact' /\ AckedIntact'
    BY <2>1, FilesKept, AuditorKept, AckedKept DEF Intact
  <2>3. QED BY <2>1, <2>2 DEF Intact, EngineIntact, SealedUpTo
<1>6. QED BY <1>1, <1>2, <1>3, <1>4, <1>5 DEF Next

-----------------------------------------------------------------------------
(* The theorems *)

(* However appends, seals, verifications, crashes and replays interleave,   *)
(* the files stay a chain and a partition of it, and the engine stays where *)
(* they say (engine.go, replay, Append and Seal).                           *)
THEOREM Integrity == ASSUME Faithful PROVE Spec => []Intact
<1>1. TypeOK /\ TypeOK' /\ Intact /\ [Next]_vars => Intact'
  BY IntactStep
<1>2. QED BY <1>1, IntactInit, TypeInvariant, PTL DEF Spec

LEMMA IntactMeans ==
  ASSUME TypeOK, Intact
  PROVE  /\ DiskVerifies /\ SealsContiguous /\ EngineMatchesFiles /\ AckedInLog
         /\ AlarmOnlyIfRaced /\ NothingEscapesSeals
<1> DEFINE recs == logFile.lines
           quotes == sealFile.lines
           done == SealEnd(quotes, Len(quotes))
<1>1. /\ LogIntact(recs) /\ SealsIntact(recs, quotes)
      /\ recs \in Seq(Record) /\ quotes \in Seq(Quote)
      /\ Len(recs) \in Nat /\ Len(quotes) \in Nat
      /\ ~HasJunk(recs) /\ ~HasJunk(quotes)
  BY IntactFacts
<1>2. DiskVerifies
  BY <1>1 DEF DiskVerifies, Clean, LogIntact, SealsIntact
<1>3. SealsContiguous
  BY <1>1 DEF SealsContiguous, SealsIntact
<1>4. EngineMatchesFiles
  BY DEF Intact, EngineIntact, EngineAt, EngineMatchesFiles, SealedUpTo
<1>5. AckedInLog
  BY <1>1 DEF Intact, AckedIntact, AckedInLog
<1>6. AlarmOnlyIfRaced
  BY DEF Intact, AuditorIntact
<1>7. NothingEscapesSeals
  <2>1. SUFFICES ASSUME proc = "up", eng.pending = << >>, NEW i \in 1 .. Len(recs)
                 PROVE  \E j \in 1 .. Len(quotes) : Attests(recs, quotes[j], i)
    BY DEF NothingEscapesSeals
  <2> DEFINE n == Len(recs)
             a == done + 1
  <2>2. done \in Nat /\ a \in Nat \ {0}
    <3>1. Len(quotes) \in 0 .. Len(quotes)
      BY <1>1
    <3>2. QED BY <1>1, <3>1, SealEndType
  <2>3. Leaves(recs, a, n) = << >> /\ n \in Nat
    BY <1>1, <1>4, <2>1 DEF EngineMatchesFiles, SealedUpTo
  <2> HIDE DEF a, done
  <2>4. Len(Leaves(recs, a, n)) = IF a <= n THEN n + 1 - a ELSE 0
    <3>1. n <= Len(recs) /\ n \in Nat
      BY <1>1
    <3> HIDE DEF n
    <3>2. QED BY <1>1, <2>2, <3>1, LeavesType
  <2>5. ~(a <= n)
    <3>1. SUFFICES ASSUME a <= n PROVE FALSE
      OBVIOUS
    <3>2. n + 1 - a = 0
      BY <2>3, <2>4, <3>1, EmptySeq
    <3>3. QED BY <2>2, <2>3, <3>1, <3>2
  <2>6. i \in 1 .. done
    BY <1>1, <2>1, <2>2, <2>5 DEF a
  <2>7. QED BY <1>1, <2>6 DEF SealsIntact, done
<1>8. QED BY <1>2, <1>3, <1>4, <1>5, <1>6, <1>7

(* At every instant the files on the disk pass Verify (verify.go).          *)
THEOREM FilesVerify == ASSUME Faithful PROVE Spec => []DiskVerifies
BY IntactMeans, TypeInvariant, Integrity, PTL

(* The seals partition a prefix of the log (engine.go, Seal).               *)
THEOREM SealsPartition == ASSUME Faithful PROVE Spec => []SealsContiguous
BY IntactMeans, TypeInvariant, Integrity, PTL

(* After any crashes and replays a running engine is where its files say,   *)
(* its pending leaves the records after the last seal (engine.go, replay).  *)
THEOREM ReplayRestores == ASSUME Faithful PROVE Spec => []EngineMatchesFiles
BY IntactMeans, TypeInvariant, Integrity, PTL

(* What Append acknowledged stays in the log (engine.go, Append).           *)
THEOREM AckedStays == ASSUME Faithful PROVE Spec => []AckedInLog
BY IntactMeans, TypeInvariant, Integrity, PTL

(* The verification endpoint raises an alarm over intact files only when a  *)
(* seal was written between its two reads (reportchain.go).                 *)
THEOREM AlarmsAreRaces == ASSUME Faithful PROVE Spec => []AlarmOnlyIfRaced
BY IntactMeans, TypeInvariant, Integrity, PTL

(* Once nothing is pending, every record has an inclusion proof (merkle.go, *)
(* engine.go, Seal).                                                        *)
THEOREM SealsCoverLog == ASSUME Faithful PROVE Spec => []NothingEscapesSeals
BY IntactMeans, TypeInvariant, Integrity, PTL

-----------------------------------------------------------------------------
(* The abstract ledger *)

Entries(recs) == [i \in 1 .. Len(recs) |-> recs[i].event]

LEMMA EntriesGrow ==
  ASSUME NEW recs \in Seq(Record), NEW r \in Record
  PROVE  /\ Entries(Append(recs, r)) = Append(Entries(recs), r.event)
         /\ Len(Entries(recs)) = Len(recs)
<1> DEFINE more == Append(recs, r)
           n == Len(recs)
           E == Entries(recs)
           F == Entries(more)
<1>1. /\ n \in Nat /\ more \in Seq(Record) /\ Len(more) = n + 1
      /\ \A i \in 1 .. n : more[i] = recs[i]
      /\ more[n + 1] = r
  BY AppendProperties
<1>2. \A i \in 1 .. n : recs[i] \in Record
  BY ElementOfSeq
<1> HIDE DEF more
<1>3. E \in [1 .. n -> Event] /\ r.event \in Event
  BY <1>2 DEF Record, Entries
<1>4. F \in [1 .. n + 1 -> Event]
  BY <1>1, <1>2 DEF Record, Entries
<1>5. E \in Seq(Event) /\ F \in Seq(Event)
  <2>1. n + 1 \in Nat
    BY <1>1
  <2> HIDE DEF n, E, F
  <2>2. QED BY <1>1, <1>3, <1>4, <2>1, SeqDef
<1>6. Len(E) = n /\ Len(F) = n + 1
  <2>1. n + 1 \in Nat
    BY <1>1
  <2> HIDE DEF n, E, F
  <2>2. QED BY <1>1, <1>3, <1>4, <1>5, <2>1, LenProperties
<1>7. \A i \in 1 .. n : E[i] = recs[i].event /\ F[i] = recs[i].event
  BY <1>1 DEF Entries
<1>8. F[n + 1] = r.event
  BY <1>1 DEF Entries
<1> DEFINE G == Append(E, r.event)
<1>9. /\ G \in Seq(Event) /\ Len(G) = n + 1 /\ G[n + 1] = r.event
      /\ \A i \in 1 .. n : G[i] = E[i]
  <2> HIDE DEF E, n
  <2>1. QED BY <1>3, <1>5, <1>6, AppendProperties
<1>10. ASSUME NEW i \in 1 .. Len(F) PROVE F[i] = G[i]
  <2>1. CASE i = n + 1
    BY <1>8, <1>9, <2>1
  <2>2. CASE i # n + 1
    <3>1. i \in 1 .. n
      BY <1>1, <1>6, <2>2
    <3>2. QED BY <1>7, <1>9, <3>1
  <2>3. QED BY <2>1, <2>2
<1> HIDE DEF E, F, G, n
<1>11. F = G
  BY <1>5, <1>6, <1>9, <1>10, SeqEqual
<1>12. QED BY <1>6, <1>11 DEF E, F, G, n, more

LEMMA LedgerStep ==
  ASSUME Faithful, TypeOK, Intact, TypeOK', Intact', Next
  PROVE  [Ledger!LedgerNext]_(Ledger!ledgerVars)
<1> DEFINE recs == logFile.lines
           quotes == sealFile.lines
<1>1. /\ recs \in Seq(Record) /\ quotes \in Seq(Quote) /\ Len(recs) \in Nat
      /\ Len(quotes) \in Nat
  BY IntactFacts
<1>2. CASE logFile' = logFile /\ sealFile' = sealFile
  BY <1>2 DEF Ledger!ledgerVars, SealedUpTo
<1>3. ASSUME NEW ev \in Input, proc = "up", sealFile' = sealFile,
             logFile' \in Written(logFile, NewRecord(ev))
      PROVE  Ledger!LedgerNext
  <2> DEFINE r == NewRecord(ev)
  <2>1. r \in Record /\ r.event \in Event
    BY <1>3, NextRecord DEF Record
  <2>2. logFile'.lines = Append(recs, r)
    <3>1. FileOK(logFile, Record \cup {Junk}) /\ ~logFile.open
      BY DEF TypeOK, Intact, FilesIntact
    <3>2. QED BY <1>3, <3>1, WholeWrite
  <2> HIDE DEF r
  <2>3. Entries(logFile'.lines) = Append(Entries(recs), r.event)
    BY <1>1, <2>1, <2>2, EntriesGrow
  <2>4. PICK e \in Event : e = r.event
    BY <2>1
  <2>5. Ledger!RecordEntry(e)
    <3>1. SealedUpTo' = SealedUpTo
      BY <1>3 DEF SealedUpTo
    <3>2. [i \in 1 .. Len(logFile'.lines) |-> logFile'.lines[i].event]
            = Append([i \in 1 .. Len(logFile.lines) |-> logFile.lines[i].event], e)
      BY <2>3, <2>4 DEF Entries
    <3>3. QED BY <3>1, <3>2 DEF Ledger!RecordEntry
  <2>6. QED BY <2>5 DEF Ledger!LedgerNext
<1>4. ASSUME proc = "up", logFile' = logFile, eng.pending # << >>,
             sealFile' \in Written(sealFile, NewQuote)
      PROVE  Ledger!LedgerNext
  <2> DEFINE q == NewQuote
             more == Append(quotes, q)
  <2>1. /\ LogIntact(recs) /\ SealsIntact(recs, quotes)
        /\ EngineAt(eng, recs, quotes, Len(recs)) /\ eng.prevRoot \in Hash
        /\ ~sealFile.open /\ FileOK(sealFile, Quote \cup {Junk})
    BY <1>4 DEF Intact, FilesIntact, EngineIntact, TypeOK, EngineState
  <2>2. sealFile'.lines = more
    BY <1>4, <2>1, WholeWrite
  <2>3. q = [sealID |-> eng.sealID + 1, seqStart |-> eng.pendStart, seqEnd |-> eng.seq,
             root |-> eng.pending, prevRoot |-> eng.prevRoot]
    BY DEF NewQuote, MerkleRoot
  <2> HIDE DEF q, recs, quotes
  <2>4. q \in Quote /\ q.seqEnd = Len(recs)
    BY <1>4, <2>1, <2>3, AddQuote
  <2>5. Len(more) = Len(quotes) + 1 /\ more[Len(more)] = q
    BY <1>1, <2>4, AppendProperties DEF quotes
  <2>6. SealedUpTo' = Len(recs)
    BY <1>1, <2>2, <2>4, <2>5 DEF SealedUpTo, SealEnd, quotes
  <2>7. SealedUpTo < Len(recs)
    <3>1. Len(quotes) \in 0 .. Len(quotes)
      BY <1>1 DEF quotes
    <3>2. SealEnd(quotes, Len(quotes)) \in Nat /\ SealEnd(quotes, Len(quotes)) <= Len(recs)
      BY <2>1, <3>1, SealEndType
    <3> DEFINE a == SealEnd(quotes, Len(quotes)) + 1
    <3>3. ~(Len(recs) < a)
      <4>1. SUFFICES ASSUME Len(recs) < a PROVE FALSE
        OBVIOUS
      <4>2. a \in Nat \ {0} /\ Len(recs) \in Nat /\ Len(recs) <= Len(recs)
        BY <1>1, <3>2 DEF recs
      <4> HIDE DEF a
      <4>3. Leaves(recs, a, Len(recs)) = << >>
        BY <1>1, <4>1, <4>2, LeavesEmpty DEF recs
      <4>4. QED BY <1>4, <2>1, <4>3 DEF EngineAt, a
    <3>4. QED BY <1>1, <3>2, <3>3 DEF SealedUpTo, quotes, recs
  <2>8. Len(Entries(recs)) = Len(recs)
    <3>1. q.seqEnd = Len(recs)
      BY <2>4
    <3>2. Entries(recs) \in [1 .. Len(recs) -> Event]
      <4>1. \A i \in 1 .. Len(recs) : recs[i] \in Record
        BY <1>1, ElementOfSeq DEF recs
      <4>2. QED BY <4>1 DEF Entries, Record
    <3>3. Len(recs) \in Nat
      BY <1>1 DEF recs
    <3>4. Entries(recs) \in Seq(Event)
      BY <3>2, <3>3, SeqDef
    <3>5. QED BY <3>2, <3>3, <3>4, LenProperties
  <2>9. Ledger!SealAll
    BY <1>4, <2>6, <2>7, <2>8 DEF Ledger!SealAll, Entries, recs
  <2>10. QED BY <2>9 DEF Ledger!LedgerNext
<1>5. ASSUME proc = "up", SealDone \/ SealFails \/ NothingToSeal, logFile' = logFile
      PROVE  [Ledger!LedgerNext]_(Ledger!ledgerVars)
  <2>1. CASE SealDone
    BY <1>4, <1>5, <2>1 DEF SealDone
  <2>2. CASE SealFails \/ NothingToSeal
    <3>1. sealFile' = sealFile
      BY <2>2, WholeCut DEF SealFails, NothingToSeal
    <3>2. QED BY <1>2, <1>5, <3>1
  <2>3. QED BY <1>5, <2>1, <2>2
<1>6. CASE Engine
  <2>1. ASSUME NEW ev \in Input, AppendEvent(ev) PROVE Ledger!LedgerNext
    BY <1>3, <2>1 DEF AppendEvent
  <2>2. ASSUME NEW ev \in Input, AppendFails(ev) PROVE logFile' = logFile /\ sealFile' = sealFile
    BY <2>2, WholeCut DEF AppendFails
  <2>3. CASE SealTick \/ Close
    BY <1>5, <2>3 DEF SealTick, Close
  <2>4. QED BY <1>2, <1>6, <2>1, <2>2, <2>3 DEF Engine
<1>7. CASE Stops
  <2>1. ASSUME NEW ev \in Input, CrashInAppend(ev)
        PROVE  [Ledger!LedgerNext]_(Ledger!ledgerVars)
    <3>1. CASE logFile' \in Written(logFile, NewRecord(ev))
      BY <1>3, <2>1, <3>1 DEF CrashInAppend
    <3>2. CASE logFile' \in Cut(logFile, NewRecord(ev))
      BY <1>2, <2>1, <3>2, WholeCut DEF CrashInAppend
    <3>3. QED BY <2>1, <3>1, <3>2 DEF CrashInAppend
  <2>2. CASE CrashInSeal
    <3>1. CASE sealFile' \in Written(sealFile, NewQuote)
      BY <1>4, <2>2, <3>1 DEF CrashInSeal
    <3>2. CASE sealFile' \in Cut(sealFile, NewQuote)
      BY <1>2, <2>2, <3>2, WholeCut DEF CrashInSeal
    <3>3. QED BY <2>2, <3>1, <3>2 DEF CrashInSeal
  <2>3. CASE Crash
    BY <1>2, <2>3 DEF Crash
  <2>4. CASE PowerLoss
    BY <2>4 DEF PowerLoss, Faithful
  <2>5. QED BY <1>7, <2>1, <2>2, <2>3, <2>4 DEF Stops
<1>8. CASE New
  BY <1>2, <1>8 DEF New, Restart, ReplaySeal, ReplaySealsDone, ReplayRecord, ReplayDone
<1>9. CASE Verify
  <2>1. CASE VerifySeal
    BY <1>5, <2>1 DEF VerifySeal
  <2>2. CASE VerifyReadLog \/ VerifyReadSeals
    BY <1>2, <2>2 DEF VerifyReadLog, VerifyReadSeals
  <2>3. QED BY <1>9, <2>1, <2>2 DEF Verify
<1>10. QED BY <1>6, <1>7, <1>8, <1>9 DEF Next

LEMMA LedgerStart == Init => Ledger!LedgerInit
<1> SUFFICES ASSUME Init PROVE Ledger!LedgerInit
  OBVIOUS
<1>1. logFile.lines = << >> /\ sealFile.lines = << >> /\ Len(<< >>) = 0
  BY EmptySeq DEF Init, EmptyFile
<1>2. [i \in 1 .. Len(logFile.lines) |-> logFile.lines[i].event] = << >>
  BY <1>1
<1>3. SealedUpTo = 0
  BY <1>1 DEF SealedUpTo, SealEnd
<1>4. QED BY <1>2, <1>3 DEF Ledger!LedgerInit

(* The engine with its files, crashes and replays implements the ledger:    *)
(* events are only added, at the end, and a seal takes in all of them       *)
(* (engine.go, the comments of New and Seal).                               *)
THEOREM Refinement == ASSUME Faithful PROVE Spec => ImplementsLedger
<1>1. TypeOK /\ Intact /\ TypeOK' /\ Intact' /\ [Next]_vars
        => [Ledger!LedgerNext]_(Ledger!ledgerVars)
  <2> SUFFICES ASSUME TypeOK, Intact, TypeOK', Intact', [Next]_vars
               PROVE  [Ledger!LedgerNext]_(Ledger!ledgerVars)
    OBVIOUS
  <2>1. CASE Next
    BY <2>1, LedgerStep
  <2>2. CASE UNCHANGED vars
    BY <2>2 DEF vars, Ledger!ledgerVars, SealedUpTo
  <2>3. QED BY <2>1, <2>2
<1>2. QED BY <1>1, LedgerStart, TypeInvariant, Integrity, PTL
      DEF Spec, ImplementsLedger, Ledger!LedgerSpec

-----------------------------------------------------------------------------
(* Torn lines and lost tails *)

(* The first n lines are records.                                           *)
Whole(lines, n) == \A k \in 1 .. n : lines[k] # Junk

(* Up to the first torn line the lines are one chain.                       *)
Chained(lines) == \A i \in 1 .. Len(lines) : Whole(lines, i) => RecordOK(lines, i)

(* The engine would go on after the n-th line.                              *)
EngineGoesOn(n) == eng.seq = n /\ eng.prevHash = PrevRec(logFile.lines, n + 1)

(* The log is a chain up to the first torn line, which no later line can    *)
(* follow up; an engine goes on where the log ends, unless a line there is  *)
(* torn or lacks its newline: what comes then is glued to it.               *)
ChainInv ==
  /\ Chained(logFile.lines)
  /\ logFile.open => Len(logFile.lines) > 0
  /\ proc \in {"down", "replaySeals"} => eng.seq = 0 /\ eng.prevHash = ZeroHash
  /\ proc = "replayLog" => /\ replay.next <= Len(logFile.lines) + 1
                           /\ Whole(logFile.lines, replay.next - 1)
                           /\ EngineGoesOn(replay.next - 1)
  /\ proc = "up" /\ ~logFile.open /\ Whole(logFile.lines, Len(logFile.lines)) =>
       EngineGoesOn(Len(logFile.lines))

LEMMA ChainAppend ==
  ASSUME NEW lines \in Seq(Record \cup {Junk}), Chained(lines), NEW l \in Record \cup {Junk},
         Whole(lines, Len(lines)) /\ l # Junk =>
           /\ l.seq = Len(lines) + 1 /\ l.leaf = LeafHash(l.event)
           /\ l.prev = PrevRec(lines, Len(lines) + 1) /\ l.rec = NodeHash(l.prev, l.leaf)
  PROVE  /\ Chained(Append(lines, l))
         /\ Whole(Append(lines, l), Len(lines) + 1) => Whole(lines, Len(lines)) /\ l # Junk
<1> DEFINE n == Len(lines)
           more == Append(lines, l)
<1>1. /\ n \in Nat /\ Len(more) = n + 1 /\ more[n + 1] = l
      /\ \A i \in 1 .. n : more[i] = lines[i]
  BY AppendProperties
<1> HIDE DEF more
<1>2. \A i \in 0 .. n : Whole(more, i) <=> Whole(lines, i)
  BY <1>1 DEF Whole
<1>3. Whole(more, n + 1) => Whole(lines, n) /\ l # Junk
  BY <1>1 DEF Whole
<1>4. ASSUME NEW i \in 1 .. n, Whole(more, i) PROVE RecordOK(more, i)
  <2>1. RecordOK(lines, i) /\ more[i] = lines[i] /\ (i # 1 => i - 1 \in 1 .. n)
    BY <1>1, <1>2, <1>4 DEF Chained
  <2>2. PrevRec(more, i) = PrevRec(lines, i)
    BY <1>1, <2>1 DEF PrevRec
  <2> QED BY <2>1, <2>2 DEF RecordOK
<1>5. ASSUME Whole(more, n + 1) PROVE RecordOK(more, n + 1)
  <2>1. PrevRec(more, n + 1) = PrevRec(lines, n + 1)
    BY <1>1 DEF PrevRec
  <2> QED BY <1>1, <1>3, <1>5, <2>1 DEF RecordOK
<1>6. Chained(more)
  BY <1>1, <1>4, <1>5 DEF Chained
<1> QED BY <1>3, <1>6 DEF more

LEMMA ChainGlued ==
  ASSUME NEW lines \in Seq(Record \cup {Junk}), Chained(lines), Len(lines) > 0
  PROVE  LET more == [lines EXCEPT ![Len(lines)] = Junk]
         IN  Chained(more) /\ Len(more) = Len(lines) /\ ~Whole(more, Len(lines))
<1> DEFINE n == Len(lines)
           more == [lines EXCEPT ![n] = Junk]
<1>1. /\ n \in Nat \ {0} /\ Len(more) = n /\ more[n] = Junk
      /\ \A i \in 1 .. n - 1 : more[i] = lines[i]
  BY ExceptSeq
<1> HIDE DEF more
<1>2. ~Whole(more, n)
  BY <1>1 DEF Whole
<1>3. ASSUME NEW i \in 1 .. n, Whole(more, i) PROVE RecordOK(more, i)
  <2>1. i \in 1 .. n - 1
    BY <1>1, <1>2, <1>3
  <2>2. Whole(lines, i)
    BY <1>1, <1>3, <2>1 DEF Whole
  <2>3. RecordOK(lines, i) /\ more[i] = lines[i] /\ (i # 1 => i - 1 \in 1 .. n - 1)
    BY <1>1, <2>1, <2>2 DEF Chained
  <2>4. PrevRec(more, i) = PrevRec(lines, i)
    BY <1>1, <2>3 DEF PrevRec
  <2> QED BY <2>3, <2>4 DEF RecordOK
<1> QED BY <1>1, <1>2, <1>3 DEF Chained, more

LEMMA ChainCut ==
  ASSUME NEW lines \in Seq(Record \cup {Junk}), Chained(lines), NEW n \in 0 .. Len(lines)
  PROVE  Chained(SubSeq(lines, 1, n)) /\ Len(SubSeq(lines, 1, n)) = n
<1> DEFINE less == SubSeq(lines, 1, n)
<1>1. Len(less) = n /\ n <= Len(lines) /\ \A i \in 1 .. n : less[i] = lines[i]
  OBVIOUS
<1> HIDE DEF less
<1>2. ASSUME NEW i \in 1 .. n, Whole(less, i) PROVE RecordOK(less, i)
  <2>1. Whole(lines, i)
    BY <1>1, <1>2 DEF Whole
  <2>2. RecordOK(lines, i) /\ less[i] = lines[i] /\ (i # 1 => i - 1 \in 1 .. n)
    BY <1>1, <2>1 DEF Chained
  <2>3. PrevRec(less, i) = PrevRec(lines, i)
    BY <1>1, <2>2 DEF PrevRec
  <2> QED BY <2>2, <2>3 DEF RecordOK
<1> QED BY <1>1, <1>2 DEF Chained, less

(* What one write of Append leaves of the log, however it ends.             *)
LEMMA ChainGlue ==
  ASSUME TypeOK, ChainInv, proc = "up", "cut" \notin Texts, NEW ev \in Input,
         NEW l \in {NewRecord(ev), Junk}
  PROVE  LET more == Glue(logFile, l) IN
         /\ Chained(more) /\ Len(more) > 0
         /\ Whole(more, Len(more)) =>
              /\ ~logFile.open /\ Whole(logFile.lines, Len(logFile.lines)) /\ l # Junk
              /\ more = Append(logFile.lines, l)
<1> DEFINE lines == logFile.lines
<1>1. lines \in Seq(Record \cup {Junk}) /\ Len(lines) \in Nat /\ Chained(lines)
  BY DEF TypeOK, FileOK, File, ChainInv
<1>2. NewRecord(ev) \in Record /\ NewRecord(ev) # Junk /\ l \in Record \cup {Junk}
  BY NewRecordType, SealedAuditAssumption
<1>3. CASE logFile.open
  <2>1. Len(lines) > 0 /\ Glue(logFile, l) = [lines EXCEPT ![Len(lines)] = Junk]
    BY <1>3 DEF ChainInv, Glue
  <2> QED BY <1>1, <2>1, ChainGlued
<1>4. CASE ~logFile.open
  <2>1. Glue(logFile, l) = Append(lines, l) /\ Len(Append(lines, l)) = Len(lines) + 1
    BY <1>1, <1>2, <1>4, AppendProperties DEF Glue
  <2>2. ASSUME Whole(lines, Len(lines)), l # Junk
        PROVE  /\ l.seq = Len(lines) + 1 /\ l.leaf = LeafHash(l.event)
               /\ l.prev = PrevRec(lines, Len(lines) + 1) /\ l.rec = NodeHash(l.prev, l.leaf)
    <3>1. l = NewRecord(ev) /\ EngineGoesOn(Len(lines))
      BY <1>4, <2>2 DEF ChainInv
    <3>2. RoundTrip(ev) = ev
      BY SealedAuditAssumption DEF Input, RoundTrip
    <3>3. l = [seq |-> eng.seq + 1, event |-> ev, leaf |-> ev, prev |-> eng.prevHash,
               rec |-> NodeHash(eng.prevHash, ev)]
      BY <3>1, <3>2 DEF NewRecord, SealedRecord, LeafHash
    <3> QED BY <3>1, <3>3 DEF EngineGoesOn, LeafHash
  <2>3. /\ Chained(Append(lines, l))
        /\ Whole(Append(lines, l), Len(lines) + 1) => Whole(lines, Len(lines)) /\ l # Junk
    BY <1>1, <1>2, <2>2, ChainAppend
  <2> QED BY <1>1, <1>4, <2>1, <2>3
<1> QED BY <1>3, <1>4

LEMMA ChainWritten ==
  ASSUME TypeOK, ChainInv, proc = "up", "cut" \notin Texts, NEW ev \in Input,
         NEW f, f \in Written(logFile, NewRecord(ev)) \/ f \in Cut(logFile, NewRecord(ev))
  PROVE  Chained(f.lines) /\ (f.open => Len(f.lines) > 0)
<1>1. logFile \in File(Record \cup {Junk})
  BY DEF TypeOK, FileOK
<1>2. CASE f = logFile
  BY <1>2 DEF ChainInv
<1>3. CASE \E l \in {NewRecord(ev), Junk} : f.lines = Glue(logFile, l)
  BY <1>3, ChainGlue
<1>4. f = logFile \/ \E l \in {NewRecord(ev), Junk} : f.lines = Glue(logFile, l)
  <2>1. CASE f \in Written(logFile, NewRecord(ev))
    BY <1>1, <2>1 DEF Written, File
  <2>2. CASE f \in Cut(logFile, NewRecord(ev))
    BY <1>1, <2>2 DEF Cut, File
  <2> QED BY <2>1, <2>2
<1> QED BY <1>2, <1>3, <1>4

(* Steps that leave the log and where the engine goes on alone.             *)
LEMMA ChainKept ==
  ASSUME ChainInv, logFile' = logFile, proc = "up", proc' \in {"up", "closed"},
         eng'.seq = eng.seq, eng'.prevHash = eng.prevHash
  PROVE  ChainInv'
BY DEF ChainInv, EngineGoesOn

LEMMA ChainEngine ==
  ASSUME TypeOK, ChainInv, "cut" \notin Texts, Engine PROVE ChainInv'
<1>1. ASSUME NEW ev \in Input, AppendEvent(ev) PROVE ChainInv'
  <2> DEFINE r == NewRecord(ev)
             n == Len(logFile.lines)
  <2>1. logFile \in File(Record \cup {Junk}) /\ n \in Nat /\ eng \in EngineState
    BY DEF TypeOK, FileOK, File
  <2>2. logFile'.lines = Glue(logFile, r)
    BY <1>1, <2>1 DEF AppendEvent, Written, File
  <2>3. Chained(logFile'.lines) /\ Len(logFile'.lines) > 0
    BY <1>1, <2>2, ChainGlue DEF AppendEvent
  <2>4. ASSUME Whole(logFile'.lines, Len(logFile'.lines))
        PROVE  EngineGoesOn(Len(logFile.lines))'
    <3>1. ~logFile.open /\ Whole(logFile.lines, n) /\ logFile'.lines = Append(logFile.lines, r)
      BY <1>1, <2>2, <2>4, ChainGlue DEF AppendEvent
    <3>2. EngineGoesOn(n) /\ r.seq = eng.seq + 1
      BY <1>1, <3>1 DEF ChainInv, AppendEvent, NewRecord, SealedRecord
    <3>3. Len(logFile'.lines) = n + 1 /\ logFile'.lines[n + 1] = r
      BY <2>1, <3>1, NewRecordType, AppendProperties DEF File
    <3>4. eng'.seq = r.seq /\ eng'.prevHash = r.rec
      BY <1>1, <2>1 DEF AppendEvent, EngineState
    <3>5. PrevRec(logFile'.lines, (n + 1) + 1) = r.rec
      BY <2>1, <3>3 DEF PrevRec
    <3> QED BY <3>2, <3>3, <3>4, <3>5 DEF EngineGoesOn
  <2> QED BY <1>1, <2>3, <2>4 DEF ChainInv, AppendEvent
<1>2. ASSUME NEW ev \in Input, AppendFails(ev) PROVE ChainInv'
  <2>1. Chained(logFile'.lines) /\ (logFile'.open => Len(logFile'.lines) > 0)
    BY <1>2, ChainWritten DEF AppendFails
  <2>2. logFile' = logFile \/ logFile'.open
    BY <1>2 DEF AppendFails, Cut, TypeOK, FileOK, File
  <2> QED BY <1>2, <2>1, <2>2 DEF AppendFails, ChainInv, EngineGoesOn
<1>3. ASSUME SealDone \/ SealFails \/ NothingToSeal
      PROVE  eng'.seq = eng.seq /\ eng'.prevHash = eng.prevHash
  BY <1>3 DEF SealDone, SealFails, NothingToSeal, TypeOK, EngineState
<1>4. CASE SealTick
  BY <1>3, <1>4, ChainKept DEF SealTick
<1>5. CASE Close
  BY <1>3, <1>5, ChainKept DEF Close
<1> QED BY <1>1, <1>2, <1>4, <1>5 DEF Engine

LEMMA ChainStops ==
  ASSUME TypeOK, ChainInv, "cut" \notin Texts, Stops PROVE ChainInv'
<1>1. Stopped
  BY DEF Stops, Crash, CrashInAppend, CrashInSeal, PowerLoss
<1>2. Chained(logFile'.lines) /\ (logFile'.open => Len(logFile'.lines) > 0)
  <2>1. CASE Crash \/ CrashInSeal
    BY <2>1 DEF Crash, CrashInSeal, ChainInv
  <2>2. ASSUME NEW ev \in Input, CrashInAppend(ev)
        PROVE  Chained(logFile'.lines) /\ (logFile'.open => Len(logFile'.lines) > 0)
    BY <2>2, ChainWritten DEF CrashInAppend
  <2>3. CASE PowerLoss
    <3>1. /\ logFile.lines \in Seq(Record \cup {Junk}) /\ Len(logFile.lines) \in Nat
          /\ logFile.synced \in Nat
      BY DEF TypeOK, FileOK, File
    <3>2. PICK k \in logFile.synced .. Len(logFile.lines) :
            logFile' = [lines |-> SubSeq(logFile.lines, 1, k),
                        open |-> logFile.open /\ k = Len(logFile.lines), synced |-> k]
      BY <2>3 DEF PowerLoss, Truncated
    <3>3. k \in 0 .. Len(logFile.lines)
      BY <3>1, <3>2
    <3>4. Chained(SubSeq(logFile.lines, 1, k)) /\ Len(SubSeq(logFile.lines, 1, k)) = k
      BY <3>1, <3>3, ChainCut DEF ChainInv
    <3> QED BY <3>2, <3>4 DEF ChainInv
  <2> QED BY <2>1, <2>2, <2>3 DEF Stops
<1> QED BY <1>1, <1>2 DEF Stopped, ZeroEngine, ChainInv

LEMMA ChainNew ==
  ASSUME TypeOK, ChainInv, New PROVE ChainInv'
<1>1. logFile' = logFile
  BY DEF New, Restart, ReplaySeal, ReplaySealsDone, ReplayRecord, ReplayDone
<1>2. replay.next \in Nat \ {0} /\ Len(logFile.lines) \in Nat /\ eng \in EngineState
      /\ replay \in ReplayState
  BY DEF TypeOK, ReplayState, FileOK, File
<1>3. CASE Restart
  BY <1>1, <1>3 DEF Restart, ChainInv
<1>4. CASE Disable
  BY <1>1, <1>4 DEF Disable, ChainInv
<1>5. CASE ReplaySeal /\ ~Disable
  <2>1. eng'.seq = eng.seq /\ eng'.prevHash = eng.prevHash /\ proc' = "replaySeals" /\ proc = proc'
    BY <1>2, <1>5 DEF ReplaySeal, EngineState
  <2> QED BY <1>1, <2>1 DEF ChainInv
<1>6. CASE ReplaySealsDone
  <2>1. proc = "replaySeals" /\ proc' = "replayLog" /\ replay'.next = 1 /\ eng' = eng
    BY <1>2, <1>6 DEF ReplaySealsDone, ReplayState
  <2>2. Whole(logFile.lines, 0) /\ PrevRec(logFile.lines, 1) = ZeroHash
    BY DEF Whole, PrevRec
  <2>3. replay'.next <= Len(logFile.lines) + 1 /\ replay'.next - 1 = 0
    BY <1>2, <2>1
  <2> QED BY <1>1, <2>1, <2>2, <2>3 DEF ChainInv, EngineGoesOn
<1>7. CASE ReplayRecord /\ ~Disable
  <2> DEFINE n == replay.next
             r == logFile.lines[n]
  <2>1. /\ proc = "replayLog" /\ proc' = "replayLog" /\ r # Junk
        /\ eng'.seq = r.seq /\ eng'.prevHash = r.rec /\ replay'.next = n + 1
        /\ n <= Len(logFile.lines)
    BY <1>2, <1>7 DEF ReplayRecord, EngineState, ReplayState
  <2>2. Whole(logFile.lines, n) /\ n \in 1 .. Len(logFile.lines)
    BY <1>2, <2>1 DEF ChainInv, Whole
  <2>3. RecordOK(logFile.lines, n)
    BY <2>2 DEF ChainInv, Chained
  <2>4. r.seq = n /\ PrevRec(logFile.lines, n + 1) = r.rec
    <3>1. r.seq = n
      BY <2>3 DEF RecordOK
    <3>2. n + 1 # 1 /\ (n + 1) - 1 = n
      BY <1>2
    <3> QED BY <3>1, <3>2 DEF PrevRec
  <2>5. replay'.next - 1 = n
    BY <1>2, <2>1
  <2> QED BY <1>1, <1>2, <2>1, <2>2, <2>4, <2>5 DEF ChainInv, EngineGoesOn
<1>8. CASE ReplayDone
  <2>1. replay.next - 1 = Len(logFile.lines)
    BY <1>2, <1>8 DEF ReplayDone, ChainInv
  <2> QED BY <1>1, <1>8, <2>1 DEF ReplayDone, ChainInv, EngineGoesOn
<1> QED BY <1>3, <1>4, <1>5, <1>6, <1>7, <1>8 DEF New

LEMMA ChainStep ==
  ASSUME "cut" \notin Texts PROVE TypeOK /\ ChainInv /\ [Next]_vars => ChainInv'
<1> SUFFICES ASSUME TypeOK, ChainInv, [Next]_vars PROVE ChainInv'
  OBVIOUS
<1>1. CASE Verify
  <2>1. CASE VerifySeal
    <3>1. eng'.seq = eng.seq /\ eng'.prevHash = eng.prevHash
      BY <2>1 DEF VerifySeal, SealDone, SealFails, NothingToSeal, TypeOK, EngineState
    <3> QED BY <2>1, <3>1, ChainKept DEF VerifySeal
  <2>2. CASE VerifyReadLog \/ VerifyReadSeals
    BY <2>2 DEF VerifyReadLog, VerifyReadSeals, ChainInv, EngineGoesOn
  <2> QED BY <1>1, <2>1, <2>2 DEF Verify
<1>2. CASE UNCHANGED vars
  BY <1>2 DEF vars, ChainInv, EngineGoesOn
<1> QED BY <1>1, <1>2, ChainEngine, ChainStops, ChainNew DEF Next

(* Torn writes, lost tails, crashes in any place and replays of what they   *)
(* left harm only what is newest: a log without a torn line is one chain    *)
(* from its first record (engine.go, Append and replay).                    *)
THEOREM LogChained == ASSUME "cut" \notin Texts PROVE Spec => []LogStaysChained
<1>1. Init => ChainInv
  BY DEF Init, ChainInv, Chained, EmptyFile, ZeroEngine
<1>2. TypeOK /\ ChainInv => LogStaysChained
  <2> SUFFICES ASSUME TypeOK, ChainInv, ~HasJunk(logFile.lines)
               PROVE  \A i \in 1 .. Len(logFile.lines) : RecordOK(logFile.lines, i)
    BY DEF LogStaysChained
  <2>1. Len(logFile.lines) \in Nat
    BY DEF TypeOK, FileOK, File
  <2>2. \A i \in 1 .. Len(logFile.lines) : Whole(logFile.lines, i)
    BY <2>1 DEF HasJunk, Whole
  <2> QED BY <2>2 DEF ChainInv, Chained
<1> QED BY <1>1, <1>2, ChainStep, TypeInvariant, PTL DEF Spec
=============================================================================
