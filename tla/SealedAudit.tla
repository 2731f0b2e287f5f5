---------------------------- MODULE SealedAudit ----------------------------
(***************************************************************************)
(* The tamper-evident audit engine of proxy/compliance/audit (engine.go,   *)
(* verify.go), as proxy/auditchain.go runs it: goroutines append events, a *)
(* 60-second ticker seals what is pending, an HTTP handler verifies the    *)
(* live files, and the process may stop at any instant and replay the      *)
(* files when it comes back.                                               *)
(*                                                                         *)
(* Append and Seal each run under Engine.mu, so each is one step; a crash  *)
(* between the file write and the update of the fields is a step of its    *)
(* own, and so is each line of the replay.  A digest is represented by     *)
(* what it commits to, so that no two collide; a quote's signature always  *)
(* verifies (one key).                                                     *)
(***************************************************************************)
EXTENDS Naturals, Sequences, FiniteSets

CONSTANTS
  EventIDs,      \* identities of the events the proxy logs
  Texts,         \* what their free text is: "utf8", or "cut" inside a rune
  Junk,          \* a line that is not a JSON object
  TornWrites,    \* a write(2) may stop in the middle of a line
  LossyDisk,     \* Sync may fail unnoticed and power loss drop the tail
  MaxRecords,    \* bound: lines of audit.log
  MaxFaults      \* bound: crashes, power losses and failed writes

Event == [id : EventIDs, text : {"utf8", "cut", "replaced"}]

(* A leaf digest commits to an event, a link of the chain and a Merkle root *)
(* to the leaves below them.                                                *)
Leaf == Event
Hash == Seq(Leaf)

Record == [seq : Nat, event : Event, leaf : Leaf, prev : Hash, rec : Hash]
Quote == [sealID : Nat, seqStart : Nat, seqEnd : Nat, root : Hash, prevRoot : Hash]

ASSUME SealedAuditAssumption ==
  /\ Texts \subseteq {"utf8", "cut"}
  /\ TornWrites \in BOOLEAN /\ LossyDisk \in BOOLEAN
  /\ MaxRecords \in Nat /\ MaxFaults \in Nat
  /\ Junk \notin Record /\ Junk \notin Quote

VARIABLES
  proc,          \* "down", "replaySeals", "replayLog", "up", "closed", "disabled"
  eng,           \* the fields of Engine
  replay,        \* locals of Engine.replay: next line, lastSealedSeq
  logFile,       \* audit.log
  sealFile,      \* seals.log
  auditor,       \* the verification request in progress, and its last answer
  acked,         \* history: the records Append returned without an error
  faults         \* how many faults happened

vars == <<proc, eng, replay, logFile, sealFile, auditor, acked, faults>>

-----------------------------------------------------------------------------
(* Data *)

(* encoding/json writes an invalid byte as an escaped U+FFFD; decoded, it   *)
(* is a real U+FFFD, and encoding that again writes the rune itself.        *)
RoundTrip(ev) == IF ev.text = "cut" THEN [ev EXCEPT !.text = "replaced"] ELSE ev

ZeroHash == << >>
LeafHash(ev) == ev
NodeHash(prev, leaf) == Append(prev, leaf)
MerkleRoot(leaves) == leaves

SealedRecord(seq, ev, prev) ==
  [seq |-> seq, event |-> RoundTrip(ev), leaf |-> LeafHash(ev),
   prev |-> prev, rec |-> NodeHash(prev, LeafHash(ev))]

ZeroEngine == [seq |-> 0, prevHash |-> ZeroHash, sealID |-> 0,
               prevRoot |-> ZeroHash, pending |-> << >>, pendStart |-> 0]

EngineState == [seq : Nat, prevHash : Hash, sealID : Nat, prevRoot : Hash,
                pending : Seq(Leaf), pendStart : Nat]
ReplayState == [next : Nat \ {0}, lastSealedSeq : Nat]
AuditorState == [pc : {"idle", "readLog", "readSeals"}, recs : Seq(Record \cup {Junk}),
                 seals : Nat, answer : {"none", "clean", "problems", "error"},
                 raced : BOOLEAN]

(* A file: its lines, whether the last one still lacks its newline, and     *)
(* how many lines are certainly on the disk.                                *)
File(T) == [lines : Seq(T), open : BOOLEAN, synced : Nat]
FileOK(f, T) == f \in File(T) /\ f.synced <= Len(f.lines)
EmptyFile == [lines |-> << >>, open |-> FALSE, synced |-> 0]

(* The bytes of a line reach the end of the file: on a line of their own,   *)
(* or glued to an unfinished one.                                           *)
Glue(f, line) ==
  IF f.open THEN [f.lines EXCEPT ![Len(f.lines)] = Junk]
            ELSE Append(f.lines, line)

Written(f, line) ==
  LET g == [f EXCEPT !.lines = Glue(f, line), !.open = FALSE]
  IN {[g EXCEPT !.synced = Len(g.lines)]} \cup (IF LossyDisk THEN {g} ELSE {})

(* What a write that does not complete leaves: nothing or, when it can be   *)
(* torn, a fragment, or all of the line but its newline.                    *)
Cut(f, line) ==
  {f} \cup (IF TornWrites
              THEN {[f EXCEPT !.lines = Glue(f, l), !.open = TRUE] : l \in {Junk, line}}
              ELSE {})

Fault == faults < MaxFaults /\ faults' = faults + 1
-----------------------------------------------------------------------------
(* Append and Seal *)

NewRecord(ev) == SealedRecord(eng.seq + 1, ev, eng.prevHash)

(* Append, its write done: the chain moves on and the leaf is pending.      *)
AppendEvent(ev) ==
  LET r == NewRecord(ev) IN
  /\ proc = "up"
  /\ Len(logFile.lines) < MaxRecords
  /\ logFile' \in Written(logFile, r)
  /\ eng' = [eng EXCEPT !.seq = r.seq, !.prevHash = r.rec,
                        !.pending = Append(@, r.leaf),
                        !.pendStart = IF eng.pending = << >> THEN r.seq ELSE @]
  /\ acked' = acked \cup {r}
  /\ UNCHANGED <<proc, replay, sealFile, auditor, faults>>

AppendFailsUnchecked(ev) ==     \* mutant: the error of the write is ignored
  /\ proc = "up" /\ Len(logFile.lines) < MaxRecords /\ Fault
  /\ logFile' \in Cut(logFile, NewRecord(ev))
  /\ acked' = acked \cup {NewRecord(ev)}
  /\ UNCHANGED <<proc, eng, replay, sealFile, auditor>>

(* Append, its write failed: seq is taken back and the caller gets an error.*)
AppendFails(ev) ==
  /\ proc = "up"
  /\ Len(logFile.lines) < MaxRecords
  /\ Fault
  /\ logFile' \in Cut(logFile, NewRecord(ev))
  /\ UNCHANGED <<proc, eng, replay, sealFile, auditor, acked>>

NewQuoteShort ==                \* mutant: the range ends one record early
  [sealID |-> eng.sealID + 1, seqStart |-> eng.pendStart, seqEnd |-> eng.seq - 1,
   root |-> MerkleRoot(eng.pending), prevRoot |-> eng.prevRoot]

NewQuote == [sealID |-> eng.sealID + 1, seqStart |-> eng.pendStart, seqEnd |-> eng.seq,
             root |-> MerkleRoot(eng.pending), prevRoot |-> eng.prevRoot]

SealDone ==
  /\ eng.pending # << >>
  /\ sealFile' \in Written(sealFile, NewQuote)
  /\ eng' = [eng EXCEPT !.sealID = @ + 1, !.prevRoot = MerkleRoot(eng.pending),
                        !.pending = << >>, !.pendStart = 0]
  /\ UNCHANGED faults

SealFails ==
  /\ eng.pending # << >>
  /\ Fault
  /\ sealFile' \in Cut(sealFile, NewQuote)
  /\ UNCHANGED eng

NothingToSeal == eng.pending = << >> /\ UNCHANGED <<sealFile, eng, faults>>

(* A tick of sealComplianceLoop. *)
SealTick ==
  /\ proc = "up"
  /\ SealDone \/ SealFails
  /\ UNCHANGED <<proc, replay, logFile, auditor, acked>>

(* Close: seal what is left and close the file; an error leaves it open.    *)
Close ==
  /\ proc = "up"
  /\ \/ (SealDone \/ NothingToSeal) /\ proc' = "closed"
     \/ SealFails /\ UNCHANGED proc
  /\ UNCHANGED <<replay, logFile, auditor, acked>>

-----------------------------------------------------------------------------
(* Stopping, and New: replaying the files *)

NoReplay == [next |-> 1, lastSealedSeq |-> 0]
Idle == [auditor EXCEPT !.pc = "idle", !.recs = << >>, !.seals = 0]

Stopped == /\ proc' = "down" /\ eng' = ZeroEngine /\ replay' = NoReplay
           /\ auditor' = Idle /\ UNCHANGED acked

(* The process dies: between two steps, or inside a write.                  *)
Crash ==
  /\ proc # "down" /\ Fault /\ Stopped
  /\ UNCHANGED <<logFile, sealFile>>

CrashInAppend(ev) ==
  /\ proc = "up" /\ Fault /\ Stopped
  /\ Len(logFile.lines) < MaxRecords
  /\ logFile' \in Written(logFile, NewRecord(ev)) \cup Cut(logFile, NewRecord(ev))
  /\ UNCHANGED sealFile

CrashInSeal ==
  /\ proc = "up" /\ Fault /\ Stopped
  /\ eng.pending # << >>
  /\ sealFile' \in Written(sealFile, NewQuote) \cup Cut(sealFile, NewQuote)
  /\ UNCHANGED logFile

Truncated(f) ==
  {[lines |-> SubSeq(f.lines, 1, k), open |-> f.open /\ k = Len(f.lines), synced |-> k] :
      k \in f.synced .. Len(f.lines)}

PowerLoss ==
  /\ LossyDisk /\ Fault /\ Stopped
  /\ logFile' \in Truncated(logFile)
  /\ sealFile' \in Truncated(sealFile)

Restart ==
  /\ proc = "down"
  /\ proc' = "replaySeals"
  /\ UNCHANGED <<eng, replay, logFile, sealFile, auditor, acked, faults>>

(* A line that does not parse makes New fail: the audit log stays disabled. *)
Disable == proc' = "disabled" /\ eng' = ZeroEngine /\ replay' = NoReplay

ReplaySeal ==
  /\ proc = "replaySeals"
  /\ replay.next <= Len(sealFile.lines)
  /\ LET q == sealFile.lines[replay.next] IN
     IF q = Junk THEN Disable
     ELSE /\ eng' = [eng EXCEPT !.sealID = q.sealID, !.prevRoot = q.root]
          /\ replay' = [next |-> replay.next + 1, lastSealedSeq |-> q.seqEnd]
          /\ UNCHANGED proc
  /\ UNCHANGED <<logFile, sealFile, auditor, acked, faults>>

ReplaySealsDone ==
  /\ proc = "replaySeals"
  /\ replay.next > Len(sealFile.lines)
  /\ proc' = "replayLog"
  /\ replay' = [replay EXCEPT !.next = 1]
  /\ UNCHANGED <<eng, logFile, sealFile, auditor, acked, faults>>

ReplayRecordNoHash ==   \* mutant: the chain hash is not restored
  /\ proc = "replayLog" /\ replay.next <= Len(logFile.lines)
  /\ LET r == logFile.lines[replay.next] IN
     IF r = Junk THEN Disable
     ELSE /\ eng' = [eng EXCEPT !.seq = r.seq,
                       !.pending = IF r.seq > replay.lastSealedSeq THEN Append(@, r.leaf) ELSE @,
                       !.pendStart = IF r.seq > replay.lastSealedSeq /\ eng.pending = << >> THEN r.seq ELSE @]
          /\ replay' = [replay EXCEPT !.next = @ + 1] /\ UNCHANGED proc
  /\ UNCHANGED <<logFile, sealFile, auditor, acked, faults>>

ReplayRecordNotPending ==   \* mutant: the unsealed records are forgotten
  /\ proc = "replayLog" /\ replay.next <= Len(logFile.lines)
  /\ LET r == logFile.lines[replay.next] IN
     IF r = Junk THEN Disable
     ELSE /\ eng' = [eng EXCEPT !.seq = r.seq, !.prevHash = r.rec]
          /\ replay' = [replay EXCEPT !.next = @ + 1] /\ UNCHANGED proc
  /\ UNCHANGED <<logFile, sealFile, auditor, acked, faults>>

ReplayRecord ==
  /\ proc = "replayLog"
  /\ replay.next <= Len(logFile.lines)
  /\ LET r == logFile.lines[replay.next] IN
     IF r = Junk THEN Disable
     ELSE /\ eng' = [eng EXCEPT
                       !.seq = r.seq, !.prevHash = r.rec,
                       !.pending = IF r.seq > replay.lastSealedSeq THEN Append(@, r.leaf) ELSE @,
                       !.pendStart = IF r.seq > replay.lastSealedSeq /\ eng.pending = << >>
                                       THEN r.seq ELSE @]
          /\ replay' = [replay EXCEPT !.next = @ + 1]
          /\ UNCHANGED proc
  /\ UNCHANGED <<logFile, sealFile, auditor, acked, faults>>

ReplayDone ==
  /\ proc = "replayLog"
  /\ replay.next > Len(logFile.lines)
  /\ proc' = "up"
  /\ replay' = NoReplay
  /\ UNCHANGED <<eng, logFile, sealFile, auditor, acked, faults>>

-----------------------------------------------------------------------------
(* Verify, behind GET /armor/api/compliance/verify: seal, read audit.log,   *)
(* read seals.log, compare.  It stops at no problem; that it is clean is    *)
(* what its answer turns on.                                                *)

PrevRec(recs, i) == IF i = 1 THEN ZeroHash ELSE recs[i - 1].rec
PrevRoot(quotes, j) == IF j = 1 THEN ZeroHash ELSE quotes[j - 1].root

RecordOK(recs, i) ==
  /\ recs[i].seq = i
  /\ recs[i].leaf = LeafHash(recs[i].event)
  /\ recs[i].prev = PrevRec(recs, i)
  /\ recs[i].rec = NodeHash(recs[i].prev, recs[i].leaf)

Leaves(recs, a, b) == [k \in 1 .. (b + 1 - a) |-> LeafHash(recs[a + k - 1].event)]

QuoteOKStrict(recs, quotes, j) ==   \* mutant: the last record is out of range
  LET q == quotes[j] IN
  /\ q.prevRoot = PrevRoot(quotes, j)
  /\ q.seqEnd < Len(recs)
  /\ q.root = MerkleRoot(Leaves(recs, q.seqStart, q.seqEnd))

QuoteOK(recs, quotes, j) ==
  LET q == quotes[j] IN
  /\ q.prevRoot = PrevRoot(quotes, j)
  /\ q.seqEnd <= Len(recs)
  /\ q.root = MerkleRoot(Leaves(recs, q.seqStart, q.seqEnd))

Clean(recs, quotes) ==
  /\ \A i \in 1 .. Len(recs) : RecordOK(recs, i)
  /\ \A j \in 1 .. Len(quotes) : QuoteOK(recs, quotes, j)

HasJunk(lines) == \E i \in 1 .. Len(lines) : lines[i] = Junk

VerifySeal ==
  /\ proc = "up" /\ auditor.pc = "idle"
  /\ SealDone \/ SealFails \/ NothingToSeal
  /\ auditor' = [auditor EXCEPT !.pc = "readLog"]
  /\ UNCHANGED <<proc, replay, logFile, acked>>

VerifyReadLog ==
  /\ auditor.pc = "readLog"
  /\ auditor' = IF HasJunk(logFile.lines)
                  THEN [Idle EXCEPT !.answer = "error", !.raced = FALSE]
                  ELSE [auditor EXCEPT !.pc = "readSeals", !.recs = logFile.lines,
                                       !.seals = Len(sealFile.lines)]
  /\ UNCHANGED <<proc, eng, replay, logFile, sealFile, acked, faults>>

VerifyReadSeals ==
  /\ auditor.pc = "readSeals"
  /\ auditor' = [Idle EXCEPT
        !.answer = IF HasJunk(sealFile.lines) THEN "error"
                   ELSE IF Clean(auditor.recs, sealFile.lines) THEN "clean" ELSE "problems",
        !.raced = Len(sealFile.lines) > auditor.seals]
  /\ UNCHANGED <<proc, eng, replay, logFile, sealFile, acked, faults>>

-----------------------------------------------------------------------------
Init ==
  /\ proc = "down" /\ eng = ZeroEngine /\ replay = NoReplay
  /\ logFile = EmptyFile /\ sealFile = EmptyFile
  /\ auditor = [pc |-> "idle", recs |-> << >>, seals |-> 0, answer |-> "none", raced |-> FALSE]
  /\ acked = {} /\ faults = 0

Input == [id : EventIDs, text : Texts]

Engine == SealTick \/ Close \/ \E ev \in Input : AppendEvent(ev) \/ AppendFails(ev)
Stops == Crash \/ CrashInSeal \/ PowerLoss \/ \E ev \in Input : CrashInAppend(ev)
New == Restart \/ ReplaySeal \/ ReplaySealsDone \/ ReplayRecord \/ ReplayDone
Verify == VerifySeal \/ VerifyReadLog \/ VerifyReadSeals

Next == Engine \/ Stops \/ New \/ Verify

Spec == Init /\ [][Next]_vars

(* docker-compose.yml restarts the container unless it was stopped, New     *)
(* runs to its end, and the ticker keeps ticking.                           *)
FairSpec == Spec /\ WF_vars(New) /\ WF_vars(SealTick)

-----------------------------------------------------------------------------
(* Properties *)

(* The fields of Engine, the two files and the verifier's state keep their  *)
(* types, a torn line being the only thing in a file that is not a record.  *)
TypeOK ==
  /\ proc \in {"down", "replaySeals", "replayLog", "up", "closed", "disabled"}
  /\ eng \in EngineState
  /\ replay \in ReplayState
  /\ FileOK(logFile, Record \cup {Junk})
  /\ FileOK(sealFile, Quote \cup {Junk})
  /\ auditor \in AuditorState
  /\ acked \subseteq Record
  /\ faults \in 0 .. MaxFaults

(* At every instant, also while the process is down or half way through a   *)
(* replay, the two files on the disk pass Verify: crashes and restarts at   *)
(* any point neither fork the chain, skip a number nor seal a record twice. *)
DiskVerifies == ~HasJunk(logFile.lines) /\ ~HasJunk(sealFile.lines)
                /\ Clean(logFile.lines, sealFile.lines)

SealEnd(quotes, j) == IF j = 0 THEN 0 ELSE quotes[j].seqEnd
SealedUpTo == SealEnd(sealFile.lines, Len(sealFile.lines))

Contiguous(quotes) ==
  \A j \in 1 .. Len(quotes) :
    /\ quotes[j].seqStart = 1 + SealEnd(quotes, j - 1)
    /\ quotes[j].seqStart <= quotes[j].seqEnd
    /\ quotes[j].sealID = j

(* The seals partition a prefix of the log: each starts where the one       *)
(* before it ended, so no record is left out between two batches.           *)
SealsContiguous == Contiguous(sealFile.lines)

(* A running engine is where its files say: whatever crashes came before,   *)
(* its pending leaves are exactly the records after the last seal.          *)
EngineMatchesFiles ==
  proc = "up" =>
    /\ eng.seq = Len(logFile.lines)
    /\ eng.sealID = Len(sealFile.lines)
    /\ eng.pending = Leaves(logFile.lines, SealedUpTo + 1, eng.seq)

(* What Append answered without an error stays in the log, at its number    *)
(* and with its hashes, and can be read back ("durably writes an event",    *)
(* engine.go:142).                                                          *)
AckedInLog ==
  \A r \in acked : r.seq <= Len(logFile.lines) /\ logFile.lines[r.seq] = r

(* An answer of the verification endpoint other than "clean", over files    *)
(* nobody altered, can only come from a seal written between its two reads. *)
AlarmOnlyIfRaced == auditor.answer \in {"problems", "error"} => auditor.raced

(* The quote has the record at position i among its leaves: an auditor can  *)
(* be given an inclusion proof for it.                                      *)
Attests(recs, q, i) == /\ i \in q.seqStart .. q.seqEnd
                       /\ q.root[i + 1 - q.seqStart] = recs[i].leaf

(* No record escapes the seals: once the engine has nothing left to seal,   *)
(* every record of the log has an inclusion proof in some seal ("a Merkle   *)
(* root over all events appended since the last seal", engine.go:193).      *)
NothingEscapesSeals ==
  proc = "up" /\ eng.pending = << >> =>
    \A i \in 1 .. Len(logFile.lines) :
      \E j \in 1 .. Len(sealFile.lines) : Attests(logFile.lines, sealFile.lines[j], i)

(* Losing the tail of the files harms the seals only: a log that still      *)
(* parses is one chain from its first record.                               *)
LogStaysChained ==
  HasJunk(logFile.lines) \/ \A i \in 1 .. Len(logFile.lines) : RecordOK(logFile.lines, i)

(* The inductive invariant behind all of these when writes are whole and    *)
(* the disk keeps them: the files are a chain and a partition of it, and    *)
(* the engine is, at each stage of a replay, as far as it has read.         *)
LogIntact(recs) ==
  recs \in Seq(Record) /\ \A i \in 1 .. Len(recs) : RecordOK(recs, i)

SealsIntact(recs, quotes) ==
  /\ quotes \in Seq(Quote)
  /\ \A j \in 1 .. Len(quotes) : QuoteOK(recs, quotes, j)
  /\ Contiguous(quotes)
  /\ \A j \in 1 .. Len(quotes) : quotes[j].seqEnd <= SealEnd(quotes, Len(quotes))
  /\ \A i \in 1 .. SealEnd(quotes, Len(quotes)) :
       \E j \in 1 .. Len(quotes) : Attests(recs, quotes[j], i)

FilesIntact == /\ ~logFile.open /\ ~sealFile.open
               /\ LogIntact(logFile.lines)
               /\ SealsIntact(logFile.lines, sealFile.lines)

(* The fields of an engine that has read n records and all of the seals.    *)
EngineAt(e, recs, quotes, n) ==
  LET done == SealEnd(quotes, Len(quotes)) IN
  /\ e.seq = n
  /\ e.prevHash = PrevRec(recs, n + 1)
  /\ e.sealID = Len(quotes)
  /\ e.prevRoot = PrevRoot(quotes, Len(quotes) + 1)
  /\ e.pending = Leaves(recs, done + 1, n)
  /\ e.pendStart = IF n <= done THEN 0 ELSE done + 1

EngineIntact ==
  /\ proc = "down" => eng = ZeroEngine /\ replay = NoReplay
  /\ proc = "replaySeals" =>
       /\ replay.next <= Len(sealFile.lines) + 1
       /\ eng = [ZeroEngine EXCEPT !.sealID = replay.next - 1,
                                   !.prevRoot = PrevRoot(sealFile.lines, replay.next)]
       /\ replay.lastSealedSeq = SealEnd(sealFile.lines, replay.next - 1)
  /\ proc = "replayLog" =>
       /\ replay.next <= Len(logFile.lines) + 1
       /\ replay.lastSealedSeq = SealedUpTo
       /\ EngineAt(eng, logFile.lines, sealFile.lines, replay.next - 1)
  /\ proc = "up" => EngineAt(eng, logFile.lines, sealFile.lines, Len(logFile.lines))

AuditorIntact ==
  /\ auditor.pc = "readSeals" =>
       /\ auditor.recs \in Seq(Record)
       /\ Len(auditor.recs) <= Len(logFile.lines)
       /\ \A i \in 1 .. Len(auditor.recs) : auditor.recs[i] = logFile.lines[i]
       /\ auditor.seals <= Len(sealFile.lines)
       /\ SealEnd(sealFile.lines, auditor.seals) <= Len(auditor.recs)
  /\ AlarmOnlyIfRaced

AckedIntact == \A r \in acked : r.seq \in 1 .. Len(logFile.lines) /\ logFile.lines[r.seq] = r

Intact == FilesIntact /\ EngineIntact /\ AuditorIntact /\ AckedIntact

(* Every record that reached the log is eventually covered by a seal.       *)
EventuallySealed ==
  \A n \in 1 .. MaxRecords : Len(logFile.lines) >= n ~> SealedUpTo >= n

(* The engine implements the abstract ledger: records are only added, at    *)
(* the end, and a seal takes in everything recorded so far.                 *)
Ledger == INSTANCE AuditLedger WITH
            Entry <- Event,
            entries <- [i \in 1 .. Len(logFile.lines) |-> logFile.lines[i].event],
            sealed <- SealedUpTo

ImplementsLedger == Ledger!LedgerSpec
=============================================================================
