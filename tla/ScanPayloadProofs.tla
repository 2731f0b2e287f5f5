------------------------- MODULE ScanPayloadProofs -------------------------
(***************************************************************************)
(* What reaches the backend, the client and the log, for every policy,     *)
(* every set of marks and chats of every length.                           *)
(***************************************************************************)
EXTENDS ScanPayload, TLAPS

-----------------------------------------------------------------------------
(* The strengthening *)

Streamed == frame.dir = "response" /\ frame.via = "http"

ScanType ==
  [pc : {"convert", "gate", "inspect", "redact", "filter", "inject", "send", "stream", "done"},
   server : {"none", "sound", "unset", "quarantined"}, token : {"none", "own", "foreign"},
   by : {"none", "mcp", "service"} \cup Blocking, msgs : Seq(Message),
   redacted : BOOLEAN, injected : BOOLEAN, missed : BOOLEAN]

(* How far a frame is says what has happened to it.                         *)
Way ==
  /\ scan.pc \in {"convert", "gate", "inspect", "redact"} =>
       scan.msgs = frame.msgs /\ ~scan.injected
  /\ scan.pc \in {"inspect", "redact", "filter", "inject"} => scan.by = "none"
  /\ scan.pc = "stream" \/ scan.missed => Streamed
  /\ scan.pc = "convert" \/ scan.by = "mcp" => frame.dir = "request"
  /\ frame.dir = "response" => frame.kind = "plain"
  /\ scan.pc \notin {"stream", "done"} => ~Streamed
  /\ scan.injected => scan.server = "sound" /\ scan.by = "none" /\ scan.pc \in {"send", "done"}
  /\ scan.pc # "done" => out = [to |-> "nobody", msgs |-> << >>] /\ logged = {}

(* What is sent differs from what came in its marks only, and has one more  *)
(* only where a credential was put in.                                      *)
Kept(i) ==
  /\ scan.msgs[i].role = frame.msgs[i].role /\ scan.msgs[i].form = frame.msgs[i].form
  /\ \A s \in scan.msgs[i].holds :
       s \in frame.msgs[i].holds \/ (s = "credential" /\ scan.injected /\ i \in Sole(frame))

Shape ==
  /\ Len(scan.msgs) = Len(frame.msgs) /\ Len(frame.msgs) > 0
  /\ \A i \in 1 .. Len(frame.msgs) : frame.msgs[i].holds \subseteq Marks /\ Kept(i)

(* No verdict means that nothing was found that is not exempt.              *)
Exempt(s) ==
  \/ s \in RequestOnly /\ frame.dir # "request"
  \/ s \in NotOnControl /\ (frame.kind = "control" \/ s \in granted)
  \/ s = "exec" /\ ~Called(frame)

Passed ==
  scan.by = "none" /\ ~Streamed /\ scan.pc \in {"redact", "filter", "inject", "send", "done"} =>
    \A s \in {Order[i] : i \in DOMAIN Order} : s \in Enabled /\ s \in Text(frame) => Exempt(s)

Unfiltered ==
  scan.by = "none" /\ ~Streamed /\ scan.pc \in {"inject", "send", "done"} =>
    "wasm" \notin Enabled \cap Text(frame)

Clean ==
  scan.by \in {"none", "wasm"} /\ ~Streamed /\ ~scan.injected
    /\ scan.pc \in {"filter", "inject", "send", "done"} =>
    \A i \in Rewritten(frame) : \A s \in scan.msgs[i].holds \cap Redactable \cap Enabled :
      s = "secrets" /\ s \in granted

Gated ==
  scan.server # "none" /\ scan.by # "mcp" =>
    /\ scan.token # "foreign" /\ scan.server # "quarantined"
    /\ RequireScope => "mcp" \in granted

IInv ==
  /\ TypeOK /\ Way /\ Shape /\ Passed /\ Unfiltered /\ Clean /\ Gated
  /\ RedactedLeaves /\ NothingBlockedLeaves /\ CredentialWhereDue /\ LogTells

-----------------------------------------------------------------------------
(* Lemmas *)

(* While nothing is sent there is nothing to show of what is sent.          *)
LEMMA Unsent ==
  ASSUME out' = [to |-> "nobody", msgs |-> << >>], logged' = {}
  PROVE  (RedactedLeaves /\ NothingBlockedLeaves /\ CredentialWhereDue /\ LogTells)'
BY DEF RedactedLeaves, NothingBlockedLeaves, CredentialWhereDue, LogTells, Strings, User

LEMMA SeqOf == ASSUME NEW S, NEW n \in Nat, NEW f \in [1 .. n -> S] PROVE f \in Seq(S) /\ Len(f) = n
OBVIOUS

LEMMA InitIInv == ASSUME Init PROVE IInv
<1>1. /\ frame \in [dir : {"request", "response"}, via : {"http", "ws"},
                    kind : {"chat", "control", "plain"}, msgs : Seq(Message)]
      /\ Len(frame.msgs) > 0 /\ \A i \in 1 .. Len(frame.msgs) : frame.msgs[i].holds \subseteq Marks
      /\ frame.dir = "response" => frame.kind = "plain"
  <2>1. CASE frame \in Responses \/ frame.msgs \in Whole
    <3>1. frame.msgs \in Whole
      BY <2>1 DEF Init, Requests, Responses
    <3>2. frame.msgs \in [1 .. 1 -> Received] /\ {1} = 1 .. 1
      BY <3>1 DEF Whole
    <3>3. frame.msgs \in Seq(Message) /\ Len(frame.msgs) = 1
      <4>1. frame.msgs \in [1 .. 1 -> Message]
        BY <3>2 DEF Received
      <4> QED BY <4>1, SeqOf
    <3>4. /\ frame.dir \in {"request", "response"} /\ frame.via \in {"http", "ws"}
          /\ frame.kind \in {"chat", "control", "plain"}
          /\ frame = [dir |-> frame.dir, via |-> frame.via, kind |-> frame.kind,
                      msgs |-> frame.msgs]
          /\ frame.dir = "response" => frame.kind = "plain"
      BY <2>1 DEF Init, Requests, Responses
    <3> QED BY <3>2, <3>3, <3>4 DEF Received
  <2>2. CASE frame \in Requests /\ frame.msgs \notin Whole
    <3>1. PICK n \in 1 .. MaxMessages : frame.msgs \in [1 .. n -> Received]
      BY <2>2 DEF Requests
    <3>2. frame.msgs \in Seq(Message) /\ Len(frame.msgs) = n
      BY <3>1, ScanPayloadAssumption DEF Received
    <3> QED BY <2>2, <3>1, <3>2, ScanPayloadAssumption DEF Requests, Received
  <2> QED BY <2>1, <2>2 DEF Init
<1>2. TypeOK
  BY <1>1 DEF Init, TypeOK, Blocking, Scopes
<1>3. Way
  BY <1>1 DEF Init, Way, Streamed
<1>4. Shape
  BY <1>1 DEF Init, Shape, Kept
<1>5. Passed /\ Unfiltered /\ Clean /\ Gated
  BY DEF Init, Passed, Unfiltered, Clean, Gated
<1>6. RedactedLeaves /\ NothingBlockedLeaves /\ CredentialWhereDue /\ LogTells
  BY DEF Init, RedactedLeaves, NothingBlockedLeaves, CredentialWhereDue, LogTells, Strings, User
<1> QED BY <1>2, <1>3, <1>4, <1>5, <1>6 DEF IInv

LEMMA ConvertStep == ASSUME IInv, Convert PROVE IInv'
<1>1. PICK done \in SUBSET {i \in DOMAIN frame.msgs : frame.msgs[i].form = "file"} :
        frame' = [frame EXCEPT !.msgs =
                   [i \in DOMAIN @ |-> IF i \in done THEN [@[i] EXCEPT !.form = "blocks"]
                                       ELSE @[i]]]
  BY DEF Convert
<1>2. frame \in [dir : {"request", "response"}, via : {"http", "ws"},
                 kind : {"chat", "control", "plain"}, msgs : Seq(Message)]
  BY DEF IInv, TypeOK
<1>3. PICK msgs : msgs = [i \in DOMAIN frame.msgs |->
                           IF i \in done THEN [frame.msgs[i] EXCEPT !.form = "blocks"]
                           ELSE frame.msgs[i]]
  OBVIOUS
<1>4. /\ msgs \in Seq(Message) /\ Len(msgs) = Len(frame.msgs)
      /\ \A i \in 1 .. Len(msgs) : msgs[i].holds = frame.msgs[i].holds
  <2>1. DOMAIN frame.msgs = 1 .. Len(frame.msgs) /\ Len(frame.msgs) \in Nat
    BY <1>2
  <2>2. \A i \in 1 .. Len(frame.msgs) :
          msgs[i] \in Message /\ msgs[i].holds = frame.msgs[i].holds
    <3> TAKE i \in 1 .. Len(frame.msgs)
    <3>1. frame.msgs[i] \in Message
      BY <1>2
    <3>2. msgs[i] = IF i \in done THEN [frame.msgs[i] EXCEPT !.form = "blocks"] ELSE frame.msgs[i]
      BY <1>3, <2>1
    <3> QED BY <3>1, <3>2 DEF Message
  <2>3. msgs \in [1 .. Len(frame.msgs) -> Message]
    BY <1>3, <2>1, <2>2
  <2> QED BY <2>1, <2>2, <2>3, SeqOf
<1>5. /\ frame' \in [dir : {"request", "response"}, via : {"http", "ws"},
                     kind : {"chat", "control", "plain"}, msgs : Seq(Message)]
      /\ frame'.msgs = msgs /\ frame'.dir = frame.dir /\ frame'.via = frame.via
      /\ frame'.kind = frame.kind
  BY <1>1, <1>2, <1>3, <1>4
<1>6. /\ scan' = [scan EXCEPT !.pc = "gate", !.msgs = msgs]
      /\ scan.pc = "convert" /\ UNCHANGED <<granted, held, out, logged>>
  BY <1>5 DEF Convert
<1>7. TypeOK'
  BY <1>4, <1>5, <1>6 DEF IInv, TypeOK
<1>8. /\ scan'.pc = "gate" /\ scan'.msgs = msgs /\ scan'.injected = scan.injected
      /\ scan'.missed = scan.missed /\ scan'.by = scan.by /\ scan'.server = scan.server
      /\ scan'.token = scan.token
  BY <1>6 DEF IInv, TypeOK
<1>9. Way'
  BY <1>5, <1>6, <1>8 DEF IInv, Way, Streamed
<1>10. Shape'
  BY <1>4, <1>5, <1>8 DEF IInv, Shape, Kept
<1>11. Passed' /\ Unfiltered' /\ Clean' /\ Gated'
  BY <1>6, <1>8 DEF IInv, Passed, Unfiltered, Clean, Gated
<1>12. out' = [to |-> "nobody", msgs |-> << >>] /\ logged' = {}
  BY <1>6 DEF IInv, Way
<1> QED BY <1>7, <1>9, <1>10, <1>11, <1>12, Unsent DEF IInv

(* The other steps of scanPayload leave the frame alone.                    *)
LEMMA ScanTyped == IInv => scan \in ScanType
BY DEF IInv, TypeOK, ScanType

LEMMA GateStep == ASSUME IInv, Gate PROVE IInv'
<1>1. PICK server \in {"none", "sound", "unset", "quarantined"}, token \in {"none", "own", "foreign"} :
        /\ server # "none" \/ token # "none" => Called(frame) /\ "mcp" \in Enabled
        /\ scan' = [scan EXCEPT !.server = server, !.token = token,
                               !.by = IF Refused(server, token) THEN "mcp" ELSE "none",
                               !.pc = IF Refused(server, token) THEN "send" ELSE "inspect"]
  BY DEF Gate
<1>2. scan.pc = "gate" /\ UNCHANGED <<granted, held, frame, out, logged>>
  BY DEF Gate
<1>3. /\ scan'.server = server /\ scan'.token = token
      /\ scan'.by = IF Refused(server, token) THEN "mcp" ELSE "none"
      /\ scan'.pc = IF Refused(server, token) THEN "send" ELSE "inspect"
      /\ scan'.msgs = scan.msgs /\ scan'.injected = scan.injected /\ scan'.missed = scan.missed
  BY <1>1 DEF IInv, TypeOK
<1>4. TypeOK'
  <2>1. PICK by \in {"none", "mcp"}, pc \in {"inspect", "send"} :
          scan' = [scan EXCEPT !.server = server, !.token = token, !.by = by, !.pc = pc]
    BY <1>1
  <2>2. PICK half : half = [scan EXCEPT !.server = server, !.token = token]
    OBVIOUS
  <2>3. half \in ScanType
    BY <2>2, ScanTyped DEF ScanType
  <2>4. scan' = [half EXCEPT !.by = by, !.pc = pc]
    BY <2>1, <2>2
  <2>5. scan' \in ScanType
    BY <2>3, <2>4 DEF ScanType
  <2> QED BY <1>2, <2>5 DEF IInv, TypeOK, ScanType
<1>5. Refused(server, token) => frame.kind = "chat"
  BY <1>1 DEF Refused, Called, Sole
<1>6. Way'
  BY <1>2, <1>3, <1>5 DEF IInv, Way, Streamed, TypeOK
<1>7. Shape'
  BY <1>2, <1>3 DEF IInv, Shape, Kept
<1>8. Passed' /\ Unfiltered' /\ Clean'
  BY <1>2, <1>3 DEF IInv, Passed, Unfiltered, Clean
<1>9. Gated'
  BY <1>2, <1>3 DEF IInv, Gated, Refused, TypeOK
<1>10. out' = [to |-> "nobody", msgs |-> << >>] /\ logged' = {}
  BY <1>2 DEF IInv, Way
<1> QED BY <1>4, <1>6, <1>7, <1>8, <1>9, <1>10, Unsent DEF IInv

LEMMA InspectStep == ASSUME IInv, Inspect PROVE IInv'
<1>1. PICK by \in Verdicts(frame) :
        scan' = [scan EXCEPT !.by = by, !.pc = IF by = "none" THEN "redact" ELSE "send"]
  BY DEF Inspect
<1>2. scan.pc = "inspect" /\ UNCHANGED <<granted, held, frame, out, logged>>
  BY DEF Inspect
<1>3. /\ by \in {"none", "service"} \cup {Order[i] : i \in DOMAIN Order}
      /\ by = "none" => \A i \in DOMAIN Order : ~Finds(Order[i], frame)
  BY <1>1 DEF Verdicts, Order
<1>4. /\ scan'.by = by /\ scan'.pc = IF by = "none" THEN "redact" ELSE "send"
      /\ scan'.server = scan.server /\ scan'.token = scan.token
      /\ scan'.msgs = scan.msgs /\ scan'.injected = scan.injected /\ scan'.missed = scan.missed
  BY <1>1 DEF IInv, TypeOK
<1>5. TypeOK'
  <2>1. by \in {"none", "mcp", "service"} \cup Blocking
    BY <1>3 DEF Blocking
  <2>2. PICK pc \in {"redact", "send"} : scan' = [scan EXCEPT !.by = by, !.pc = pc]
    BY <1>1
  <2>3. scan' \in ScanType
    BY <2>1, <2>2, ScanTyped DEF ScanType
  <2> QED BY <1>2, <2>3 DEF IInv, TypeOK, ScanType
<1>6. by \notin {"mcp", "wasm"}
  BY <1>3 DEF Order
<1>7. Way'
  BY <1>2, <1>4, <1>6 DEF IInv, Way, Streamed
<1>8. Shape'
  BY <1>2, <1>4 DEF IInv, Shape, Kept
<1>9. by = "none" => \A s \in {Order[i] : i \in DOMAIN Order} :
                       s \in Enabled /\ s \in Text(frame) => Exempt(s)
  BY <1>3 DEF Finds, Exempt, IInv, TypeOK
<1>10. Passed'
  BY <1>2, <1>4, <1>9 DEF Passed, Exempt
<1>11. Unfiltered' /\ Clean'
  BY <1>2, <1>4, <1>6 DEF IInv, Unfiltered, Clean
<1>12. Gated'
  BY <1>2, <1>4, <1>6 DEF IInv, Gated, Way
<1>13. out' = [to |-> "nobody", msgs |-> << >>] /\ logged' = {}
  BY <1>2 DEF IInv, Way
<1> QED BY <1>5, <1>7, <1>8, <1>10, <1>11, <1>12, <1>13, Unsent DEF IInv

LEMMA RedactedType ==
  ASSUME TypeOK
  PROVE  /\ Redacted(frame) \in Seq(Message) /\ Len(Redacted(frame)) = Len(frame.msgs)
         /\ \A i \in 1 .. Len(frame.msgs) :
              /\ Redacted(frame)[i].role = frame.msgs[i].role
              /\ Redacted(frame)[i].form = frame.msgs[i].form
              /\ Redacted(frame)[i].holds \subseteq frame.msgs[i].holds
              /\ i \in Rewritten(frame) =>
                   Redacted(frame)[i].holds = frame.msgs[i].holds \ Redacts(frame)
<1>1. /\ frame.msgs \in Seq(Message) /\ DOMAIN frame.msgs = 1 .. Len(frame.msgs)
      /\ Len(frame.msgs) \in Nat
  BY DEF TypeOK
<1>2. ASSUME NEW i \in 1 .. Len(frame.msgs)
      PROVE  /\ Redacted(frame)[i] \in Message
             /\ Redacted(frame)[i].role = frame.msgs[i].role
             /\ Redacted(frame)[i].form = frame.msgs[i].form
             /\ Redacted(frame)[i].holds \subseteq frame.msgs[i].holds
             /\ i \in Rewritten(frame) =>
                  Redacted(frame)[i].holds = frame.msgs[i].holds \ Redacts(frame)
  <2>1. frame.msgs[i] \in Message
    BY <1>1
  <2>2. Redacted(frame)[i] = IF i \in Rewritten(frame)
                             THEN [frame.msgs[i] EXCEPT !.holds = @ \ Redacts(frame)]
                             ELSE frame.msgs[i]
    BY <1>1 DEF Redacted
  <2> QED BY <2>1, <2>2 DEF Message, Contents
<1>3. Redacted(frame) \in [1 .. Len(frame.msgs) -> Message]
  BY <1>1, <1>2 DEF Redacted
<1> QED BY <1>1, <1>2, <1>3, SeqOf

LEMMA RewrittenIsScanned ==
  ASSUME TypeOK, NEW i \in Rewritten(frame)
  PROVE  i \in 1 .. Len(frame.msgs) /\ frame.msgs[i].holds \subseteq Text(frame)
<1>1. DOMAIN frame.msgs = 1 .. Len(frame.msgs)
  BY DEF TypeOK
<1>2. i \in DOMAIN frame.msgs /\ i \in Scanned(frame)
  BY DEF Rewritten, Scanned, Strings, Readable, User
<1> QED BY <1>1, <1>2 DEF Text

LEMMA RedactStep == ASSUME IInv, Redact PROVE IInv'
<1>1. /\ scan.pc = "redact" /\ UNCHANGED <<granted, held, frame, out, logged>>
      /\ scan' = [scan EXCEPT !.pc = "filter", !.redacted = Redacts(frame) # {},
                             !.msgs = IF Redacts(frame) = {} THEN @ ELSE Redacted(frame)]
  BY DEF Redact
<1>2. /\ scan'.pc = "filter" /\ scan'.by = scan.by /\ scan'.server = scan.server
      /\ scan'.token = scan.token /\ scan'.injected = FALSE /\ scan'.missed = scan.missed
      /\ scan'.msgs = IF Redacts(frame) = {} THEN scan.msgs ELSE Redacted(frame)
      /\ scan.msgs = frame.msgs /\ scan.by = "none"
  BY <1>1 DEF IInv, TypeOK, Way
<1>3. TypeOK'
  <2>1. PICK b \in BOOLEAN : b = (Redacts(frame) # {})
    OBVIOUS
  <2>2. PICK msgs : msgs = IF Redacts(frame) = {} THEN scan.msgs ELSE Redacted(frame)
    OBVIOUS
  <2>3. msgs \in Seq(Message)
    BY <2>2, RedactedType DEF IInv, TypeOK
  <2>4. scan' = [scan EXCEPT !.pc = "filter", !.redacted = b, !.msgs = msgs]
    BY <1>1, <2>1, <2>2
  <2>5. scan' \in ScanType
    BY <2>3, <2>4, ScanTyped DEF ScanType
  <2> QED BY <1>1, <2>5 DEF IInv, TypeOK, ScanType
<1>4. Way'
  BY <1>1, <1>2 DEF IInv, Way, Streamed
<1>5. Shape'
  BY <1>1, <1>2, RedactedType DEF IInv, Shape, Kept
<1>6. Passed' /\ Unfiltered' /\ Gated'
  <2>1. Passed'
    BY <1>1, <1>2 DEF IInv, Passed, Exempt, Streamed
  <2>2. Unfiltered' /\ Gated'
    BY <1>1, <1>2 DEF IInv, Unfiltered, Gated, Way
  <2> QED BY <2>1, <2>2
<1>7. Clean'
  <2>1. ASSUME NEW i \in Rewritten(frame),
               NEW s \in scan'.msgs[i].holds \cap Redactable \cap Enabled
        PROVE  s = "secrets" /\ s \in granted
    <3>1. s \notin Redacts(frame) /\ s \in Text(frame)
      BY <1>2, RedactedType, RewrittenIsScanned DEF IInv
    <3> QED BY <3>1 DEF Redacts, Redactable, IInv, TypeOK
  <2> QED BY <1>1, <2>1 DEF Clean
<1>8. out' = [to |-> "nobody", msgs |-> << >>] /\ logged' = {}
  BY <1>1 DEF IInv, Way
<1> QED BY <1>3, <1>4, <1>5, <1>6, <1>7, <1>8, Unsent DEF IInv

LEMMA FilterStep == ASSUME IInv, Filter PROVE IInv'
<1>1. /\ scan.pc = "filter" /\ UNCHANGED <<granted, held, frame, out, logged>>
      /\ scan' = [scan EXCEPT !.by = IF Finds("wasm", frame) THEN "wasm" ELSE @,
                             !.pc = IF Finds("wasm", frame) THEN "send" ELSE "inject"]
  BY DEF Filter
<1>2. /\ scan'.by = IF Finds("wasm", frame) THEN "wasm" ELSE "none"
      /\ scan'.pc = IF Finds("wasm", frame) THEN "send" ELSE "inject"
      /\ scan'.server = scan.server /\ scan'.token = scan.token /\ scan'.msgs = scan.msgs
      /\ scan'.injected = FALSE /\ scan.injected = FALSE /\ scan'.missed = scan.missed
      /\ scan.by = "none"
  BY <1>1 DEF IInv, TypeOK, Way
<1>3. TypeOK'
  <2>1. CASE Finds("wasm", frame)
    BY <1>1, <2>1 DEF IInv, TypeOK, Blocking
  <2>2. CASE ~Finds("wasm", frame)
    BY <1>1, <2>2 DEF IInv, TypeOK
  <2> QED BY <2>1, <2>2
<1>4. Way'
  BY <1>1, <1>2 DEF IInv, Way, Streamed
<1>5. Shape'
  BY <1>1, <1>2 DEF IInv, Shape, Kept
<1>6. Passed' /\ Gated'
  <2>1. Passed'
    BY <1>1, <1>2 DEF IInv, Passed, Exempt, Streamed
  <2>2. Gated'
    BY <1>1, <1>2 DEF IInv, Gated, Way
  <2> QED BY <2>1, <2>2
<1>7. Unfiltered'
  <2>1. Finds("wasm", frame) <=> "wasm" \in Enabled /\ "wasm" \in Text(frame)
    BY DEF Finds, RequestOnly, NotOnControl
  <2>2. scan'.by = "none" => ~Finds("wasm", frame)
    BY <1>2
  <2>3. scan'.by = "none" => "wasm" \notin Enabled \cap Text(frame')
    BY <1>1, <2>1, <2>2
  <2> QED BY <2>3 DEF Unfiltered
<1>8. Clean'
  BY <1>1, <1>2 DEF IInv, Clean, Streamed
<1>9. out' = [to |-> "nobody", msgs |-> << >>] /\ logged' = {}
  BY <1>1 DEF IInv, Way
<1> QED BY <1>3, <1>4, <1>5, <1>6, <1>7, <1>8, <1>9, Unsent DEF IInv

LEMMA InjectStep == ASSUME IInv, Inject PROVE IInv'
<1>1. PICK inject \in BOOLEAN :
      /\ scan.pc = "inject" /\ UNCHANGED <<granted, held, frame, out, logged>>
      /\ inject <=> scan.server = "sound"
      /\ scan' = [scan EXCEPT !.pc = "send", !.injected = inject,
                          !.msgs = [i \in DOMAIN @ |->
                            IF inject /\ i \in Sole(frame)
                            THEN [@[i] EXCEPT !.holds = frame.msgs[i].holds \cup {"credential"}]
                            ELSE @[i]]]
  BY DEF Inject
<1>2. PICK msgs : msgs = [i \in DOMAIN scan.msgs |->
                          IF inject /\ i \in Sole(frame)
                          THEN [scan.msgs[i] EXCEPT !.holds = frame.msgs[i].holds \cup {"credential"}]
                          ELSE scan.msgs[i]]
  OBVIOUS
<1>3. /\ scan'.pc = "send" /\ scan'.by = "none" /\ scan.by = "none"
      /\ scan'.server = scan.server /\ scan'.token = scan.token /\ scan'.msgs = msgs
      /\ scan'.injected = inject /\ scan.injected = FALSE /\ scan'.missed = scan.missed
  BY <1>1, <1>2 DEF IInv, TypeOK, Way
<1>4. /\ DOMAIN scan.msgs = 1 .. Len(frame.msgs) /\ Len(frame.msgs) \in Nat
      /\ DOMAIN frame.msgs = 1 .. Len(frame.msgs)
      /\ Len(scan.msgs) = Len(frame.msgs)
  BY DEF IInv, TypeOK, Shape
<1>5. \A i \in 1 .. Len(frame.msgs) :
        /\ msgs[i] \in Message
        /\ msgs[i].role = scan.msgs[i].role /\ msgs[i].form = scan.msgs[i].form
        /\ inject /\ i \in Sole(frame) => msgs[i].holds = frame.msgs[i].holds \cup {"credential"}
        /\ ~(inject /\ i \in Sole(frame)) => msgs[i] = scan.msgs[i]
  <2> TAKE i \in 1 .. Len(frame.msgs)
  <2>1. scan.msgs[i] \in Message /\ frame.msgs[i].holds \in Contents
    <3>1. frame.msgs \in Seq(Message) /\ scan.msgs \in Seq(Message)
      BY DEF IInv, TypeOK
    <3>2. frame.msgs[i] \in Message /\ scan.msgs[i] \in Message
      BY <1>4, <3>1
    <3> QED BY <3>2 DEF Message
  <2>2. msgs[i] = IF inject /\ i \in Sole(frame)
                  THEN [scan.msgs[i] EXCEPT !.holds = frame.msgs[i].holds \cup {"credential"}]
                  ELSE scan.msgs[i]
    BY <1>2, <1>4
  <2>3. frame.msgs[i].holds \cup {"credential"} \in Contents
    BY <2>1 DEF Contents
  <2> QED BY <2>1, <2>2, <2>3 DEF Message
<1>6. msgs \in Seq(Message) /\ Len(msgs) = Len(frame.msgs)
  <2>1. msgs \in [1 .. Len(frame.msgs) -> Message]
    BY <1>2, <1>4, <1>5
  <2> QED BY <1>4, <2>1, SeqOf
<1>7. TypeOK'
  <2>1. scan' = [scan EXCEPT !.pc = "send", !.injected = inject, !.msgs = msgs]
    BY <1>1, <1>2
  <2>2. scan' \in ScanType
    BY <1>6, <2>1, ScanTyped DEF ScanType
  <2> QED BY <1>1, <2>2 DEF IInv, TypeOK, ScanType
<1>8. Way'
  BY <1>1, <1>3 DEF IInv, Way, Streamed
<1>9. Shape'
  <2>1. Sole(frame)' = Sole(frame)
    BY <1>1 DEF Sole, Strings, User
  <2>2. \A i \in 1 .. Len(frame.msgs) : Kept(i)'
    BY <1>1, <1>3, <1>5, <2>1 DEF IInv, Shape, Kept
  <2> QED BY <1>1, <1>3, <1>6, <2>2 DEF IInv, Shape
<1>10. Passed'
  BY <1>1, <1>3 DEF IInv, Passed, Exempt, Streamed
<1>11. Unfiltered'
  <2>1. Text(frame)' = Text(frame)
    BY <1>1 DEF Text, Scanned, Readable, User, IsUIFrame
  <2> QED BY <1>1, <1>3, <2>1 DEF IInv, Unfiltered, Streamed
<1>12. Clean'
  <2>1. Rewritten(frame)' = Rewritten(frame)
    BY <1>1 DEF Rewritten, IsUIFrame, Strings, Readable, User
  <2>2. Rewritten(frame) \subseteq 1 .. Len(frame.msgs)
    BY RewrittenIsScanned DEF IInv
  <2> QED BY <1>1, <1>3, <1>5, <2>1, <2>2 DEF IInv, Clean, Streamed
<1>13. Gated'
  BY <1>1, <1>3 DEF IInv, Gated
<1>14. out' = [to |-> "nobody", msgs |-> << >>] /\ logged' = {}
  BY <1>1 DEF IInv, Way
<1> QED BY <1>7, <1>8, <1>9, <1>10, <1>11, <1>12, <1>13, <1>14, Unsent DEF IInv

LEMMA SessionStep == ASSUME IInv, SessionForgets \/ ScopesStored PROVE IInv'
<1>1. /\ scan.pc # "done" /\ held' \in {{}, granted}
      /\ UNCHANGED <<granted, frame, scan, out, logged>>
  BY DEF SessionForgets, ScopesStored
<1>2. TypeOK'
  BY <1>1 DEF IInv, TypeOK
<1>3. Way' /\ Shape' /\ Gated'
  BY <1>1 DEF IInv, Way, Shape, Gated, Kept, Streamed
<1>4. Passed'
  BY <1>1 DEF IInv, Passed, Exempt, Streamed
<1>5. Unfiltered' /\ Clean'
  <2>1. Rewritten(frame)' = Rewritten(frame) /\ Text(frame)' = Text(frame)
    BY <1>1 DEF Rewritten, IsUIFrame, Strings, Readable, User, Text, Scanned
  <2> QED BY <1>1, <2>1 DEF IInv, Unfiltered, Clean, Streamed
<1>6. out' = [to |-> "nobody", msgs |-> << >>] /\ logged' = {}
  BY <1>1 DEF IInv, Way
<1> QED BY <1>2, <1>3, <1>4, <1>5, <1>6, Unsent DEF IInv

-----------------------------------------------------------------------------
(* The steps that send *)

(* What the callers put in the messages: at most one more, before them, and *)
(* nothing but the canary in the first.                                     *)
LEMMA Context ==
  ASSUME NEW msgs \in Seq(Message), Len(msgs) > 0
  PROVE  /\ injectSystemContext(msgs) \in Seq(Message)
         /\ \E d \in {0, 1} :
              /\ Len(injectSystemContext(msgs)) = Len(msgs) + d
              /\ d = 1 => injectSystemContext(msgs)[1].role = "system"
                          /\ injectSystemContext(msgs)[1].holds = {"canary"}
              /\ \A i \in 1 .. Len(msgs) :
                   /\ injectSystemContext(msgs)[i + d].role = msgs[i].role
                   /\ injectSystemContext(msgs)[i + d].form = msgs[i].form
                   /\ msgs[i].role = "user" =>
                        injectSystemContext(msgs)[i + d].holds = msgs[i].holds
                   /\ injectSystemContext(msgs)[i + d].holds \subseteq msgs[i].holds \cup {"canary"}
<1> DEFINE r == injectSystemContext(msgs)
<1>1. msgs \in [1 .. Len(msgs) -> Message] /\ Len(msgs) \in Nat /\ msgs[1] \in Message
  OBVIOUS
<1>2. CASE frame.kind # "chat"
  BY <1>2 DEF injectSystemContext
<1>3. CASE frame.kind = "chat" /\ msgs[1].role = "system" /\ msgs[1].form = "text"
  <2>1. r = [msgs EXCEPT ![1].holds = msgs[1].holds \cup {"canary"}]
    BY <1>3 DEF injectSystemContext
  <2>2. [msgs[1] EXCEPT !.holds = msgs[1].holds \cup {"canary"}] \in Message
    BY <1>1 DEF Message, Contents
  <2>3. r \in [1 .. Len(msgs) -> Message]
    BY <1>1, <2>1, <2>2
  <2>4. r \in Seq(Message) /\ Len(r) = Len(msgs)
    BY <1>1, <2>3, SeqOf
  <2>5. \A i \in 1 .. Len(msgs) :
          /\ i # 1 => r[i] = msgs[i]
          /\ i = 1 => r[i] = [msgs[1] EXCEPT !.holds = msgs[1].holds \cup {"canary"}]
    BY <1>1, <2>1
  <2>6. \A i \in 1 .. Len(msgs) :
          /\ r[i].role = msgs[i].role /\ r[i].form = msgs[i].form
          /\ msgs[i].role = "user" => r[i].holds = msgs[i].holds
          /\ r[i].holds \subseteq msgs[i].holds \cup {"canary"}
    BY <1>1, <1>3, <2>5 DEF Message
  <2>7. Len(r) = Len(msgs) + 0 /\ \A i \in 1 .. Len(msgs) : i + 0 = i
    BY <1>1, <2>4
  <2> HIDE DEF r
  <2> QED BY <2>4, <2>6, <2>7 DEF r
<1>4. CASE frame.kind = "chat" /\ ~(msgs[1].role = "system" /\ msgs[1].form = "text")
  <2>1. r = [i \in 1 .. Len(msgs) + 1 |->
               IF i = 1 THEN [role |-> "system", form |-> "text", holds |-> {"canary"}]
               ELSE msgs[i - 1]]
    BY <1>4 DEF injectSystemContext
  <2>2. [role |-> "system", form |-> "text", holds |-> {"canary"}] \in Message
    BY DEF Message, Contents
  <2>3. r \in [1 .. Len(msgs) + 1 -> Message]
    BY <1>1, <2>1, <2>2
  <2>4. r \in Seq(Message) /\ Len(r) = Len(msgs) + 1
    BY <1>1, <2>3, SeqOf
  <2>5. /\ r[1] = [role |-> "system", form |-> "text", holds |-> {"canary"}]
        /\ \A i \in 1 .. Len(msgs) : r[i + 1] = msgs[i]
    BY <1>1, <2>1
  <2> QED BY <2>4, <2>5
<1> QED BY <1>2, <1>3, <1>4

LEMMA LogIsOfMarks ==
  ASSUME IInv, NEW by
  PROVE  sanitizeForLog(frame, by) \subseteq Marks /\ "secrets" \notin sanitizeForLog(frame, by)
<1>1. LogText(frame) \subseteq Marks
  <2>1. DOMAIN frame.msgs = 1 .. Len(frame.msgs)
    BY DEF IInv, TypeOK
  <2> QED BY <2>1 DEF LogText, Strings, User, Readable, IInv, Shape
<1> QED BY <1>1 DEF sanitizeForLog

LEMMA MarksAreMarks == "credential" \notin Marks /\ "canary" \notin Blocking \cap Redactable
<1>1. "credential" \notin Blocking
  BY DEF Blocking, Order
<1> QED BY <1>1, ScanPayloadAssumption DEF Redactable

(* A string in which something redactable is left is exempt, unless the     *)
(* frame was given a credential.                                            *)
LEMMA RedactableLeft ==
  ASSUME IInv, ~Streamed, scan.pc = "send", scan.by \in {"none", "wasm"}, ~scan.injected,
         NEW i \in 1 .. Len(scan.msgs), NEW s \in scan.msgs[i].holds \cap Redactable \cap Enabled
  PROVE  \/ scan.msgs[i].role = "system" \/ scan.msgs[i].form # "text"
         \/ (s = "secrets" /\ s \in granted)
<1>1. /\ i \in 1 .. Len(frame.msgs) /\ DOMAIN frame.msgs = 1 .. Len(frame.msgs)
      /\ scan.msgs[i].role = frame.msgs[i].role /\ scan.msgs[i].form = frame.msgs[i].form
      /\ frame.msgs[i].role \in {"system", "user"}
  <2>1. frame.msgs \in Seq(Message) /\ Len(scan.msgs) = Len(frame.msgs)
    BY DEF IInv, TypeOK, Shape
  <2>2. frame.msgs[i] \in Message
    BY <2>1
  <2> QED BY <2>1, <2>2 DEF IInv, Shape, Kept, Message
<1>2. CASE i \in Rewritten(frame)
  BY <1>2 DEF IInv, Clean
<1>3. CASE i \notin Rewritten(frame)
  BY <1>1, <1>3 DEF Rewritten, Strings, User, Readable
<1> QED BY <1>2, <1>3

LEMMA RequestStep == ASSUME IInv, SendRequest PROVE IInv'
<1>1. /\ scan.pc = "send" /\ frame.dir = "request" /\ UNCHANGED <<granted, held, frame>>
      /\ logged' = logged \cup sanitizeForLog(frame, scan.by)
      /\ scan' = [scan EXCEPT !.pc = "done"]
  BY DEF SendRequest
<1>2. /\ scan'.pc = "done" /\ scan'.by = scan.by /\ scan'.server = scan.server
      /\ scan'.token = scan.token /\ scan'.msgs = scan.msgs
      /\ scan'.injected = scan.injected /\ scan'.missed = scan.missed
  BY <1>1 DEF IInv, TypeOK
<1>3. ~Streamed /\ out = [to |-> "nobody", msgs |-> << >>] /\ logged = {}
  BY <1>1 DEF IInv, Way
<1>4. logged' = sanitizeForLog(frame, scan.by) /\ logged' \subseteq Marks
      /\ logged' \cap {"secrets", "credential"} = {}
  BY <1>1, <1>3, LogIsOfMarks, MarksAreMarks
<1>5. Way' /\ Shape'
  <2>1. Way'
    BY <1>1, <1>2 DEF IInv, Way, Streamed
  <2>2. Shape'
    BY <1>1, <1>2 DEF IInv, Shape, Kept
  <2> QED BY <2>1, <2>2
<1>6. Passed' /\ Unfiltered' /\ Clean' /\ Gated'
  <2>1. Passed'
    BY <1>1, <1>2 DEF IInv, Passed, Exempt, Streamed
  <2>2. Unfiltered'
    BY <1>1, <1>2 DEF IInv, Unfiltered, Streamed
  <2>3. Clean'
    BY <1>1, <1>2 DEF IInv, Clean, Streamed
  <2>4. Gated'
    BY <1>1, <1>2 DEF IInv, Gated
  <2> QED BY <2>1, <2>2, <2>3, <2>4
<1>7. scan.msgs \in Seq(Message) /\ Len(scan.msgs) > 0 /\ Len(scan.msgs) = Len(frame.msgs)
      /\ scan \in [pc : {"send"}, server : {"none", "sound", "unset", "quarantined"},
                   token : {"none", "own", "foreign"},
                   by : {"none", "mcp", "service"} \cup Blocking, msgs : Seq(Message),
                   redacted : BOOLEAN, injected : BOOLEAN, missed : BOOLEAN]
  BY <1>1 DEF IInv, TypeOK, Shape
<1>8. CASE scan.by # "none"
  <2>1. out' = [to |-> "nobody", msgs |-> << >>]
    BY <1>3, <1>8 DEF SendRequest
  <2>2. TypeOK'
    <3>1. << >> \in Seq(Message)
      OBVIOUS
    <3> QED BY <1>1, <1>4, <1>7, <2>1, <3>1 DEF IInv, TypeOK
  <2>3. (RedactedLeaves /\ NothingBlockedLeaves /\ CredentialWhereDue /\ LogTells)'
    BY <1>4, <2>1 DEF RedactedLeaves, NothingBlockedLeaves, CredentialWhereDue, LogTells, Strings, User
  <2> QED BY <1>5, <1>6, <2>2, <2>3 DEF IInv
<1>9. CASE scan.by = "none"
  <2>1. PICK d \in {0, 1}, msgs \in Seq(Message) :
          /\ out' = [to |-> "backend", msgs |-> msgs]
          /\ Len(msgs) = Len(scan.msgs) + d
          /\ d = 1 => msgs[1].role = "system" /\ msgs[1].holds = {"canary"}
          /\ \A i \in 1 .. Len(scan.msgs) :
               /\ msgs[i + d].role = scan.msgs[i].role /\ msgs[i + d].form = scan.msgs[i].form
               /\ scan.msgs[i].role = "user" => msgs[i + d].holds = scan.msgs[i].holds
               /\ msgs[i + d].holds \subseteq scan.msgs[i].holds \cup {"canary"}
    <3>1. CASE frame.via = "http"
      <4>1. out' = [to |-> "backend", msgs |-> injectSystemContext(scan.msgs)]
        BY <1>9, <3>1 DEF SendRequest
      <4>2. PICK d \in {0, 1} :
              /\ Len(injectSystemContext(scan.msgs)) = Len(scan.msgs) + d
              /\ d = 1 => injectSystemContext(scan.msgs)[1].role = "system"
                          /\ injectSystemContext(scan.msgs)[1].holds = {"canary"}
              /\ \A i \in 1 .. Len(scan.msgs) :
                   /\ injectSystemContext(scan.msgs)[i + d].role = scan.msgs[i].role
                   /\ injectSystemContext(scan.msgs)[i + d].form = scan.msgs[i].form
                   /\ scan.msgs[i].role = "user" =>
                        injectSystemContext(scan.msgs)[i + d].holds = scan.msgs[i].holds
                   /\ injectSystemContext(scan.msgs)[i + d].holds
                        \subseteq scan.msgs[i].holds \cup {"canary"}
        BY <1>7, Context
      <4>3. injectSystemContext(scan.msgs) \in Seq(Message)
        BY <1>7, Context
      <4> WITNESS d \in {0, 1}, injectSystemContext(scan.msgs) \in Seq(Message)
      <4> QED BY <4>1, <4>2
    <3>2. CASE frame.via # "http"
      <4>1. out' = [to |-> "backend", msgs |-> scan.msgs]
        BY <1>9, <3>2 DEF SendRequest
      <4>2. Len(scan.msgs) = Len(scan.msgs) + 0 /\ \A i \in 1 .. Len(scan.msgs) : i + 0 = i
        BY <1>7
      <4> USE <1>7
      <4> WITNESS 0 \in {0, 1}, scan.msgs \in Seq(Message)
      <4> QED BY <4>1, <4>2
    <3> QED BY <3>1, <3>2
  <2>2. TypeOK'
    BY <1>1, <1>4, <1>7, <2>1 DEF IInv, TypeOK
  <2>3. \A j \in 1 .. Len(msgs) :
          \/ d = 1 /\ j = 1
          \/ \E i \in 1 .. Len(scan.msgs) : j = i + d
    <3> TAKE j \in 1 .. Len(msgs)
    <3>1. CASE d = 1 /\ j # 1
      <4>1. j - 1 \in 1 .. Len(scan.msgs) /\ j = (j - 1) + d
        BY <1>7, <2>1, <3>1
      <4> QED BY <4>1
    <3>2. CASE d = 0
      <4>1. j \in 1 .. Len(scan.msgs) /\ j = j + d
        BY <1>7, <2>1, <3>2
      <4> QED BY <4>1
    <3> QED BY <3>1, <3>2
  <2>4. DOMAIN msgs = 1 .. Len(msgs) /\ out'.msgs = msgs /\ out'.to = "backend"
    BY <2>1
  <2>5. RedactedLeaves'
    <3> SUFFICES ASSUME NEW j \in 1 .. Len(msgs),
                        NEW s \in msgs[j].holds \cap Redactable \cap Enabled
                 PROVE  \/ msgs[j].role = "system" \/ msgs[j].form # "text"
                        \/ scan.injected \/ (s = "secrets" /\ s \in granted)
      BY <1>1, <1>2, <2>4 DEF RedactedLeaves
    <3>1. CASE d = 1 /\ j = 1
      BY <2>1, <3>1
    <3>2. ASSUME NEW i \in 1 .. Len(scan.msgs), j = i + d, ~scan.injected, msgs[j].role # "system"
          PROVE  msgs[j].form # "text" \/ (s = "secrets" /\ s \in granted)
      <4>1. msgs[i + d].holds \subseteq scan.msgs[i].holds \cup {"canary"} /\ s # "canary"
        BY <2>1 DEF Redactable
      <4>2. s \in scan.msgs[i].holds
        BY <3>2, <4>1
      <4>3. \/ scan.msgs[i].role = "system" \/ scan.msgs[i].form # "text"
            \/ (s = "secrets" /\ s \in granted)
        BY <1>1, <1>3, <1>9, <3>2, <4>2, RedactableLeft
      <4>4. msgs[j].role = scan.msgs[i].role /\ msgs[j].form = scan.msgs[i].form
        BY <2>1, <3>2
      <4> QED BY <3>2, <4>3, <4>4
    <3> QED BY <2>3, <3>1, <3>2
  <2>6. \A i \in 1 .. Len(scan.msgs) :
          /\ frame.msgs[i].holds \subseteq Marks /\ Kept(i)
          /\ i \in DOMAIN frame.msgs
    BY <1>7 DEF IInv, Shape, TypeOK
  <2>7. NothingBlockedLeaves'
    <3> SUFFICES ASSUME NEW j \in 1 .. Len(msgs),
                        NEW s \in msgs[j].holds \cap Blocking \cap Enabled
                 PROVE  \/ msgs[j].role = "system" \/ msgs[j].form = "file"
                        \/ s \in NotOnControl /\ (frame.kind = "control" \/ s \in granted)
                        \/ s = "exec" /\ ~Called(frame)
      BY <1>1, <1>2, <2>4 DEF NothingBlockedLeaves
    <3>1. CASE d = 1 /\ j = 1
      BY <2>1, <3>1
    <3>2. ASSUME NEW i \in 1 .. Len(scan.msgs), j = i + d, msgs[j].role # "system",
                 msgs[j].form # "file"
          PROVE  \/ s \in NotOnControl /\ (frame.kind = "control" \/ s \in granted)
                 \/ s = "exec" /\ ~Called(frame)
      <4>1. scan.msgs[i] \in Message
        BY <1>7
      <4>2. frame.msgs[i].role = "user" /\ frame.msgs[i].form # "file" /\ s \in scan.msgs[i].holds
        BY <2>1, <2>6, <3>2, <4>1 DEF Kept, Message
      <4>3. s \in frame.msgs[i].holds
        BY <2>6, <4>2 DEF Kept, Blocking, Order
      <4>4. i \in Scanned(frame)
        BY <2>6, <4>2 DEF Scanned, Readable, User
      <4>5. s \in Text(frame)
        BY <4>3, <4>4 DEF Text
      <4>6. s # "wasm" => s \in {Order[k] : k \in DOMAIN Order}
        BY DEF Blocking
      <4>7. s # "wasm"
        BY <1>1, <1>3, <1>9, <4>5 DEF IInv, Unfiltered
      <4>8. Exempt(s)
        BY <1>1, <1>3, <1>9, <4>5, <4>6, <4>7 DEF IInv, Passed
      <4> QED BY <1>1, <4>8 DEF Exempt
    <3> QED BY <2>3, <3>1, <3>2
  <2>8. CredentialWhereDue'
    <3> SUFFICES ASSUME NEW j \in 1 .. Len(msgs), "credential" \in msgs[j].holds
                 PROVE  /\ scan.server = "sound" /\ scan.token # "foreign"
                        /\ RequireScope => "mcp" \in granted
                        /\ {k \in 1 .. Len(msgs) : msgs[k].role = "user"} = {j}
      BY <1>1, <1>2, <2>4 DEF CredentialWhereDue
    <3>1. ~(d = 1 /\ j = 1)
      BY <2>1
    <3>2. PICK i \in 1 .. Len(scan.msgs) : j = i + d
      BY <2>3, <3>1
    <3>3. "credential" \in scan.msgs[i].holds
      BY <2>1, <3>2
    <3>4. scan.injected /\ i \in Sole(frame)
      BY <2>6, <3>3, MarksAreMarks DEF Kept
    <3>5. scan.server = "sound"
      BY <3>4 DEF IInv, Way
    <3>6. User(frame.msgs) = {i}
      BY <3>4 DEF Sole
    <3>7. \A k \in 1 .. Len(scan.msgs) : scan.msgs[k].role = "user" <=> k = i
      BY <2>6, <3>6 DEF User, Kept
    <3>8. \A k \in 1 .. Len(msgs) : msgs[k].role = "user" <=> k = j
      <4> TAKE k \in 1 .. Len(msgs)
      <4>1. CASE d = 1 /\ k = 1
        BY <1>7, <2>1, <3>2, <4>1
      <4>2. ASSUME NEW n \in 1 .. Len(scan.msgs), k = n + d PROVE msgs[k].role = "user" <=> k = j
        BY <1>7, <2>1, <3>2, <3>7, <4>2
      <4> QED BY <2>3, <4>1, <4>2
    <3> QED BY <1>9, <3>5, <3>8 DEF IInv, Gated
  <2>9. LogTells'
    <3>1. ASSUME NEW j \in Strings(msgs), NEW s \in msgs[j].holds, s \notin {"secrets", "credential"}
          PROVE  s \in logged'
      <4>1. j \in 1 .. Len(msgs) /\ msgs[j].role = "user" /\ msgs[j].form = "text"
        BY <2>4 DEF Strings, User
      <4>2. PICK i \in 1 .. Len(scan.msgs) : j = i + d
        BY <2>1, <2>3, <4>1
      <4>3. scan.msgs[i] \in Message
        BY <1>7
      <4>4. s \in scan.msgs[i].holds /\ frame.msgs[i].role = "user" /\ frame.msgs[i].form = "text"
        BY <2>1, <2>6, <4>1, <4>2, <4>3 DEF Kept, Message
      <4>5. s \in frame.msgs[i].holds
        BY <2>6, <3>1, <4>4 DEF Kept
      <4>6. i \in Strings(frame.msgs) /\ i \in Readable(frame.msgs)
        BY <2>6, <4>4 DEF Strings, User, Readable
      <4>7. s \in LogText(frame)
        BY <4>5, <4>6 DEF LogText
      <4> QED BY <1>4, <1>9, <3>1, <4>7 DEF sanitizeForLog
    <3>3. (UNION {msgs[j].holds : j \in Strings(msgs)}) \ {"secrets", "credential"}
            \subseteq logged'
      <4> SUFFICES ASSUME NEW s \in UNION {msgs[j].holds : j \in Strings(msgs)},
                          s \notin {"secrets", "credential"}
                   PROVE  s \in logged'
        OBVIOUS
      <4>1. PICK j \in Strings(msgs) : s \in msgs[j].holds
        OBVIOUS
      <4> QED BY <3>1, <4>1
    <3>4. (UNION {out'.msgs[j].holds : j \in Strings(out'.msgs)}) \ {"secrets", "credential"}
            \subseteq logged'
      <4>1. out'.msgs = msgs
        BY <2>4
      <4> QED BY <3>3, <4>1
    <3> QED BY <1>4, <3>4 DEF LogTells
  <2> QED BY <1>5, <1>6, <2>2, <2>5, <2>7, <2>8, <2>9 DEF IInv
<1> QED BY <1>8, <1>9

LEMMA ResponseStep == ASSUME IInv, SendResponse PROVE IInv'
<1>1. /\ scan.pc = "send" /\ frame.dir = "response" /\ UNCHANGED <<granted, held, frame>>
      /\ scan' = [scan EXCEPT !.pc = "done"]
      /\ out' = [to |-> "client", msgs |-> scan.msgs]
  BY DEF SendResponse
<1>2. /\ scan'.pc = "done" /\ scan'.by = scan.by /\ scan'.server = scan.server
      /\ scan'.token = scan.token /\ scan'.msgs = scan.msgs
      /\ scan'.injected = scan.injected /\ scan'.missed = scan.missed
  BY <1>1 DEF IInv, TypeOK
<1>3. ~Streamed /\ frame.via = "ws" /\ frame.kind = "plain" /\ logged = {} /\ scan.by # "mcp"
  BY <1>1 DEF IInv, Way, Streamed, TypeOK
<1>4. logged' \subseteq Marks /\ logged' \cap {"secrets", "credential"} = {}
  <2>1. logged' \subseteq sanitizeForLog(frame, scan.by)
    BY <1>3 DEF SendResponse
  <2> QED BY <2>1, LogIsOfMarks, MarksAreMarks
<1>5. TypeOK'
  BY <1>1, <1>4 DEF IInv, TypeOK
<1>6. Way'
  BY <1>1, <1>2 DEF IInv, Way, Streamed
<1>7. Shape'
  BY <1>1, <1>2 DEF IInv, Shape, Kept
<1>8. Passed' /\ Unfiltered' /\ Clean' /\ Gated'
  <2>1. Passed'
    BY <1>1, <1>2 DEF IInv, Passed, Exempt, Streamed
  <2>2. Unfiltered'
    BY <1>1, <1>2 DEF IInv, Unfiltered, Streamed
  <2>3. Clean'
    BY <1>1, <1>2 DEF IInv, Clean, Streamed
  <2>4. Gated'
    BY <1>1, <1>2 DEF IInv, Gated
  <2> QED BY <2>1, <2>2, <2>3, <2>4
<1>9. DOMAIN scan.msgs = 1 .. Len(scan.msgs) /\ Len(scan.msgs) = Len(frame.msgs)
  BY DEF IInv, TypeOK, Shape
<1>10. RedactedLeaves'
  <2> SUFFICES ASSUME NEW i \in 1 .. Len(scan.msgs),
                      NEW s \in scan.msgs[i].holds \cap Redactable \cap Enabled
               PROVE  \/ scan.msgs[i].role = "system" \/ scan.msgs[i].form # "text"
                      \/ scan.injected \/ (s = "secrets" /\ s \in granted)
                      \/ scan.by \in (Blocking \cup {"service"}) \ {"wasm"}
    BY <1>1, <1>2, <1>3, <1>9 DEF RedactedLeaves
  <2>1. scan.by \in {"none", "wasm"} \/ scan.by \in (Blocking \cup {"service"}) \ {"wasm"}
    BY <1>3 DEF IInv, TypeOK
  <2> QED BY <1>1, <1>3, <2>1, RedactableLeft
<1>11. NothingBlockedLeaves'
  BY <1>1 DEF NothingBlockedLeaves
<1>12. CredentialWhereDue'
  <2> SUFFICES ASSUME NEW i \in 1 .. Len(scan.msgs) PROVE "credential" \notin scan.msgs[i].holds
    BY <1>1, <1>9 DEF CredentialWhereDue
  <2> QED BY <1>3, <1>9, MarksAreMarks DEF IInv, Shape, Kept, Sole
<1>13. LogTells'
  BY <1>1, <1>4 DEF LogTells
<1> QED BY <1>5, <1>6, <1>7, <1>8, <1>10, <1>11, <1>12, <1>13 DEF IInv

LEMMA StreamStep == ASSUME IInv, streamAndScan PROVE IInv'
<1>1. PICK missed \in BOOLEAN, found \in BOOLEAN :
      /\ found <=> "secrets" \in Enabled \cap Text(frame) /\ ~missed
      /\ out' = [to |-> "client", msgs |-> [i \in DOMAIN frame.msgs |->
                  [frame.msgs[i] EXCEPT !.holds = IF found THEN @ \ {"secrets"} ELSE @]]]
      /\ logged' = logged \cup IF found THEN sanitizeForLog(frame, "none") ELSE {}
      /\ scan' = [scan EXCEPT !.pc = "done", !.missed = missed]
  BY DEF streamAndScan
<1>2. scan.pc = "stream" /\ UNCHANGED <<granted, held, frame>>
  BY DEF streamAndScan
<1>3. /\ scan'.pc = "done" /\ scan'.by = scan.by /\ scan'.server = scan.server
      /\ scan'.token = scan.token /\ scan'.msgs = scan.msgs
      /\ scan'.injected = scan.injected /\ scan'.missed = missed
  BY <1>1 DEF IInv, TypeOK
<1>4. Streamed /\ frame.dir = "response" /\ frame.via = "http" /\ frame.kind = "plain" /\ logged = {}
  BY <1>2 DEF IInv, Way, Streamed
<1>5. logged' \subseteq Marks /\ logged' \cap {"secrets", "credential"} = {}
  <2>1. logged' \subseteq sanitizeForLog(frame, "none")
    BY <1>1, <1>4
  <2> QED BY <2>1, LogIsOfMarks, MarksAreMarks
<1>6. PICK msgs : msgs = [i \in DOMAIN frame.msgs |->
                  [frame.msgs[i] EXCEPT !.holds = IF found THEN @ \ {"secrets"} ELSE @]]
  OBVIOUS
<1>7. frame.msgs \in Seq(Message) /\ DOMAIN frame.msgs = 1 .. Len(frame.msgs)
      /\ Len(frame.msgs) \in Nat
  BY DEF IInv, TypeOK
<1>8. \A i \in 1 .. Len(frame.msgs) :
        /\ msgs[i] \in Message
        /\ msgs[i].holds = IF found THEN frame.msgs[i].holds \ {"secrets"} ELSE frame.msgs[i].holds
        /\ msgs[i].role = frame.msgs[i].role /\ msgs[i].form = frame.msgs[i].form
  <2> TAKE i \in 1 .. Len(frame.msgs)
  <2>1. frame.msgs[i] \in Message
    BY <1>7
  <2>2. msgs[i] = [frame.msgs[i] EXCEPT !.holds =
                     IF found THEN frame.msgs[i].holds \ {"secrets"} ELSE frame.msgs[i].holds]
    BY <1>6, <1>7
  <2>3. CASE found
    BY <2>1, <2>2, <2>3 DEF Message, Contents
  <2>4. CASE ~found
    BY <2>1, <2>2, <2>4 DEF Message, Contents
  <2> QED BY <2>3, <2>4
<1>9. msgs \in Seq(Message) /\ Len(msgs) = Len(frame.msgs) /\ DOMAIN msgs = 1 .. Len(frame.msgs)
  <2>1. msgs \in [1 .. Len(frame.msgs) -> Message]
    BY <1>6, <1>7, <1>8
  <2> QED BY <1>7, <2>1, SeqOf
<1>10. out' = [to |-> "client", msgs |-> msgs] /\ out'.to = "client" /\ out'.msgs = msgs
  BY <1>1, <1>6
<1>11. TypeOK'
  BY <1>1, <1>2, <1>5, <1>9, <1>10 DEF IInv, TypeOK
<1>12. Way'
  BY <1>2, <1>3, <1>4 DEF IInv, Way, Streamed
<1>13. Shape'
  BY <1>2, <1>3 DEF IInv, Shape, Kept
<1>14. Passed' /\ Unfiltered' /\ Clean'
  BY <1>2, <1>4 DEF Passed, Unfiltered, Clean, Streamed
<1>15. Gated'
  BY <1>2, <1>3 DEF IInv, Gated
<1>16. RedactedLeaves'
  <2> SUFFICES ASSUME NEW i \in 1 .. Len(frame.msgs),
                      NEW s \in msgs[i].holds \cap Redactable \cap Enabled
               PROVE  \/ msgs[i].form # "text" \/ s = "payment" \/ missed
    BY <1>2, <1>3, <1>4, <1>9, <1>10 DEF RedactedLeaves
  <2>1. CASE s = "secrets" /\ ~missed /\ msgs[i].form = "text"
    <3>1. "secrets" \in frame.msgs[i].holds /\ ~found
      BY <1>8, <2>1
    <3>2. i \in Scanned(frame)
      BY <1>4, <1>7, <1>8, <2>1 DEF Scanned, IsUIFrame, Readable
    <3> QED BY <1>1, <2>1, <3>1, <3>2 DEF Text
  <2> QED BY <2>1 DEF Redactable
<1>17. NothingBlockedLeaves'
  BY <1>10 DEF NothingBlockedLeaves
<1>18. CredentialWhereDue'
  <2> SUFFICES ASSUME NEW i \in 1 .. Len(frame.msgs) PROVE "credential" \notin msgs[i].holds
    BY <1>9, <1>10 DEF CredentialWhereDue
  <2> QED BY <1>8, MarksAreMarks DEF IInv, Shape
<1>19. LogTells'
  BY <1>5, <1>10 DEF LogTells
<1> QED BY <1>11, <1>12, <1>13, <1>14, <1>15, <1>16, <1>17, <1>18, <1>19 DEF IInv

-----------------------------------------------------------------------------
(* Theorems *)

LEMMA Stutter == ASSUME IInv, UNCHANGED vars PROVE IInv'
<1>1. TypeOK' /\ Way' /\ Shape' /\ Gated'
  BY DEF vars, IInv, TypeOK, Way, Shape, Gated, Kept, Streamed
<1>2. Passed' /\ Unfiltered' /\ Clean'
  BY DEF vars, IInv, Passed, Unfiltered, Clean, Exempt, Streamed
<1>3. RedactedLeaves' /\ NothingBlockedLeaves'
  BY DEF vars, IInv, RedactedLeaves, NothingBlockedLeaves
<1>4. CredentialWhereDue' /\ LogTells'
  BY DEF vars, IInv, CredentialWhereDue, LogTells
<1> QED BY <1>1, <1>2, <1>3, <1>4 DEF IInv

THEOREM Invariance == Spec => []IInv
<1>1. Init => IInv
  BY InitIInv
<1>2. IInv /\ [Next]_vars => IInv'
  <2> SUFFICES ASSUME IInv, [Next]_vars PROVE IInv'
    OBVIOUS
  <2>1. CASE Convert
    BY <2>1, ConvertStep
  <2>2. CASE Gate
    BY <2>2, GateStep
  <2>3. CASE Inspect
    BY <2>3, InspectStep
  <2>4. CASE Redact
    BY <2>4, RedactStep
  <2>5. CASE Filter
    BY <2>5, FilterStep
  <2>6. CASE Inject
    BY <2>6, InjectStep
  <2>7. CASE SendRequest
    BY <2>7, RequestStep
  <2>8. CASE SendResponse
    BY <2>8, ResponseStep
  <2>9. CASE streamAndScan
    BY <2>9, StreamStep
  <2>10. CASE SessionForgets \/ ScopesStored
    BY <2>10, SessionStep
  <2>11. CASE UNCHANGED vars
    BY <2>11, Stutter
  <2> QED BY <2>1, <2>2, <2>3, <2>4, <2>5, <2>6, <2>7, <2>8, <2>9, <2>10, <2>11 DEF Next
<1> QED BY <1>1, <1>2, PTL DEF Spec

(* Every frame keeps its type on its way, however long a chat is.           *)
THEOREM TypeCorrect == Spec => []TypeOK
BY Invariance, PTL DEF IInv

(* What the policy takes out leaves only on the ways that RedactedLeaves    *)
(* names (scanPayload's redactors, the relay, the stream scanner).          *)
THEOREM RedactionHolds == Spec => []RedactedLeaves
BY Invariance, PTL DEF IInv

(* No text that an enabled scanner blocks reaches the backend without an    *)
(* exemption (scanPayload's verdicts, after document conversion).           *)
THEOREM BlockingHolds == Spec => []NothingBlockedLeaves
BY Invariance, PTL DEF IInv

(* Credentials go out in calls that may have them only (the MCP gate and    *)
(* the injection at the end of the scan).                                   *)
THEOREM CredentialsStay == Spec => []CredentialWhereDue
BY Invariance, PTL DEF IInv

(* The log tells what a chat's strings brought and never a secret           *)
(* (logAuditEvent, sanitizeForLog).                                         *)
THEOREM LogIsTold == Spec => []LogTells
BY Invariance, PTL DEF IInv
=============================================================================
