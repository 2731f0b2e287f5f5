----------------------------- MODULE ScanPayload -----------------------------
(***************************************************************************)
(* The way of one frame through the proxy: document conversion, the MCP    *)
(* gate, the scanners that block, the redaction of secrets and of payment  *)
(* data, WASM filters and the MCP credential, then what is sent and what   *)
(* is logged (scanPayload, handleRoot, the WebSocket relay, streamAndScan  *)
(* of proxy/main.go; mcpbroker.go; dlpchain.go; docconv.go).               *)
(*                                                                         *)
(* A content is the set of things in it that a scanner looks for, named    *)
(* after the scanner.  The policy does not change under a scan (see        *)
(* PolicyReload), the session's scopes may.  What a verdict that needs the *)
(* session's history or a service says is left open: ToolApproval,         *)
(* AgentSessions and Gateway model some of those.                          *)
(***************************************************************************)
EXTENDS Naturals, Sequences, FiniteSets

CONSTANTS
  Enabled,         \* the scanners the policy switches on
  Marks,           \* what a content may hold
  RequireScope,    \* mcp_servers.require_scope
  MaxMessages,     \* bound: messages of a frame
  MaxMarks         \* bound: marks of a message

VARIABLES
  granted,         \* what the scopes of the agent's token exempt it from
  held,            \* the same, of its session as stored
  frame,           \* the frame, with the payload scanPayload is given
  scan,            \* scanPayload's locals and its result
  out, logged      \* what was sent, and which contents the log has

vars == <<granted, held, frame, scan, out, logged>>

-----------------------------------------------------------------------------
(* Scanners, in the order of their verdicts *)

Order == <<"exec", "canary", "injection", "address", "personal", "malicious", "atr">>
Blocking == {Order[i] : i \in DOMAIN Order} \cup {"wasm"}
RequestOnly == {"exec", "injection"}
NotOnControl == {"injection", "personal", "malicious"}
Redactable == {"secrets", "payment"}
Scopes == NotOnControl \cup {"secrets", "mcp"}

ASSUME ScanPayloadAssumption ==
  /\ Marks \subseteq Blocking \cup Redactable \cup {"call"}
  /\ RequireScope \in BOOLEAN /\ MaxMessages \in Nat \ {0} /\ MaxMarks \in Nat

-----------------------------------------------------------------------------
(* Frames *)

Contents == SUBSET (Marks \cup {"credential", "canary"})
Message == [role : {"system", "user"}, form : {"text", "blocks", "file"}, holds : Contents]

Received == {m \in Message : m.holds \subseteq Marks /\ Cardinality(m.holds) <= MaxMarks}
Whole == {f \in [{1} -> Received] : f[1].role = "user" /\ f[1].form = "text"}

(* A chat has messages; any other frame is one text.                        *)
Requests ==
  [dir : {"request"}, via : {"http", "ws"}, kind : {"chat"},
   msgs : UNION {[1 .. n -> Received] : n \in 1 .. MaxMessages}]
  \cup [dir : {"request"}, via : {"http", "ws"}, kind : {"control", "plain"}, msgs : Whole]
Responses == [dir : {"response"}, via : {"http", "ws"}, kind : {"plain"}, msgs : Whole]

User(msgs) == {i \in DOMAIN msgs : msgs[i].role = "user"}
Strings(msgs) == {i \in User(msgs) : msgs[i].form = "text"}
Readable(msgs) == {i \in DOMAIN msgs : msgs[i].form # "file"}

IsUIFrame(f) == f.kind = "chat" /\ User(f.msgs) \cap Readable(f.msgs) # {}
Scanned(f) == Readable(f.msgs) \cap IF IsUIFrame(f) THEN User(f.msgs) ELSE DOMAIN f.msgs
Text(f) == UNION {f.msgs[i].holds : i \in Scanned(f)}

(* The only message of the user, when it is a string and is a tool call.    *)
Sole(f) == {i \in Strings(f.msgs) : f.kind = "chat" /\ User(f.msgs) = {i}}
Called(f) == \E i \in Sole(f) : "call" \in f.msgs[i].holds

-----------------------------------------------------------------------------
(* Scanners and redactors *)

(* Changed: only the first message of a chat is scanned.                    *)
FindsInFirst(s, f) ==
  /\ s \in Enabled /\ s \in f.msgs[1].holds
  /\ s \in RequestOnly => f.dir = "request"
  /\ s \in NotOnControl => f.kind # "control" /\ s \notin held
  /\ s = "exec" => Called(f)

Finds(s, f) ==
  /\ s \in Enabled /\ s \in Text(f)
  /\ s \in RequestOnly => f.dir = "request"
  /\ s \in NotOnControl => f.kind # "control" /\ s \notin held
  /\ s = "exec" => Called(f)

(* The first scanner that finds something, or the session's history, the    *)
(* LLM, Presidio, a feed or the resolver, or none.                          *)
Verdicts(f) ==
  LET found == {i \in DOMAIN Order : Finds(Order[i], f)} IN
  {Order[i] : i \in {k \in found : \A j \in found : k <= j}} \cup {"service"}
  \cup (IF found = {} THEN {"none"} ELSE {})

Redacts(f) == {s \in Redactable \cap Enabled : s \in Text(f) /\ (s = "secrets" => s \notin held)}

(* In a chat the strings of its messages, else all of the text.             *)
Rewritten(f) == IF IsUIFrame(f) THEN Strings(f.msgs) ELSE Readable(f.msgs)

(* Changed: only the text found by the scan's last redactor is taken out.   *)
RedactedLast(f) ==
  LET taken == IF "payment" \in Redacts(f) THEN {"payment"} ELSE Redacts(f) IN
  [i \in DOMAIN f.msgs |->
     IF i \in Rewritten(f) THEN [f.msgs[i] EXCEPT !.holds = @ \ taken] ELSE f.msgs[i]]

Redacted(f) ==
  [i \in DOMAIN f.msgs |->
     IF i \in Rewritten(f) THEN [f.msgs[i] EXCEPT !.holds = @ \ Redacts(f)] ELSE f.msgs[i]]

(* The strings of a chat, else all of the text, without the secrets.        *)
LogText(f) ==
  UNION {f.msgs[i].holds : i \in IF f.kind = "chat" /\ Strings(f.msgs) # {}
                                 THEN Strings(f.msgs) ELSE Readable(f.msgs)}

(* Changed: the place holder also stands for a frame of which a part was    *)
(* redacted.                                                                *)
sanitizedForLog(f, by) ==
  IF by = "personal" \/ Redacts(f) # {} THEN {} ELSE LogText(f) \ {"secrets"}

sanitizeForLog(f, by) == IF by = "personal" THEN {} ELSE LogText(f) \ {"secrets"}

-----------------------------------------------------------------------------
(* scanPayload *)

Init ==
  /\ granted \in SUBSET (Scopes \cap (Marks \cup {"mcp"})) /\ held \in {granted, {}}
  /\ frame \in Requests \cup Responses
  /\ scan = [pc |-> CASE frame.dir = "request" /\ frame.via = "http" -> "convert"
                      [] frame.dir = "response" /\ frame.via = "http" -> "stream"
                      [] OTHER -> "gate",
             server |-> "none", token |-> "none", by |-> "none", msgs |-> frame.msgs,
             redacted |-> FALSE, injected |-> FALSE, missed |-> FALSE]
  /\ out = [to |-> "nobody", msgs |-> << >>] /\ logged = {}

(* Changed: the payload that is forwarded is converted, not the one that is *)
(* scanned.                                                                 *)
ConvertLate ==
  /\ scan.pc = "convert"
  /\ \E done \in SUBSET {i \in DOMAIN frame.msgs : frame.msgs[i].form = "file"} :
       scan' = [scan EXCEPT !.pc = "gate", !.msgs =
                  [i \in DOMAIN @ |-> IF i \in done THEN [@[i] EXCEPT !.form = "blocks"]
                                      ELSE @[i]]]
  /\ UNCHANGED <<granted, held, frame, out, logged>>

(* doc2md makes text of some of the attachments; the rest stay as they are. *)
Convert ==
  /\ scan.pc = "convert"
  /\ \E done \in SUBSET {i \in DOMAIN frame.msgs : frame.msgs[i].form = "file"} :
       frame' = [frame EXCEPT !.msgs =
                   [i \in DOMAIN @ |-> IF i \in done THEN [@[i] EXCEPT !.form = "blocks"]
                                       ELSE @[i]]]
  /\ scan' = [scan EXCEPT !.pc = "gate", !.msgs = frame'.msgs]
  /\ UNCHANGED <<granted, held, out, logged>>

(* Changed: a context token of the session stands for the scope.            *)
RefusedWithoutToken(server, token) ==
  \/ token = "foreign" \/ server = "quarantined"
  \/ (server # "none" /\ RequireScope /\ "mcp" \notin held /\ token = "none")

(* A tool may belong to a server and its arguments carry a context token.   *)
Refused(server, token) ==
  \/ token = "foreign" \/ server = "quarantined"
  \/ (server # "none" /\ RequireScope /\ "mcp" \notin held)

Gate ==
  /\ scan.pc = "gate"
  /\ \E server \in {"none", "sound", "unset", "quarantined"}, token \in {"none", "own", "foreign"} :
       /\ server # "none" \/ token # "none" => Called(frame) /\ "mcp" \in Enabled
       /\ LET refused == Refused(server, token) IN
          scan' = [scan EXCEPT !.server = server, !.token = token,
                               !.by = IF refused THEN "mcp" ELSE "none",
                               !.pc = IF refused THEN "send" ELSE "inspect"]
  /\ UNCHANGED <<granted, held, frame, out, logged>>

Inspect ==
  /\ scan.pc = "inspect"
  /\ \E by \in Verdicts(frame) :
       scan' = [scan EXCEPT !.by = by, !.pc = IF by = "none" THEN "redact" ELSE "send"]
  /\ UNCHANGED <<granted, held, frame, out, logged>>

Redact ==
  /\ scan.pc = "redact"
  /\ scan' = [scan EXCEPT !.pc = "filter", !.redacted = Redacts(frame) # {},
                          !.msgs = IF Redacts(frame) = {} THEN @ ELSE Redacted(frame)]
  /\ UNCHANGED <<granted, held, frame, out, logged>>

(* The filters read what came, not what the redactors made of it.           *)
Filter ==
  /\ scan.pc = "filter"
  /\ LET caught == Finds("wasm", frame) IN
     scan' = [scan EXCEPT !.by = IF caught THEN "wasm" ELSE @,
                          !.pc = IF caught THEN "send" ELSE "inject"]
  /\ UNCHANGED <<granted, held, frame, out, logged>>

(* The call is built again from the arguments as they came, which brings    *)
(* back what was redacted.  Without a credential nothing is rewritten.      *)
Inject ==
  /\ scan.pc = "inject"
  /\ LET inject == scan.server = "sound" IN
     scan' = [scan EXCEPT !.pc = "send", !.injected = inject,
                          !.msgs = [i \in DOMAIN @ |->
                            IF inject /\ i \in Sole(frame)
                            THEN [@[i] EXCEPT !.holds = frame.msgs[i].holds \cup {"credential"}]
                            ELSE @[i]]]
  /\ UNCHANGED <<granted, held, frame, out, logged>>

-----------------------------------------------------------------------------
(* The callers *)

(* Skills and the canary go into the first message when it is a system      *)
(* string, else into a new one before it.                                   *)
injectSystemContext(msgs) ==
  IF frame.kind # "chat" THEN msgs
  ELSE IF msgs[1].role = "system" /\ msgs[1].form = "text"
  THEN [msgs EXCEPT ![1].holds = @ \cup {"canary"}]
  ELSE [i \in 1 .. Len(msgs) + 1 |->
          IF i = 1 THEN [role |-> "system", form |-> "text", holds |-> {"canary"}] ELSE msgs[i - 1]]

SendRequest ==
  /\ scan.pc = "send" /\ frame.dir = "request"
  /\ logged' = logged \cup sanitizeForLog(frame, scan.by)
  /\ out' = IF scan.by # "none" THEN out
            ELSE [to |-> "backend", msgs |-> IF frame.via = "http" THEN injectSystemContext(scan.msgs)
                                             ELSE scan.msgs]
  /\ scan' = [scan EXCEPT !.pc = "done"]
  /\ UNCHANGED <<granted, held, frame>>

(* The relay to the client looks at Redacted and never at Blocked.          *)
SendResponse ==
  /\ scan.pc = "send" /\ frame.dir = "response"
  /\ logged' = logged \cup IF scan.redacted THEN sanitizeForLog(frame, scan.by) ELSE {}
  /\ out' = [to |-> "client", msgs |-> scan.msgs]
  /\ scan' = [scan EXCEPT !.pc = "done"]
  /\ UNCHANGED <<granted, held, frame>>

(* An HTTP response is searched for secrets only, whatever the scopes; it   *)
(* is missed in other content types, and when it is longer than the overlap *)
(* of two reads.                                                            *)
streamAndScan ==
  /\ scan.pc = "stream"
  /\ \E missed \in BOOLEAN :
       LET found == "secrets" \in Enabled \cap Text(frame) /\ ~missed IN
       /\ out' = [to |-> "client", msgs |-> [i \in DOMAIN frame.msgs |->
                    [frame.msgs[i] EXCEPT !.holds = IF found THEN @ \ {"secrets"} ELSE @]]]
       /\ logged' = logged \cup IF found THEN sanitizeForLog(frame, "none") ELSE {}
       /\ scan' = [scan EXCEPT !.pc = "done", !.missed = missed]
  /\ UNCHANGED <<granted, held, frame>>

(* The cleanup or a kill drops the session; another request stores it again *)
SessionForgets ==
  /\ scan.pc # "done" /\ held' = {}
  /\ UNCHANGED <<granted, frame, scan, out, logged>>

ScopesStored ==
  /\ scan.pc # "done" /\ held' = granted
  /\ UNCHANGED <<granted, frame, scan, out, logged>>

Next ==
  \/ Convert \/ Gate \/ Inspect \/ Redact \/ Filter \/ Inject
  \/ SendRequest \/ SendResponse \/ streamAndScan \/ SessionForgets \/ ScopesStored

Spec == Init /\ [][Next]_vars

-----------------------------------------------------------------------------
(* Properties *)

TypeOK ==
  /\ granted \subseteq Scopes /\ held \in {granted, {}}
  /\ frame \in [dir : {"request", "response"}, via : {"http", "ws"},
                kind : {"chat", "control", "plain"}, msgs : Seq(Message)]
  /\ scan \in [pc : {"convert", "gate", "inspect", "redact", "filter", "inject", "send",
                     "stream", "done"},
               server : {"none", "sound", "unset", "quarantined"},
               token : {"none", "own", "foreign"},
               by : {"none", "mcp", "service"} \cup Blocking, msgs : Seq(Message),
               redacted : BOOLEAN, injected : BOOLEAN, missed : BOOLEAN]
  /\ out \in [to : {"nobody", "backend", "client"}, msgs : Seq(Message)]
  /\ logged \subseteq Marks

(* A secret or a card number that the policy takes out reaches nobody, but  *)
(* in a system message, in blocks or a file, in a call rewritten for a      *)
(* credential, for a session with the scope, and in responses that a        *)
(* blocking scanner caught first or that the stream scanner cannot see.     *)
RedactedLeaves ==
  \A i \in DOMAIN out.msgs : \A s \in out.msgs[i].holds \cap Redactable \cap Enabled :
    \/ out.msgs[i].role = "system" \/ out.msgs[i].form # "text"
    \/ scan.injected \/ (s = "secrets" /\ s \in granted)
    \/ out.to = "client" /\ frame.via = "ws" /\ scan.by \in (Blocking \cup {"service"}) \ {"wasm"}
    \/ out.to = "client" /\ frame.via = "http" /\ (s = "payment" \/ scan.missed)

(* No text of the user that an enabled scanner blocks reaches the backend   *)
(* through any message of a chat or any converted document, unless a scope  *)
(* of the agent or the kind of frame exempts it.                            *)
NothingBlockedLeaves ==
  out.to = "backend" =>
    \A i \in DOMAIN out.msgs : \A s \in out.msgs[i].holds \cap Blocking \cap Enabled :
      \/ out.msgs[i].role = "system" \/ out.msgs[i].form = "file"
      \/ s \in NotOnControl /\ (frame.kind = "control" \/ s \in granted)
      \/ s = "exec" /\ ~Called(frame)

(* A server's credential leaves only in the one call of a session that may  *)
(* call that server, through no borrowed context, to no quarantined server. *)
CredentialWhereDue ==
  \A i \in DOMAIN out.msgs : "credential" \in out.msgs[i].holds =>
    /\ out.to = "backend" /\ scan.server = "sound" /\ scan.token # "foreign"
    /\ RequireScope => "mcp" \in granted
    /\ {j \in DOMAIN out.msgs : out.msgs[j].role = "user"} = {i}

(* The log holds no secret, and it holds all else that a chat's strings or  *)
(* a plain frame brought to the backend.                                    *)
LogTells ==
  /\ logged \cap {"secrets", "credential"} = {}
  /\ out.to = "backend" =>
       (UNION {out.msgs[i].holds : i \in Strings(out.msgs)}) \ {"secrets", "credential"} \subseteq logged
=============================================================================
