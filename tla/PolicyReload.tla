---------------------------- MODULE PolicyReload ----------------------------
(***************************************************************************)
(* The policy file, the active policy and what is derived from it: the     *)
(* start-up load and the file watcher (loadPolicy, watchPolicyFile), the   *)
(* dashboard handlers that save a policy, switch the profile, save the SSO *)
(* section or restore a snapshot, an operator's text editor, and the scans *)
(* that read the policy under policyLock (proxy/main.go).                  *)
(*                                                                         *)
(* A step is one system call on the file, one critical section of a lock   *)
(* or one query of the snapshot table.  os.WriteFile truncates the file    *)
(* and then writes it.  A policy is a set of rules and an SSO section; a   *)
(* file may also be empty or not be YAML.  A waiting writer of policyLock  *)
(* keeps new readers out, as sync.RWMutex does.                            *)
(***************************************************************************)
EXTENDS Naturals, FiniteSets

CONSTANTS
  RuleSets, SSOs,     \* everything of a policy but SSO; the SSO sections
  Bare,               \* rule sets without a secret pattern that compiles
  Zero, Default,      \* the rules of an empty Config and of defaultPolicyYAML
  Off,                \* the SSO section of both
  Empty, Bad,         \* a file without content; a file that is not YAML
  Admins,             \* goroutines of the dashboard's handlers
  Scanners,           \* goroutines in scanPayload
  ToolCalls,          \* the traffic holds tool calls and findings to be logged
  MaxPending,         \* bound: write events fsnotify holds apart
  MaxWrites,          \* bound: saves, switches, restores and edits
  MaxCrashes          \* bound: times the process is killed

Policies == [rules : RuleSets, sso : SSOs]
Contents == Policies \cup {Empty, Bad}
Watcher == "watcher"
Editor == "editor"
Nobody == "nobody"
Procs == Admins \cup {Watcher, Editor}

ASSUME PolicyReloadAssumption ==
  /\ Bare \subseteq RuleSets /\ Zero \in Bare /\ Default \in RuleSets
  /\ Off \in SSOs /\ Empty # Bad /\ {Empty, Bad} \cap Policies = {}
  /\ {Watcher, Editor, Nobody} \cap Admins = {}
  /\ ToolCalls \in BOOLEAN /\ MaxPending \in Nat \ {0} /\ MaxWrites \in Nat /\ MaxCrashes \in Nat

VARIABLES
  file,          \* policy.yaml
  pending,       \* write events fsnotify holds for the watcher
  active,        \* policy with its compiled patterns
  quarantine,    \* the rules mcpQuarantined and skillQuarantined were computed from
  snapshots,     \* the texts in policy_snapshots
  writer,        \* the goroutine that waits for policyLock or holds it for writing
  scans,         \* goroutines in scanPayload
  procs,         \* locals of the loaders and of the handlers; Editor is outside
  up,            \* the process: boot, up or down
  behind,        \* history: the memory was last set from an older file
  crossed,       \* history: the last swap came before another load's audits
  writes, crashes

vars == <<file, pending, active, quarantine, snapshots, writer, scans, procs, up,
          behind, crossed, writes, crashes>>

-----------------------------------------------------------------------------
ZeroPolicy == [rules |-> Zero, sso |-> Off]
DefaultPolicy == [rules |-> Default, sso |-> Off]
Idle == [pc |-> "idle", kind |-> "none", data |-> Empty]

(* yaml.Unmarshal of nothing is an empty Config and no error.               *)
Parse(text) == IF text = Empty THEN ZeroPolicy ELSE text

(* Changed: the answer is always that nothing was loaded.                   *)
NeverLoaded == FALSE

AlreadyLoaded == active.rules \notin Bare

Serving == up = "up"
Watching == Serving /\ procs[Watcher].pc # "add"
Readers == {s \in Scanners : scans[s] \in {"scanning", "nested", "checked"}}
Auditing(p) == procs[p].pc \in {"auditMCP", "auditSkills"}
Go(p, pc) == procs' = [procs EXCEPT ![p].pc = pc]
Done(p) == procs' = [procs EXCEPT ![p] = Idle]

(* Changed: an event is dropped while the watcher is busy.                  *)
NotifyIdle ==
  IF Watching /\ procs[Watcher].pc = "idle"
  THEN pending' \in {pending, pending + 1} \cap 1 .. MaxPending
  ELSE pending' = pending

(* The kernel may merge an event with one that still waits.                 *)
Notify ==
  IF Watching THEN pending' \in {pending, pending + 1} \cap 1 .. MaxPending
  ELSE pending' = pending

(* Two writers that both truncated before either wrote: the second text     *)
(* covers the first, or leaves a tail of it, which is not YAML.             *)
Written(text) ==
  IF file \in {Empty, text} THEN {text}
  ELSE IF text = Empty THEN {file} ELSE {text, Bad}

Init ==
  /\ file \in Contents
  /\ pending = 0
  /\ active = ZeroPolicy
  /\ quarantine = [mcp |-> Zero, skills |-> Zero]
  /\ snapshots = {}
  /\ writer = Nobody
  /\ scans = [s \in Scanners |-> "idle"]
  /\ procs = [p \in Procs |-> IF p = Watcher
                THEN [pc |-> "read", kind |-> "load", data |-> Empty] ELSE Idle]
  /\ up = "boot"
  /\ behind = FALSE /\ crossed = FALSE
  /\ writes = 0 /\ crashes = 0

-----------------------------------------------------------------------------
(* log.Fatalf, and the end of the process: only the editor goes on.         *)
Die ==
  /\ up' = "down"
  /\ procs' = [p \in Procs |-> IF p = Editor THEN procs[Editor] ELSE Idle]
  /\ scans' = [s \in Scanners |-> "idle"]
  /\ writer' = Nobody /\ pending' = 0
  /\ UNCHANGED <<file, active, quarantine, snapshots, behind, crossed, writes>>

Crash ==
  /\ up # "down" /\ crashes < MaxCrashes
  /\ crashes' = crashes + 1
  /\ Die

(* main: loadPolicy runs to its end before anything is served.              *)
Restart ==
  /\ up = "down"
  /\ up' = "boot"
  /\ active' = ZeroPolicy
  /\ quarantine' = [mcp |-> Zero, skills |-> Zero]
  /\ procs' = [procs EXCEPT ![Watcher] = [pc |-> "read", kind |-> "load", data |-> Empty]]
  /\ behind' = FALSE /\ crossed' = FALSE
  /\ UNCHANGED <<file, pending, snapshots, writer, scans, writes, crashes>>

-----------------------------------------------------------------------------
(* The handlers that write policy.yaml, up to their first system call.      *)
Begin(p, kind, text) ==
  /\ procs[p].pc = "idle" /\ writes < MaxWrites
  /\ writes' = writes + 1
  /\ procs' = [procs EXCEPT ![p] =
        [pc |-> IF kind = "sso" THEN "lock" ELSE "truncate", kind |-> kind, data |-> text]]
  /\ UNCHANGED <<file, pending, active, quarantine, snapshots, writer, scans, up,
                 behind, crossed, crashes>>

SavePolicy(a) == Serving /\ \E c \in Policies : Begin(a, "save", c)
SaveSSO(a) == Serving /\ \E x \in SSOs : Begin(a, "sso", [rules |-> Zero, sso |-> x])
RestoreSnapshot(a) == Serving /\ \E c \in snapshots : Begin(a, "restore", c)
Edit == \E c \in Policies \cup {Bad} : Begin(Editor, "edit", c)

(* A copy of the active policy with the profile's switches: the patterns    *)
(* stay.                                                                    *)
SwitchProfile(a) ==
  /\ Serving /\ writer = Nobody
  /\ \E r \in RuleSets :
       /\ r \in Bare <=> active.rules \in Bare
       /\ Begin(a, "profile", [rules |-> r, sso |-> active.sso])

(* The SSO handler changes the memory first.  Changed: under a read lock.   *)
UpdateShared(p) ==
  /\ procs[p].pc = "update" /\ writer = p
  /\ LET new == [active EXCEPT !.sso = procs[p].data.sso] IN
       /\ active' = new
       /\ procs' = [procs EXCEPT ![p].pc = "truncate", ![p].data = new]
  /\ writer' = Nobody
  /\ UNCHANGED <<file, pending, quarantine, snapshots, scans, up, behind, crossed, writes, crashes>>

Update(p) ==
  /\ procs[p].pc = "update" /\ writer = p /\ Readers = {}
  /\ LET new == [active EXCEPT !.sso = procs[p].data.sso] IN
       /\ active' = new
       /\ procs' = [procs EXCEPT ![p].pc = "truncate", ![p].data = new]
  /\ writer' = Nobody
  /\ UNCHANGED <<file, pending, quarantine, snapshots, scans, up, behind, crossed, writes, crashes>>

Truncate(p) ==
  /\ procs[p].pc = "truncate"
  /\ file' = Empty
  /\ Notify
  /\ Go(p, "write")
  /\ UNCHANGED <<active, quarantine, snapshots, writer, scans, up, behind, crossed, writes, crashes>>

Write(p) ==
  /\ procs[p].pc = "write"
  /\ file' \in Written(procs[p].data)
  /\ Notify
  /\ CASE procs[p].kind = "load" -> Go(p, "reread")
       [] procs[p].kind \in {"save", "profile", "sso"} -> Go(p, "snapshot")
       [] OTHER -> Done(p)
  /\ UNCHANGED <<active, quarantine, snapshots, writer, scans, up, behind, crossed, writes, crashes>>

(* The file cannot be opened: a handler answers with an error, after the    *)
(* SSO handler has changed the memory; loadPolicy gives up.                 *)
WriteFails(p) ==
  /\ procs[p].pc = "truncate"
  /\ \/ /\ procs[p].kind = "load"
        /\ Die /\ UNCHANGED crashes
     \/ /\ procs[p].kind # "load"
        /\ Done(p)
        /\ behind' = (behind \/ procs[p].kind = "sso")
        /\ UNCHANGED <<file, pending, active, quarantine, snapshots, writer, scans, up,
                       crossed, writes, crashes>>

(* saveSnapshot reads the file again; a failed insert is only logged.       *)
SaveSnapshot(p) ==
  /\ procs[p].pc = "snapshot"
  /\ snapshots' \in {snapshots, snapshots \cup {file}}
  /\ IF procs[p].kind = "profile"
     THEN procs' = [procs EXCEPT ![p] = [pc |-> "read", kind |-> "load", data |-> Empty]]
     ELSE Done(p)
  /\ UNCHANGED <<file, pending, active, quarantine, writer, scans, up, behind, crossed,
                 writes, crashes>>

-----------------------------------------------------------------------------
(* watchPolicyFile and loadPolicy *)

AddWatch ==
  /\ procs[Watcher].pc = "add"
  /\ Done(Watcher)
  /\ behind' = (active # Parse(file))
  /\ UNCHANGED <<file, pending, active, quarantine, snapshots, writer, scans, up, crossed,
                 writes, crashes>>

Watch ==
  /\ Watching /\ pending > 0 /\ procs[Watcher].pc = "idle"
  /\ pending' = pending - 1
  /\ procs' = [procs EXCEPT ![Watcher] = [pc |-> "read", kind |-> "load", data |-> Empty]]
  /\ UNCHANGED <<file, active, quarantine, snapshots, writer, scans, up, behind, crossed,
                 writes, crashes>>

(* An empty file is filled with the defaults and read again.                *)
Read(p) ==
  /\ procs[p].pc \in {"read", "reread"}
  /\ procs' = [procs EXCEPT ![p] =
        IF file = Empty /\ procs[p].pc = "read"
        THEN [pc |-> "truncate", kind |-> "load", data |-> DefaultPolicy]
        ELSE [pc |-> "parse", kind |-> "load", data |-> file]]
  /\ UNCHANGED <<file, pending, active, quarantine, snapshots, writer, scans, up, behind,
                 crossed, writes, crashes>>

Decode(p) ==
  /\ procs[p].pc = "parse"
  /\ \/ /\ procs[p].data # Bad
        /\ procs' = [procs EXCEPT ![p].pc = "lock", ![p].data = Parse(procs[p].data)]
        /\ UNCHANGED <<file, pending, active, quarantine, snapshots, writer, scans, up,
                       behind, crossed, writes, crashes>>
     \/ /\ procs[p].data = Bad /\ writer = Nobody /\ AlreadyLoaded
        /\ Done(p)
        /\ UNCHANGED <<file, pending, active, quarantine, snapshots, writer, scans, up,
                       behind, crossed, writes, crashes>>
     \/ /\ procs[p].data = Bad /\ writer = Nobody /\ ~AlreadyLoaded
        /\ Die /\ UNCHANGED crashes

(* policyLock.Lock.  Changed: new readers may come in while it waits.       *)
LockWhenFree(p) ==
  /\ procs[p].pc = "lock" /\ writer = Nobody /\ Readers = {}
  /\ writer' = p
  /\ Go(p, IF procs[p].kind = "sso" THEN "update" ELSE "swap")
  /\ UNCHANGED <<file, pending, active, quarantine, snapshots, scans, up, behind, crossed,
                 writes, crashes>>

Lock(p) ==
  /\ procs[p].pc = "lock" /\ writer = Nobody
  /\ writer' = p
  /\ Go(p, IF procs[p].kind = "sso" THEN "update" ELSE "swap")
  /\ UNCHANGED <<file, pending, active, quarantine, snapshots, scans, up, behind, crossed,
                 writes, crashes>>

(* Changed: the lock is not released.                                       *)
SwapKeepsLock(p) ==
  /\ procs[p].pc = "swap" /\ writer = p /\ Readers = {}
  /\ active' = procs[p].data
  /\ Go(p, "auditMCP")
  /\ behind' = (p # Watcher /\ active' # Parse(file))
  /\ crossed' = \E q \in Procs \ {p} : Auditing(q)
  /\ UNCHANGED <<file, pending, quarantine, snapshots, writer, scans, up, writes, crashes>>

(* Changed: the MCP audit is forgotten.                                     *)
SwapThenSkills(p) ==
  /\ procs[p].pc = "swap" /\ writer = p /\ Readers = {}
  /\ active' = procs[p].data
  /\ writer' = Nobody
  /\ Go(p, "auditSkills")
  /\ behind' = (p # Watcher /\ active' # Parse(file))
  /\ crossed' = \E q \in Procs \ {p} : Auditing(q)
  /\ UNCHANGED <<file, pending, quarantine, snapshots, scans, up, writes, crashes>>

Swap(p) ==
  /\ procs[p].pc = "swap" /\ writer = p /\ Readers = {}
  /\ active' = procs[p].data
  /\ writer' = Nobody
  /\ Go(p, "auditMCP")
  /\ behind' = (p # Watcher /\ active' # Parse(file))
  /\ crossed' = \E q \in Procs \ {p} : Auditing(q)
  /\ UNCHANGED <<file, pending, quarantine, snapshots, scans, up, writes, crashes>>

AuditMCP(p) ==
  /\ procs[p].pc = "auditMCP"
  /\ quarantine' = [quarantine EXCEPT !.mcp = procs[p].data.rules]
  /\ Go(p, "auditSkills")
  /\ UNCHANGED <<file, pending, active, snapshots, writer, scans, up, behind, crossed,
                 writes, crashes>>

(* The end of a load; after the first one main starts to serve.             *)
AuditSkills(p) ==
  /\ procs[p].pc = "auditSkills"
  /\ quarantine' = [quarantine EXCEPT !.skills = procs[p].data.rules]
  /\ IF up = "boot" THEN procs' = [procs EXCEPT ![p] = [Idle EXCEPT !.pc = "add"]]
     ELSE Done(p)
  /\ up' = "up"
  /\ UNCHANGED <<file, pending, active, snapshots, writer, scans, behind, crossed,
                 writes, crashes>>

-----------------------------------------------------------------------------
(* scanPayload: the policy is read under one lock; a tool call and a logged *)
(* finding take the same lock again (isHighRiskTool, sanitizeForLog).       *)
ScanStep(s, from, to) ==
  /\ scans[s] = from
  /\ scans' = [scans EXCEPT ![s] = to]
  /\ UNCHANGED <<file, pending, active, quarantine, snapshots, writer, procs, up, behind,
                 crossed, writes, crashes>>

Receive(s) == Serving /\ ScanStep(s, "idle", "waiting")
BeginScan(s) == writer = Nobody /\ ScanStep(s, "waiting", "scanning")
Nest(s) == ToolCalls /\ ScanStep(s, "scanning", "nested")
CheckTool(s) == writer = Nobody /\ ScanStep(s, "nested", "checked")
EndScan(s) == ScanStep(s, "scanning", "idle") \/ ScanStep(s, "checked", "idle")
Scan(s) == BeginScan(s) \/ Nest(s) \/ CheckTool(s) \/ EndScan(s)

Handle(a) == SavePolicy(a) \/ SaveSSO(a) \/ RestoreSnapshot(a) \/ SwitchProfile(a)

Proceed(p) ==
  \/ Update(p) \/ Truncate(p) \/ Write(p) \/ SaveSnapshot(p)
  \/ Read(p) \/ Decode(p) \/ Lock(p) \/ Swap(p) \/ AuditMCP(p) \/ AuditSkills(p)

Next ==
  \/ Crash \/ Restart \/ Edit \/ AddWatch \/ Watch
  \/ \E a \in Admins : Handle(a)
  \/ \E p \in Procs : Proceed(p) \/ WriteFails(p)
  \/ \E s \in Scanners : Receive(s) \/ Scan(s)

Spec == Init /\ [][Next]_vars

(* Goroutines that can run do; a system call returns; a supervisor starts   *)
(* the process again; an editor that began to write a file ends.            *)
FairSpec ==
  /\ Spec
  /\ WF_vars(Restart) /\ WF_vars(AddWatch) /\ WF_vars(Watch)
  /\ \A p \in Procs : WF_vars(Proceed(p))
  /\ \A s \in Scanners : WF_vars(Scan(s))

-----------------------------------------------------------------------------
(* Properties *)

PCs == {"idle", "add", "read", "reread", "parse", "lock", "update", "swap", "truncate",
        "write", "snapshot", "auditMCP", "auditSkills"}
Kinds == {"none", "load", "save", "profile", "sso", "restore", "edit"}

(* Every variable has its type: the active policy is always a parsed one.   *)
TypeOK ==
  /\ file \in Contents /\ pending \in 0 .. MaxPending /\ active \in Policies
  /\ quarantine \in [mcp : RuleSets, skills : RuleSets]
  /\ snapshots \subseteq Contents /\ writer \in Procs \cup {Nobody}
  /\ scans \in [Scanners -> {"idle", "waiting", "scanning", "nested", "checked"}]
  /\ procs \in [Procs -> [pc : PCs, kind : Kinds, data : Contents]]
  /\ up \in {"boot", "up", "down"} /\ behind \in BOOLEAN /\ crossed \in BOOLEAN
  /\ writes \in 0 .. MaxWrites /\ crashes \in 0 .. MaxCrashes

Quiet == Serving /\ pending = 0 /\ \A p \in Procs : procs[p].pc = "idle"

(* However saves, edits, restores, profile switches and reloads interleave, *)
(* once nothing is under way the policy in force is the one in the file:    *)
(* no write goes unseen by the watcher (main.go:1789-1797).  The exceptions *)
(* are a profile switch whose own load was overtaken, an SSO section that   *)
(* could not be written, and an edit made before the watch was added.       *)
StaleOnlyIfBehind == Quiet /\ file # Bad /\ ~behind => active = Parse(file)

(* Servers and skills are quarantined by the rules in force whenever no     *)
(* load is between its swap and its audits, unless two loads have crossed   *)
(* (main.go:1708-1735).                                                     *)
QuarantineOnlyIfCrossed ==
  up # "down" /\ ~crossed /\ (\A p \in Procs : ~Auditing(p)) =>
    quarantine = [mcp |-> active.rules, skills |-> active.rules]

(* A file that is not YAML ends a serving process only when the policy in   *)
(* force has no secret pattern (main.go:1586-1598), and never while it has. *)
DiesOnlyIfBare ==
  [][Serving /\ up' = "down" /\ crashes' = crashes =>
       \/ active.rules \in Bare
       \/ \E p \in Procs : procs[p].pc = "truncate" /\ procs[p].kind = "load"]_vars

(* A scan sees one policy and its patterns from its first to its last       *)
(* check: nobody changes the policy while it holds the lock.                *)
OnePolicyPerScan == [][Readers # {} /\ up' # "down" => active' = active]_vars

(* A policy that stays in the file comes into force (main.go:1356-1357),    *)
(* through crashes and restarts, with the exceptions of StaleOnlyIfBehind.  *)
ReloadSettles ==
  \A c \in Policies : file = c ~> (file # c \/ active = c \/ behind)

(* A request that waits for the policy is scanned to its end.               *)
RequestsAnswered == \A s \in Scanners : scans[s] = "waiting" ~> scans[s] = "idle"
=============================================================================
