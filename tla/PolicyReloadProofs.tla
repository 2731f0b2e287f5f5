------------------------- MODULE PolicyReloadProofs -------------------------
(***************************************************************************)
(* Theorems about PolicyReload, for every set of rules, handlers and scans *)
(* and every bound: the types, what is in force once nothing is under way, *)
(* what is quarantined, when a bad file ends the process, and that a scan  *)
(* sees one policy.                                                        *)
(***************************************************************************)
EXTENDS PolicyReload, TLAPS

LoadPCs == {"read", "reread", "parse", "lock", "swap", "truncate", "write",
            "auditMCP", "auditSkills"}

(* A loader holds a policy from the moment it has parsed the file.          *)
LoadsParsed ==
  \A p \in Procs :
    procs[p].pc \in {"lock", "swap", "update", "auditMCP", "auditSkills"} =>
      procs[p].data \in Policies

(* The watcher only loads, the editor only writes.                          *)
Roles ==
  /\ procs[Watcher].pc \in LoadPCs \cup {"idle", "add"}
  /\ procs[Watcher].pc \in LoadPCs => procs[Watcher].kind = "load"
  /\ procs[Editor].pc \in {"idle", "truncate", "write"}
  /\ procs[Editor].kind \in {"none", "edit"}

(* Before the first load is over, and while the process is down, nothing    *)
(* else runs.                                                               *)
Phases ==
  /\ up # "up" => \A s \in Scanners : scans[s] = "idle"
  /\ up # "up" => \A a \in Admins : procs[a].pc = "idle"
  /\ up = "down" => procs[Watcher].pc = "idle"
  /\ up = "boot" => procs[Watcher].pc \in LoadPCs
  /\ up = "boot" /\ ~Auditing(Watcher) => active.rules = Zero

(* Without an event, what the watcher has read is what the file holds.      *)
WatcherFollows ==
  Watching /\ pending = 0 =>
    /\ procs[Watcher].pc = "parse" => procs[Watcher].data = file
    /\ procs[Watcher].pc \in {"lock", "swap"} =>
         procs[Watcher].data = Parse(file) /\ file # Bad

(* Who will bring the memory and the file together when they differ.        *)
SomeoneWill ==
  Serving /\ pending = 0 /\ ~behind /\ file # Bad =>
    \/ active = Parse(file)
    \/ procs[Watcher].pc \in (LoadPCs \ {"auditMCP", "auditSkills"}) \cup {"add"}
    \/ \E a \in Admins : procs[a].pc = "truncate" /\ procs[a].kind = "sso"

(* Only the SSO handler changes the memory outside a load.                  *)
UpdatesAreSSO ==
  \A p \in Procs : procs[p].pc = "update" => procs[p].kind = "sso" /\ p \in Admins

Follow == WatcherFollows /\ SomeoneWill /\ UpdatesAreSSO

(* Between an uncrossed swap and its audits nobody else audits.             *)
OneAudit ==
  up # "down" /\ ~crossed =>
    /\ \A p, q \in Procs : Auditing(p) /\ Auditing(q) => p = q
    /\ \A p \in Procs : Auditing(p) => procs[p].data.rules = active.rules
    /\ \A p \in Procs : procs[p].pc = "auditSkills" => quarantine.mcp = active.rules
    /\ (\A p \in Procs : ~Auditing(p)) =>
         quarantine.mcp = active.rules /\ quarantine.skills = active.rules

Shape == TypeOK /\ LoadsParsed /\ Roles /\ Phases

-----------------------------------------------------------------------------
(* The names of the goroutines differ, and so do the kinds of a text.       *)
LEMMA Constants ==
  /\ Watcher \in Procs /\ Editor \in Procs /\ Admins \subseteq Procs
  /\ Watcher # Editor /\ Watcher \notin Admins /\ Editor \notin Admins
  /\ Nobody \notin Procs
  /\ ZeroPolicy \in Policies /\ DefaultPolicy \in Policies
  /\ Policies \subseteq Contents /\ Empty \in Contents /\ Bad \in Contents
  /\ Empty \notin Policies /\ Bad \notin Policies /\ Empty # Bad
  BY PolicyReloadAssumption DEF Procs, Watcher, Editor, Nobody, ZeroPolicy, DefaultPolicy,
     Policies, Contents

(* What is not "not YAML" parses to a policy.                               *)
LEMMA Parses ==
  ASSUME NEW c \in Contents, c # Bad
  PROVE  Parse(c) \in Policies
  BY Constants DEF Parse, Contents

(* What a write leaves in the file is a text.                               *)
LEMMA WrittenIsText ==
  ASSUME NEW c \in Contents, file \in Contents, NEW f \in Written(c)
  PROVE  f \in Contents
  BY Constants DEF Written

(* The initial states have the shape.                                       *)
LEMMA InitShape == Init => Shape
  <1> SUFFICES ASSUME Init PROVE Shape
    OBVIOUS
  <1>1. TypeOK
    <2>1. procs \in [Procs -> [pc : PCs, kind : Kinds, data : Contents]]
      BY Constants DEF Init, Idle, PCs, Kinds
    <2>2. quarantine \in [mcp : RuleSets, skills : RuleSets]
      BY PolicyReloadAssumption DEF Init
    <2>3. /\ writes \in 0 .. MaxWrites /\ crashes \in 0 .. MaxCrashes /\ pending \in 0 .. MaxPending
      BY PolicyReloadAssumption DEF Init
    <2> QED
      BY <2>1, <2>2, <2>3, Constants DEF Init, TypeOK
  <1>2. LoadsParsed
    BY Constants DEF Init, Idle, LoadsParsed
  <1>3. Roles
    BY Constants DEF Init, Idle, Roles, LoadPCs
  <1>4. Phases
    BY Constants DEF Init, Idle, Phases, LoadPCs, ZeroPolicy
  <1> QED
    BY <1>1, <1>2, <1>3, <1>4 DEF Shape

(* One goroutine moves: what its new locals must satisfy for the shape to   *)
(* be kept, the process staying in the same phase.                          *)
LEMMA OneMoves ==
  ASSUME Shape, NEW p \in Procs, NEW l \in [pc : PCs, kind : Kinds, data : Contents],
         procs' = [procs EXCEPT ![p] = l],
         l.pc \in {"lock", "swap", "update", "auditMCP", "auditSkills"} => l.data \in Policies,
         p = Watcher => l.pc \in LoadPCs \cup {"idle", "add"},
         p = Watcher /\ l.pc \in LoadPCs => l.kind = "load",
         p = Editor => l.pc \in {"idle", "truncate", "write"} /\ l.kind \in {"none", "edit"}
  PROVE  /\ procs' \in [Procs -> [pc : PCs, kind : Kinds, data : Contents]]
         /\ LoadsParsed' /\ Roles'
  <1>1. procs \in [Procs -> [pc : PCs, kind : Kinds, data : Contents]]
    BY DEF Shape, TypeOK
  <1>2. procs'[p] = l /\ \A q \in Procs \ {p} : procs'[q] = procs[q]
    BY <1>1
  <1>3. procs' \in [Procs -> [pc : PCs, kind : Kinds, data : Contents]]
    BY <1>1
  <1>4. LoadsParsed'
    BY <1>2 DEF Shape, LoadsParsed
  <1>5. Roles'
    BY <1>2, Constants DEF Shape, Roles
  <1> QED
    BY <1>3, <1>4, <1>5

(* Die keeps the shape.                                                     *)
LEMMA DieShape ==
  ASSUME Shape, Die, crashes' \in 0 .. MaxCrashes
  PROVE  Shape'
  <1>1. procs \in [Procs -> [pc : PCs, kind : Kinds, data : Contents]]
    BY DEF Shape, TypeOK
  <1>2. procs'[Editor] = procs[Editor] /\ \A q \in Procs \ {Editor} : procs'[q] = Idle
    BY Constants DEF Die
  <1>3. Idle \in [pc : PCs, kind : Kinds, data : Contents]
    BY Constants DEF Idle, PCs, Kinds
  <1>4. procs' \in [Procs -> [pc : PCs, kind : Kinds, data : Contents]]
    BY <1>1, <1>3, Constants DEF Die
  <1>5. TypeOK'
    BY <1>4, PolicyReloadAssumption DEF Die, Shape, TypeOK
  <1>6. LoadsParsed'
    BY <1>2, Constants DEF Idle, Shape, LoadsParsed
  <1>7. Roles'
    BY <1>2, Constants DEF Idle, Shape, Roles, LoadPCs
  <1>8. Phases'
    BY <1>2, Constants DEF Die, Idle, Phases
  <1> QED
    BY <1>5, <1>6, <1>7, <1>8 DEF Shape

(* A goroutine that is in the middle of something is one of a running       *)
(* process, or the editor.                                                  *)
LEMMA WhoMoves ==
  ASSUME Shape, NEW p \in Procs, procs[p].pc # "idle"
  PROVE  /\ p \in Admins => up = "up"
         /\ p = Watcher => up # "down"
         /\ p = Watcher \/ p = Editor \/ p \in Admins
         /\ procs[p] \in [pc : PCs, kind : Kinds, data : Contents]
  <1>1. p = Watcher \/ p = Editor \/ p \in Admins
    BY DEF Procs
  <1>2. up \in {"boot", "up", "down"} /\ procs[p] \in [pc : PCs, kind : Kinds, data : Contents]
    BY DEF Shape, TypeOK
  <1> QED
    BY <1>1, <1>2 DEF Shape, Phases

(* The phases are kept when one goroutine moves within its phase.           *)
LEMMA PhaseKept ==
  ASSUME Shape, NEW p \in Procs, NEW l,
         procs' = [procs EXCEPT ![p] = l], up' = up, scans' = scans,
         p \in Admins => up = "up",
         p = Watcher => up # "down" /\ (up = "boot" => l.pc \in LoadPCs),
         \/ up = "up"
         \/ active' = active /\ ~Auditing(p)
         \/ p = Watcher /\ l.pc \in {"auditMCP", "auditSkills"}
  PROVE  Phases'
  <1>1. procs'[p] = l /\ \A q \in Procs \ {p} : procs'[q] = procs[q]
    BY DEF Shape, TypeOK
  <1>2. up = "boot" /\ ~Auditing(Watcher)' => active'.rules = Zero
    BY <1>1, Constants DEF Shape, Phases, Auditing
  <1> QED
    BY <1>1, <1>2, Constants DEF Shape, Phases

(* The other variables keep their types.                                    *)
OthersTyped ==
  /\ file \in Contents /\ pending \in 0 .. MaxPending /\ active \in Policies
  /\ quarantine \in [mcp : RuleSets, skills : RuleSets]
  /\ snapshots \subseteq Contents /\ writer \in Procs \cup {Nobody}
  /\ behind \in BOOLEAN /\ crossed \in BOOLEAN
  /\ writes \in 0 .. MaxWrites /\ crashes \in 0 .. MaxCrashes

LEMMA ShapeKept ==
  ASSUME Shape, OthersTyped', NEW p \in Procs,
         NEW l \in [pc : PCs, kind : Kinds, data : Contents],
         procs' = [procs EXCEPT ![p] = l], up' = up, scans' = scans,
         l.pc \in {"lock", "swap", "update", "auditMCP", "auditSkills"} => l.data \in Policies,
         p \in Admins => up = "up",
         p = Watcher => up # "down" /\ (up = "boot" => l.pc \in LoadPCs),
         p = Watcher => l.pc \in LoadPCs \cup {"idle", "add"},
         p = Watcher /\ l.pc \in LoadPCs => l.kind = "load",
         p = Editor => l.pc \in {"idle", "truncate", "write"} /\ l.kind \in {"none", "edit"},
         \/ up = "up"
         \/ active' = active /\ ~Auditing(p)
         \/ p = Watcher /\ l.pc \in {"auditMCP", "auditSkills"}
  PROVE  Shape'
  <1>1. /\ procs' \in [Procs -> [pc : PCs, kind : Kinds, data : Contents]]
        /\ LoadsParsed' /\ Roles'
    BY OneMoves
  <1>2. Phases'
    BY PhaseKept
  <1>3. TypeOK'
    BY <1>1 DEF Shape, TypeOK, OthersTyped
  <1> QED
    BY <1>1, <1>2, <1>3 DEF Shape

(* Each action keeps the shape.                                             *)
LEMMA BeginShape ==
  ASSUME Shape, NEW p \in Admins \cup {Editor}, NEW k \in Kinds, NEW c \in Contents,
         Begin(p, k, c),
         p \in Admins => Serving /\ k # "load",
         k = "sso" => p \in Admins /\ c \in Policies,
         p = Editor => k = "edit"
  PROVE  Shape'
  <1> DEFINE l == [pc |-> IF k = "sso" THEN "lock" ELSE "truncate", kind |-> k, data |-> c]
  <1>1. l \in [pc : PCs, kind : Kinds, data : Contents]
    BY DEF PCs, Kinds
  <1>2. OthersTyped'
    BY PolicyReloadAssumption DEF Begin, Shape, TypeOK, OthersTyped
  <1>3. p \in Procs /\ p # Watcher
    BY Constants
  <1>4. procs' = [procs EXCEPT ![p] = l] /\ up' = up /\ scans' = scans
    BY DEF Begin
  <1> HIDE DEF l
  <1>5. /\ p = Editor => l.pc = "truncate" /\ l.kind = "edit"
        /\ l.pc \in {"lock", "swap", "update", "auditMCP", "auditSkills"} => l.data \in Policies
    BY Constants DEF l
  <1>6. active' = active /\ ~Auditing(p)
    BY DEF Begin, Auditing
  <1> QED
    BY <1>1, <1>2, <1>3, <1>4, <1>5, <1>6, ShapeKept, Constants DEF Serving

LEMMA HandleShape ==
  ASSUME Shape, Edit \/ \E a \in Admins : Handle(a)
  PROVE  Shape'
  <1>1. CASE Edit
    BY <1>1, BeginShape, Constants DEF Edit, Kinds
  <1>2. ASSUME NEW a \in Admins, Handle(a) PROVE Shape'
    <2>1. CASE SavePolicy(a)
      BY <2>1, BeginShape, Constants DEF SavePolicy, Kinds
    <2>2. CASE SaveSSO(a)
      <3>1. PICK x \in SSOs : Begin(a, "sso", [rules |-> Zero, sso |-> x])
        BY <2>2 DEF SaveSSO
      <3>2. [rules |-> Zero, sso |-> x] \in Policies
        BY PolicyReloadAssumption DEF Policies
      <3> QED
        BY <2>2, <3>1, <3>2, BeginShape, Constants DEF SaveSSO, Kinds
    <2>3. CASE RestoreSnapshot(a)
      <3>1. snapshots \subseteq Contents
        BY DEF Shape, TypeOK
      <3> QED
        BY <2>3, <3>1, BeginShape, Constants DEF RestoreSnapshot, Kinds
    <2>4. CASE SwitchProfile(a)
      <3>1. PICK r \in RuleSets : Begin(a, "profile", [rules |-> r, sso |-> active.sso])
        BY <2>4 DEF SwitchProfile
      <3>2. [rules |-> r, sso |-> active.sso] \in Policies
        BY DEF Shape, TypeOK, Policies
      <3> QED
        BY <2>4, <3>1, <3>2, BeginShape, Constants DEF SwitchProfile, Kinds
    <2> QED
      BY <1>2, <2>1, <2>2, <2>3, <2>4 DEF Handle
  <1> QED
    BY <1>1, <1>2

LEMMA ProceedShape ==
  ASSUME Shape, NEW p \in Procs, Proceed(p)
  PROVE  Shape'
  <1> DEFINE Locals == [pc : PCs, kind : Kinds, data : Contents]
  <1>1. /\ TypeOK /\ LoadsParsed /\ Roles /\ Phases
    BY DEF Shape
  <1>2. procs[p].pc # "idle"
    BY DEF Proceed, Update, Truncate, Write, SaveSnapshot, Read, Decode, Lock, Swap,
       AuditMCP, AuditSkills
  <1>3. /\ p \in Admins => up = "up"
        /\ p = Watcher => up # "down"
        /\ p = Watcher \/ p = Editor \/ p \in Admins
        /\ procs[p] \in Locals
    BY <1>2, WhoMoves
  <1>4. /\ p = Watcher => procs[p].pc \in LoadPCs \cup {"add"} /\ (procs[p].pc # "add" => procs[p].kind = "load")
        /\ p = Editor => procs[p].pc \in {"truncate", "write"} /\ procs[p].kind \in {"none", "edit"}
    BY <1>1, <1>2 DEF Roles
  <1>5. Idle \in Locals
    BY Constants DEF Idle, PCs, Kinds
  <1>6. CASE Update(p)
    <2> DEFINE new == [active EXCEPT !.sso = procs[p].data.sso]
               l == [procs[p] EXCEPT !.pc = "truncate", !.data = new]
    <2>1. procs[p].data \in Policies
      BY <1>1, <1>6 DEF LoadsParsed, Update
    <2>2. new \in Policies
      BY <1>1, <2>1 DEF TypeOK, Policies
    <2>3. l \in Locals /\ l.pc = "truncate" /\ l.kind = procs[p].kind
      BY <1>3, <2>2, Constants DEF PCs
    <2>4. procs' = [procs EXCEPT ![p] = l] /\ up' = up /\ scans' = scans
      BY <1>1, <1>6 DEF Update, TypeOK
    <2>5. p \in Admins
      BY <1>3, <1>4, <1>6 DEF Update, LoadPCs
    <2>6. OthersTyped'
      BY <1>1, <1>6, <2>2 DEF Update, TypeOK, OthersTyped
    <2> HIDE DEF l
    <2> QED
      BY <1>3, <2>3, <2>4, <2>5, <2>6, ShapeKept, Constants
  <1>7. CASE Truncate(p)
    <2> DEFINE l == [procs[p] EXCEPT !.pc = "write"]
    <2>1. l \in Locals /\ l.pc = "write" /\ l.kind = procs[p].kind
      BY <1>3 DEF PCs
    <2>2. procs' = [procs EXCEPT ![p] = l] /\ up' = up /\ scans' = scans
      BY <1>1, <1>7 DEF Truncate, Go, TypeOK
    <2>3. OthersTyped'
      BY <1>1, <1>7, Constants DEF Truncate, Notify, Watching, Serving, TypeOK, OthersTyped
    <2> HIDE DEF l
    <2> QED
      BY <1>3, <1>4, <1>7, <2>1, <2>2, <2>3, ShapeKept, Constants DEF LoadPCs, Truncate, Auditing
  <1>8. CASE Write(p)
    <2>1. PICK l \in Locals :
            /\ procs' = [procs EXCEPT ![p] = l]
            /\ \/ l.pc = "reread" /\ l.kind = "load" /\ procs[p].kind = "load"
               \/ l.pc = "snapshot" /\ procs[p].kind \in {"save", "profile", "sso"}
               \/ l.pc = "idle" /\ l.kind = "none" /\ procs[p].kind # "load"
      <3>1. CASE procs[p].kind = "load"
        <4>1. [procs[p] EXCEPT !.pc = "reread"] \in Locals
          BY <1>3 DEF PCs
        <4> QED
          BY <1>1, <1>3, <1>8, <3>1, <4>1 DEF Write, Go, TypeOK
      <3>2. CASE procs[p].kind \in {"save", "profile", "sso"}
        <4>1. [procs[p] EXCEPT !.pc = "snapshot"] \in Locals
          BY <1>3 DEF PCs
        <4> QED
          BY <1>1, <1>3, <1>8, <3>2, <4>1 DEF Write, Go, TypeOK
      <3>3. CASE procs[p].kind \notin {"load", "save", "profile", "sso"}
        BY <1>5, <1>8, <3>3 DEF Write, Done, Idle
      <3> QED
        BY <3>1, <3>2, <3>3
    <2>2. file' \in Contents
      BY <1>1, <1>3, <1>8, WrittenIsText DEF Write, TypeOK
    <2>3. OthersTyped' /\ up' = up /\ scans' = scans
      BY <1>1, <1>8, <2>2 DEF Write, Notify, Watching, Serving, TypeOK, OthersTyped
    <2> QED
      BY <1>3, <1>4, <1>8, <2>1, <2>3, ShapeKept, Constants DEF LoadPCs, Write, Auditing
  <1>9. CASE SaveSnapshot(p)
    <2>1. p \in Admins
      BY <1>3, <1>4, <1>9 DEF SaveSnapshot, LoadPCs
    <2>2. PICK l \in Locals : procs' = [procs EXCEPT ![p] = l] /\ l.pc \in {"read", "idle"}
      <3>1. [pc |-> "read", kind |-> "load", data |-> Empty] \in Locals
        BY Constants DEF PCs, Kinds
      <3> QED
        BY <1>5, <1>9, <3>1 DEF SaveSnapshot, Done, Idle
    <2>3. OthersTyped' /\ up' = up /\ scans' = scans
      BY <1>1, <1>9 DEF SaveSnapshot, TypeOK, OthersTyped
    <2> QED
      BY <1>3, <2>1, <2>2, <2>3, ShapeKept, Constants
  <1>10. CASE Read(p)
    <2>1. PICK l \in Locals : procs' = [procs EXCEPT ![p] = l]
                              /\ l.pc \in {"truncate", "parse"} /\ l.kind = "load"
      <3>1. /\ [pc |-> "truncate", kind |-> "load", data |-> DefaultPolicy] \in Locals
            /\ [pc |-> "parse", kind |-> "load", data |-> file] \in Locals
        BY <1>1, Constants DEF PCs, Kinds, TypeOK
      <3> QED
        BY <1>10, <3>1 DEF Read
    <2>2. OthersTyped' /\ up' = up /\ scans' = scans
      BY <1>1, <1>10 DEF Read, TypeOK, OthersTyped
    <2>3. active' = active /\ ~Auditing(p)
      BY <1>10 DEF Read, Auditing
    <2>4. l.pc \in LoadPCs \ {"lock", "swap", "update", "auditMCP", "auditSkills"}
      BY <2>1 DEF LoadPCs
    <2>5. procs[p].pc \in {"read", "reread"} /\ procs[p].pc \in LoadPCs
      BY <1>10 DEF Read, LoadPCs
    <2> QED
      BY <1>3, <1>4, <2>1, <2>2, <2>3, <2>4, <2>5, ShapeKept, Constants
  <1>11. CASE Decode(p)
    <2>1. CASE procs[p].data # Bad
      <3> DEFINE l == [procs[p] EXCEPT !.pc = "lock", !.data = Parse(procs[p].data)]
      <3>1. Parse(procs[p].data) \in Policies
        BY <1>3, <2>1, Parses
      <3>2. l \in Locals /\ l.pc = "lock" /\ l.kind = procs[p].kind /\ l.data \in Policies
        BY <1>3, <3>1, Constants DEF PCs
      <3>3. procs' = [procs EXCEPT ![p] = l] /\ up' = up /\ scans' = scans
        BY <1>1, <1>11, <2>1 DEF Decode, TypeOK
      <3>4. OthersTyped'
        BY <1>1, <1>11, <2>1 DEF Decode, TypeOK, OthersTyped
      <3>5. active' = active /\ procs[p].pc = "parse" /\ ~Auditing(p)
        BY <1>11, <2>1 DEF Decode, Auditing
      <3> HIDE DEF l
      <3> QED
        BY <1>3, <1>4, <3>2, <3>3, <3>4, <3>5, ShapeKept, Constants DEF LoadPCs
    <2>2. CASE procs[p].data = Bad /\ AlreadyLoaded
      <3>1. p = Watcher => up # "boot"
        BY <1>1, <1>11, <2>2, PolicyReloadAssumption DEF AlreadyLoaded, Phases, Auditing, Decode
      <3>2. OthersTyped'
        BY <1>1, <1>11, <2>2 DEF Decode, TypeOK, OthersTyped
      <3>3. /\ active' = active /\ procs[p].pc = "parse" /\ ~Auditing(p)
            /\ up' = up /\ scans' = scans /\ procs' = [procs EXCEPT ![p] = Idle]
        BY <1>11, <2>2 DEF Decode, Auditing, Done
      <3>4. Idle.pc = "idle" /\ Idle.kind = "none"
        BY DEF Idle
      <3> QED
        BY <1>3, <1>4, <1>5, <3>1, <3>2, <3>3, <3>4, ShapeKept, Constants DEF LoadPCs
    <2>3. CASE procs[p].data = Bad /\ ~AlreadyLoaded
      BY <1>1, <1>11, <2>3, DieShape DEF Decode, TypeOK
    <2> QED
      BY <2>1, <2>2, <2>3
  <1>12. CASE Lock(p)
    <2>1. PICK l \in Locals : /\ procs' = [procs EXCEPT ![p] = l]
                              /\ l.pc = (IF procs[p].kind = "sso" THEN "update" ELSE "swap")
                              /\ l.kind = procs[p].kind /\ l.data = procs[p].data
      <3>1. [procs[p] EXCEPT !.pc = IF procs[p].kind = "sso" THEN "update" ELSE "swap"] \in Locals
        BY <1>3 DEF PCs
      <3> QED
        BY <1>1, <1>3, <1>12, <3>1 DEF Lock, Go, TypeOK
    <2>2. OthersTyped' /\ up' = up /\ scans' = scans /\ active' = active
      BY <1>1, <1>12 DEF Lock, TypeOK, OthersTyped
    <2>3. procs[p].data \in Policies
      BY <1>1, <1>12 DEF LoadsParsed, Lock
    <2> QED
      BY <1>3, <1>4, <1>12, <2>1, <2>2, <2>3, ShapeKept, Constants DEF LoadPCs, Lock, Auditing
  <1>13. CASE Swap(p)
    <2> DEFINE l == [procs[p] EXCEPT !.pc = "auditMCP"]
    <2>1. l \in Locals /\ l.pc = "auditMCP" /\ l.kind = procs[p].kind /\ l.data = procs[p].data
      BY <1>3 DEF PCs
    <2>2. procs' = [procs EXCEPT ![p] = l] /\ up' = up /\ scans' = scans
      BY <1>1, <1>13 DEF Swap, Go, TypeOK
    <2>3. procs[p].data \in Policies
      BY <1>1, <1>13 DEF LoadsParsed, Swap
    <2>4. OthersTyped'
      BY <1>1, <1>13, <2>3 DEF Swap, TypeOK, OthersTyped
    <2> HIDE DEF l
    <2> QED
      BY <1>3, <1>4, <1>13, <2>1, <2>2, <2>3, <2>4, ShapeKept, Constants DEF LoadPCs, Swap
  <1>14. CASE AuditMCP(p)
    <2> DEFINE l == [procs[p] EXCEPT !.pc = "auditSkills"]
    <2>1. l \in Locals /\ l.pc = "auditSkills" /\ l.kind = procs[p].kind /\ l.data = procs[p].data
      BY <1>3 DEF PCs
    <2>2. procs' = [procs EXCEPT ![p] = l] /\ up' = up /\ scans' = scans
      BY <1>1, <1>14 DEF AuditMCP, Go, TypeOK
    <2>3. procs[p].data \in Policies
      BY <1>1, <1>14 DEF LoadsParsed, AuditMCP
    <2>4. OthersTyped'
      BY <1>1, <1>14, <2>3 DEF AuditMCP, TypeOK, OthersTyped, Policies
    <2> HIDE DEF l
    <2> QED
      BY <1>3, <1>4, <1>14, <2>1, <2>2, <2>3, <2>4, ShapeKept, Constants DEF LoadPCs, AuditMCP
  <1>15. CASE AuditSkills(p)
    <2>1. PICK l \in Locals : procs' = [procs EXCEPT ![p] = l] /\ l.kind = "none"
                              /\ l.pc = (IF up = "boot" THEN "add" ELSE "idle")
      <3>1. [Idle EXCEPT !.pc = "add"] \in Locals
        BY <1>5 DEF PCs
      <3> QED
        BY <1>5, <1>15, <3>1 DEF AuditSkills, Done, Idle
    <2>2. procs[p].data \in Policies
      BY <1>1, <1>15 DEF LoadsParsed, AuditSkills
    <2>3. p # Editor /\ up' = "up" /\ scans' = scans
      BY <1>4, <1>15 DEF AuditSkills
    <2>4. /\ procs' \in [Procs -> Locals] /\ LoadsParsed' /\ Roles'
      BY <2>1, <2>3, OneMoves DEF LoadPCs
    <2>5. TypeOK'
      BY <1>1, <1>15, <2>2, <2>4 DEF AuditSkills, TypeOK, Policies
    <2>6. Phases'
      BY <2>3 DEF Phases
    <2> QED
      BY <2>4, <2>5, <2>6 DEF Shape
  <1> QED
    BY <1>6, <1>7, <1>8, <1>9, <1>10, <1>11, <1>12, <1>13, <1>14, <1>15 DEF Proceed

(* The shape is inductive.                                                  *)
LEMMA ShapeStep == Shape /\ [Next]_vars => Shape'
  <1> SUFFICES ASSUME Shape, [Next]_vars PROVE Shape'
    OBVIOUS
  <1>1. /\ TypeOK /\ LoadsParsed /\ Roles /\ Phases
    BY DEF Shape
  <1>2. CASE Crash
    BY <1>1, <1>2, DieShape, PolicyReloadAssumption DEF Crash, TypeOK
  <1>3. CASE Restart
    <2> DEFINE l == [pc |-> "read", kind |-> "load", data |-> Empty]
    <2>1. l \in [pc : PCs, kind : Kinds, data : Contents]
      BY Constants DEF PCs, Kinds
    <2>2. procs' = [procs EXCEPT ![Watcher] = l] /\ l.pc = "read" /\ l.kind = "load"
      BY <1>3 DEF Restart
    <2> HIDE DEF l
    <2>3. /\ procs' \in [Procs -> [pc : PCs, kind : Kinds, data : Contents]]
          /\ LoadsParsed' /\ Roles'
      BY <2>1, <2>2, OneMoves, Constants DEF LoadPCs
    <2>4. [mcp |-> Zero, skills |-> Zero] \in [mcp : RuleSets, skills : RuleSets]
      BY PolicyReloadAssumption
    <2>5. TypeOK'
      BY <1>1, <1>3, <2>3, <2>4, Constants DEF Restart, TypeOK
    <2>6. Phases'
      BY <1>1, <1>3, <2>2, Constants DEF Restart, Phases, TypeOK, LoadPCs, ZeroPolicy
    <2> QED
      BY <2>3, <2>5, <2>6 DEF Shape
  <1>4. CASE Edit \/ \E a \in Admins : Handle(a)
    BY <1>4, HandleShape
  <1>5. CASE AddWatch
    <2>1. Idle \in [pc : PCs, kind : Kinds, data : Contents] /\ Idle.pc = "idle"
      BY Constants DEF Idle, PCs, Kinds
    <2>2. OthersTyped' /\ up' = up /\ scans' = scans /\ procs' = [procs EXCEPT ![Watcher] = Idle]
      BY <1>1, <1>5 DEF AddWatch, Done, TypeOK, OthersTyped
    <2>3. up = "up"
      BY <1>1, <1>5 DEF AddWatch, TypeOK, Phases, LoadPCs
    <2> QED
      BY <2>1, <2>2, <2>3, ShapeKept, Constants DEF LoadPCs
  <1>6. CASE Watch
    <2> DEFINE l == [pc |-> "read", kind |-> "load", data |-> Empty]
    <2>1. l \in [pc : PCs, kind : Kinds, data : Contents] /\ l.pc = "read" /\ l.kind = "load"
      BY Constants DEF PCs, Kinds
    <2>2. OthersTyped' /\ up' = up /\ scans' = scans /\ procs' = [procs EXCEPT ![Watcher] = l]
      BY <1>1, <1>6, PolicyReloadAssumption DEF Watch, TypeOK, OthersTyped
    <2>3. up = "up"
      BY <1>6 DEF Watch, Watching, Serving
    <2> HIDE DEF l
    <2> QED
      BY <2>1, <2>2, <2>3, ShapeKept, Constants DEF LoadPCs
  <1>7. ASSUME NEW p \in Procs, Proceed(p) PROVE Shape'
    BY <1>7, ProceedShape
  <1>8. ASSUME NEW p \in Procs, WriteFails(p) PROVE Shape'
    <2>1. CASE procs[p].kind = "load"
      BY <1>1, <1>8, <2>1, DieShape DEF WriteFails, TypeOK
    <2>2. CASE procs[p].kind # "load"
      <3>1. Idle \in [pc : PCs, kind : Kinds, data : Contents] /\ Idle.pc = "idle" /\ Idle.kind = "none"
        BY Constants DEF Idle, PCs, Kinds
      <3>2. /\ OthersTyped' /\ up' = up /\ scans' = scans /\ procs' = [procs EXCEPT ![p] = Idle]
            /\ active' = active /\ ~Auditing(p)
        BY <1>1, <1>8, <2>2 DEF WriteFails, Done, TypeOK, OthersTyped, Auditing
      <3>3. p # Watcher /\ (p \in Admins => up = "up")
        BY <1>1, <1>8, <2>2, WhoMoves DEF WriteFails, Roles, LoadPCs
      <3> QED
        BY <3>1, <3>2, <3>3, ShapeKept, Constants
    <2> QED
      BY <2>1, <2>2
  <1>9. ASSUME NEW s \in Scanners, Receive(s) \/ Scan(s) PROVE Shape'
    <2>1. up = "up"
      BY <1>1, <1>9 DEF Receive, Serving, Scan, BeginScan, Nest, CheckTool, EndScan, ScanStep,
         Phases, TypeOK
    <2>2. PICK to \in {"idle", "waiting", "scanning", "nested", "checked"} :
            scans' = [scans EXCEPT ![s] = to]
      BY <1>9 DEF Receive, Scan, BeginScan, Nest, CheckTool, EndScan, ScanStep
    <2>3. UNCHANGED <<file, pending, active, quarantine, snapshots, writer, procs, up, behind,
                      crossed, writes, crashes>>
      BY <1>9 DEF Receive, Scan, BeginScan, Nest, CheckTool, EndScan, ScanStep
    <2>4. TypeOK'
      BY <1>1, <2>2, <2>3 DEF TypeOK
    <2>5. LoadsParsed' /\ Roles' /\ Phases'
      BY <1>1, <2>1, <2>3 DEF LoadsParsed, Roles, Phases
    <2> QED
      BY <2>4, <2>5 DEF Shape
  <1>10. CASE UNCHANGED vars
    BY <1>1, <1>10 DEF vars, Shape, TypeOK, LoadsParsed, Roles, Phases, Auditing
  <1> QED
    BY <1>2, <1>3, <1>4, <1>5, <1>6, <1>7, <1>8, <1>9, <1>10 DEF Next

(* Every variable has its type.                                             *)
THEOREM TypeInvariant == Spec => []TypeOK
  <1>1. Shape => TypeOK
    BY DEF Shape
  <1> QED
    BY <1>1, InitShape, ShapeStep, PTL DEF Spec

-----------------------------------------------------------------------------
(* Consequences of the shape.                                               *)

(* A file that is not YAML ends a serving process only when the policy in   *)
(* force has no secret pattern (main.go:1586-1598).                         *)
THEOREM BareDeaths == Spec => DiesOnlyIfBare
  <1> DEFINE A == Serving /\ up' = "down" /\ crashes' = crashes =>
                   \/ active.rules \in Bare
                   \/ \E p \in Procs : procs[p].pc = "truncate" /\ procs[p].kind = "load"
  <1>1. Shape /\ [Next]_vars => [A]_vars
    <2> SUFFICES ASSUME Shape, Next, Serving, up' = "down", crashes' = crashes PROVE A
      OBVIOUS
    <2>1. crashes' # crashes + 1
      BY PolicyReloadAssumption DEF Shape, TypeOK
    <2>2. ~Crash
      BY <2>1 DEF Crash
    <2>3. up' # up
      BY DEF Serving
    <2>4. ~Edit /\ ~AddWatch /\ ~Watch /\ ~\E a \in Admins : Handle(a)
      BY <2>3 DEF Edit, AddWatch, Watch, Handle, SavePolicy, SaveSSO, RestoreSnapshot,
         SwitchProfile, Begin
    <2>5. ~\E s \in Scanners : Receive(s) \/ Scan(s)
      BY <2>3 DEF Receive, Scan, BeginScan, Nest, CheckTool, EndScan, ScanStep
    <2>6. ~Restart
      BY DEF Restart, Serving
    <2>7. PICK p \in Procs : Proceed(p) \/ WriteFails(p)
      BY <2>2, <2>4, <2>5, <2>6 DEF Next
    <2>8. CASE WriteFails(p)
      BY <2>3, <2>8 DEF WriteFails
    <2>9. CASE Proceed(p)
      <3>1. Decode(p)
        BY <2>3, <2>9 DEF Proceed, Update, Truncate, Write, SaveSnapshot, Read, Lock, Swap,
           AuditMCP, AuditSkills, Serving
      <3>2. ~AlreadyLoaded
        BY <2>3, <3>1 DEF Decode
      <3> QED
        BY <3>2 DEF AlreadyLoaded
    <2> QED
      BY <2>7, <2>8, <2>9
  <1> QED
    BY <1>1, InitShape, ShapeStep, PTL DEF Spec, DiesOnlyIfBare

(* A scan sees one policy from its first to its last check.                 *)
THEOREM ScansAreConsistent == Spec => OnePolicyPerScan
  <1> DEFINE A == Readers # {} /\ up' # "down" => active' = active
  <1>1. Shape /\ [Next]_vars => [A]_vars
    <2> SUFFICES ASSUME Shape, Next, active' # active PROVE Readers = {}
      OBVIOUS
    <2>1. ~Crash /\ ~Edit /\ ~AddWatch /\ ~Watch /\ ~\E a \in Admins : Handle(a)
      BY DEF Crash, Die, Edit, AddWatch, Watch, Handle, SavePolicy, SaveSSO, RestoreSnapshot,
         SwitchProfile, Begin
    <2>2. ~\E s \in Scanners : Receive(s) \/ Scan(s)
      BY DEF Receive, Scan, BeginScan, Nest, CheckTool, EndScan, ScanStep
    <2>3. CASE Restart
      BY <2>3 DEF Restart, Shape, Phases, Readers
    <2>4. ASSUME NEW p \in Procs, Proceed(p) \/ WriteFails(p) PROVE Readers = {}
      <3>1. Update(p) \/ Swap(p)
        BY <2>4 DEF WriteFails, Die, Proceed, Truncate, Write, SaveSnapshot, Read, Decode, Lock,
           AuditMCP, AuditSkills
      <3> QED
        BY <3>1 DEF Update, Swap
    <2> QED
      BY <2>1, <2>2, <2>3, <2>4 DEF Next
  <1> QED
    BY <1>1, InitShape, ShapeStep, PTL DEF Spec, OnePolicyPerScan

-----------------------------------------------------------------------------
(* The policy in force and the file.                                        *)

LEMMA InitFollow == Init => Follow
  BY Constants DEF Init, Follow, WatcherFollows, SomeoneWill, UpdatesAreSSO, Watching, Serving,
     Idle

(* A step that only moves a handler or the editor.                          *)
LEMMA OtherMoves ==
  ASSUME Shape, Follow, NEW p \in Procs \ {Watcher}, NEW l,
         procs' = [procs EXCEPT ![p] = l],
         l.pc = "update" => l.kind = "sso" /\ p \in Admins,
         procs[p].pc # "truncate",
         UNCHANGED <<file, pending, active, behind, up>>
  PROVE  Follow'
  <1>1. procs'[p] = l /\ \A q \in Procs \ {p} : procs'[q] = procs[q]
    BY DEF Shape, TypeOK
  <1>2. procs'[Watcher] = procs[Watcher]
    BY <1>1, Constants
  <1>3. WatcherFollows'
    BY <1>2 DEF Follow, WatcherFollows, Watching, Serving, Parse
  <1>4. SomeoneWill'
    BY <1>1, <1>2, Constants DEF Follow, SomeoneWill, Serving, Parse
  <1>5. UpdatesAreSSO'
    BY <1>1 DEF Follow, UpdatesAreSSO
  <1> QED
    BY <1>3, <1>4, <1>5 DEF Follow

(* A step that only moves the watcher, with what it must have by then.      *)
LEMMA WatcherMoves ==
  ASSUME Shape, Follow, NEW l,
         procs' = [procs EXCEPT ![Watcher] = l],
         l.pc # "update",
         UNCHANGED <<file, active>>,
         Watching' /\ pending' = 0 =>
           /\ l.pc = "parse" => l.data = file
           /\ l.pc \in {"lock", "swap"} => l.data = Parse(file) /\ file # Bad,
         Serving' /\ pending' = 0 /\ ~behind' /\ file # Bad =>
            \/ active = Parse(file)
            \/ l.pc \in (LoadPCs \ {"auditMCP", "auditSkills"}) \cup {"add"}
            \/ \E a \in Admins : procs[a].pc = "truncate" /\ procs[a].kind = "sso"
  PROVE  Follow'
  <1>1. procs'[Watcher] = l /\ \A q \in Procs \ {Watcher} : procs'[q] = procs[q]
    BY Constants DEF Shape, TypeOK
  <1>2. WatcherFollows'
    <2> SUFFICES ASSUME Watching', pending' = 0
                 PROVE  /\ l.pc = "parse" => l.data = file
                        /\ l.pc \in {"lock", "swap"} => l.data = Parse(file) /\ file # Bad
      BY <1>1 DEF WatcherFollows, Parse
    <2> QED
      OBVIOUS
  <1>3. \A a \in Admins : procs'[a] = procs[a]
    BY <1>1, Constants
  <1>4. SomeoneWill'
    BY <1>1, <1>3 DEF SomeoneWill, Serving, Parse
  <1>5. UpdatesAreSSO'
    BY <1>1 DEF Follow, UpdatesAreSSO
  <1> QED
    BY <1>2, <1>4, <1>5 DEF Follow

(* A write is seen: the event is set, or the watch is still to be added.    *)
LEMMA WritesAreSeen ==
  ASSUME Shape, Follow, NEW p \in Procs, Truncate(p) \/ Write(p)
  PROVE  Follow'
  <1>1. PICK l : procs' = [procs EXCEPT ![p] = l] /\ l.pc \notin {"update", "add"}
    <2>1. CASE Truncate(p)
      <3> WITNESS [procs[p] EXCEPT !.pc = "write"]
      <3>1. procs[p] \in [pc : PCs, kind : Kinds, data : Contents]
        BY DEF Shape, TypeOK
      <3> QED
        BY <2>1, <3>1 DEF Truncate, Go, Shape, TypeOK
    <2>2. CASE Write(p)
      <3>1. procs[p] \in [pc : PCs, kind : Kinds, data : Contents]
        BY DEF Shape, TypeOK
      <3>2. PICK m : m \in {[procs[p] EXCEPT !.pc = "reread"],
                           [procs[p] EXCEPT !.pc = "snapshot"], Idle}
                     /\ procs' = [procs EXCEPT ![p] = m]
        BY <2>2, <3>1 DEF Write, Go, Done, Shape, TypeOK
      <3>3. m.pc \in {"reread", "snapshot", "idle"}
        BY <3>1, <3>2 DEF Idle
      <3> QED
        BY <3>2, <3>3
    <2> QED
      BY <2>1, <2>2
  <1>2. procs'[p] = l /\ \A q \in Procs \ {p} : procs'[q] = procs[q]
    BY <1>1 DEF Shape, TypeOK
  <1>3. /\ (Watching => pending' \in 1 .. MaxPending) /\ up' = up
        /\ procs[p].pc \in {"truncate", "write"}
    BY DEF Truncate, Write, Notify
  <1>4. Serving' /\ pending' = 0 => procs[Watcher].pc = "add"
    BY <1>3 DEF Serving, Watching
  <1>5. Serving' /\ pending' = 0 => procs'[Watcher].pc = "add"
    BY <1>2, <1>3, <1>4, Constants
  <1>6. WatcherFollows'
    BY <1>5 DEF WatcherFollows, Watching, Serving
  <1>7. SomeoneWill'
    BY <1>5 DEF SomeoneWill, Serving
  <1>8. UpdatesAreSSO'
    BY <1>1, <1>2 DEF Follow, UpdatesAreSSO
  <1> QED
    BY <1>6, <1>7, <1>8 DEF Follow

(* When the process has ended nothing is claimed but of the editor.         *)
LEMMA DeadFollow ==
  ASSUME Shape, Follow, Die
  PROVE  Follow'
  <1>1. \A p \in Procs : procs'[p].pc # "update"
    BY Constants DEF Die, Idle, Shape, Roles
  <1> QED
    BY <1>1 DEF Die, Follow, WatcherFollows, SomeoneWill, UpdatesAreSSO, Watching, Serving

LEMMA ProceedFollow ==
  ASSUME Shape, Follow, NEW p \in Procs, Proceed(p)
  PROVE  Follow'
  <1> DEFINE Locals == [pc : PCs, kind : Kinds, data : Contents]
  <1>1. /\ TypeOK /\ LoadsParsed /\ Roles /\ Phases
        /\ WatcherFollows /\ SomeoneWill /\ UpdatesAreSSO
    BY DEF Shape, Follow
  <1>2. procs[p] \in Locals
    BY <1>1 DEF TypeOK
  <1>3. procs[Watcher].pc \in LoadPCs => procs[Watcher].kind = "load" /\ (Watching <=> Serving)
    BY <1>1 DEF Roles, Watching, LoadPCs
  <1>4. CASE Truncate(p) \/ Write(p)
    BY <1>4, WritesAreSeen
  <1>5. CASE Update(p)
    <2> DEFINE new == [active EXCEPT !.sso = procs[p].data.sso]
               l == [procs[p] EXCEPT !.pc = "truncate", !.data = new]
    <2>1. p \in Admins /\ procs[p].kind = "sso"
      BY <1>1, <1>5 DEF UpdatesAreSSO, Update
    <2>2. l.pc = "truncate" /\ l.kind = "sso"
      BY <1>2, <2>1
    <2>3. procs' = [procs EXCEPT ![p] = l]
      BY <1>1, <1>5 DEF Update, TypeOK
    <2> HIDE DEF l
    <2>4. procs'[p] = l /\ \A q \in Procs \ {p} : procs'[q] = procs[q]
      BY <1>1, <2>3 DEF TypeOK
    <2>5. procs'[Watcher] = procs[Watcher] /\ UNCHANGED <<file, pending, up>>
      BY <1>5, <2>1, <2>4, Constants DEF Update
    <2>6. WatcherFollows'
      BY <1>1, <2>5 DEF WatcherFollows, Watching, Serving, Parse
    <2>7. \E a \in Admins : procs'[a].pc = "truncate" /\ procs'[a].kind = "sso"
      BY <2>1, <2>2, <2>4
    <2>8. SomeoneWill'
      BY <2>7 DEF SomeoneWill
    <2>9. UpdatesAreSSO'
      BY <1>1, <2>2, <2>4 DEF UpdatesAreSSO
    <2> QED
      BY <2>6, <2>8, <2>9 DEF Follow
  <1>6. CASE SaveSnapshot(p)
    <2>1. PICK l : procs' = [procs EXCEPT ![p] = l] /\ l.pc \in {"read", "idle"}
      <3>1. PICK m : m \in {[pc |-> "read", kind |-> "load", data |-> Empty], Idle}
                     /\ procs' = [procs EXCEPT ![p] = m]
        BY <1>6 DEF SaveSnapshot, Done
      <3>2. m.pc \in {"read", "idle"}
        BY <3>1 DEF Idle
      <3> QED
        BY <3>1, <3>2
    <2>2. p \in Procs \ {Watcher}
      BY <1>1, <1>6 DEF SaveSnapshot, Roles, LoadPCs
    <2>3. procs[p].pc # "truncate" /\ UNCHANGED <<file, pending, active, behind, up>>
      BY <1>6 DEF SaveSnapshot
    <2> QED
      BY <2>1, <2>2, <2>3, OtherMoves
  <1>7. CASE Read(p)
    <2>1. PICK l : /\ procs' = [procs EXCEPT ![p] = l]
                   /\ l.pc = "truncate" \/ (l.pc = "parse" /\ l.data = file)
      <3>1. PICK m : /\ m \in {[pc |-> "truncate", kind |-> "load", data |-> DefaultPolicy],
                               [pc |-> "parse", kind |-> "load", data |-> file]}
                     /\ procs' = [procs EXCEPT ![p] = m]
        BY <1>7 DEF Read
      <3>2. m.pc = "truncate" \/ (m.pc = "parse" /\ m.data = file)
        BY <3>1
      <3> QED
        BY <3>1, <3>2
    <2>2. procs[p].pc # "truncate" /\ UNCHANGED <<file, pending, active, behind, up>>
      BY <1>7 DEF Read
    <2>3. CASE p = Watcher
      BY <2>1, <2>2, <2>3, WatcherMoves DEF LoadPCs
    <2>4. CASE p # Watcher
      BY <2>1, <2>2, <2>4, OtherMoves
    <2> QED
      BY <2>3, <2>4
  <1>8. CASE Decode(p)
    <2>1. CASE procs[p].data # Bad
      <3> DEFINE l == [procs[p] EXCEPT !.pc = "lock", !.data = Parse(procs[p].data)]
      <3>1. l.pc = "lock" /\ l.data = Parse(procs[p].data)
        BY <1>2
      <3>2. procs' = [procs EXCEPT ![p] = l] /\ UNCHANGED <<file, pending, active, behind, up>>
        BY <1>1, <1>8, <2>1 DEF Decode, TypeOK
      <3>3. procs[p].pc = "parse"
        BY <1>8 DEF Decode
      <3> HIDE DEF l
      <3>4. CASE p = Watcher
        <4>1. Watching' /\ pending' = 0 => l.data = Parse(file) /\ file # Bad
          <5>1. procs'[Watcher] = l
            BY <1>1, <3>2, <3>4, Constants DEF TypeOK
          <5>2. Watching' => Watching
            BY <3>2, <3>3, <3>4 DEF Watching, Serving
          <5> QED
            BY <1>1, <2>1, <3>1, <3>2, <3>3, <3>4, <5>2 DEF WatcherFollows
        <4> QED
          BY <3>1, <3>2, <3>4, <4>1, WatcherMoves DEF LoadPCs
      <3>5. CASE p # Watcher
        BY <3>1, <3>2, <3>3, <3>5, OtherMoves
      <3> QED
        BY <3>4, <3>5
    <2>2. CASE procs[p].data = Bad /\ AlreadyLoaded
      <3>1. /\ procs' = [procs EXCEPT ![p] = Idle] /\ Idle.pc = "idle"
            /\ UNCHANGED <<file, pending, active, behind, up>> /\ procs[p].pc = "parse"
        BY <1>8, <2>2 DEF Decode, Done, Idle
      <3>2. CASE p = Watcher
        <4>1. Serving' /\ pending' = 0 => file = Bad
          BY <1>1, <1>3, <2>2, <3>1, <3>2 DEF WatcherFollows, Serving, LoadPCs
        <4> QED
          BY <3>1, <3>2, <4>1, WatcherMoves DEF LoadPCs
      <3>3. CASE p # Watcher
        BY <3>1, <3>3, OtherMoves
      <3> QED
        BY <3>2, <3>3
    <2>3. CASE procs[p].data = Bad /\ ~AlreadyLoaded
      BY <1>8, <2>3, DeadFollow DEF Decode
    <2> QED
      BY <2>1, <2>2, <2>3
  <1>9. CASE Lock(p)
    <2> DEFINE l == [procs[p] EXCEPT !.pc = IF procs[p].kind = "sso" THEN "update" ELSE "swap"]
    <2>1. l.pc = (IF procs[p].kind = "sso" THEN "update" ELSE "swap")
          /\ l.kind = procs[p].kind /\ l.data = procs[p].data
      BY <1>2
    <2>2. procs' = [procs EXCEPT ![p] = l] /\ UNCHANGED <<file, pending, active, behind, up>>
      BY <1>1, <1>9 DEF Lock, Go, TypeOK
    <2>3. procs[p].pc = "lock"
      BY <1>9 DEF Lock
    <2> HIDE DEF l
    <2>4. CASE p = Watcher
      <3>1. l.pc = "swap" /\ l.data = procs[Watcher].data
        BY <1>3, <2>1, <2>3, <2>4 DEF LoadPCs
      <3>2. Watching' => Watching
        BY <2>2, <2>3, <2>4 DEF Watching, Serving
      <3>3. Watching' /\ pending' = 0 => l.data = Parse(file) /\ file # Bad
        BY <1>1, <2>2, <2>3, <2>4, <3>1, <3>2 DEF WatcherFollows
      <3> QED
        BY <2>2, <2>4, <3>1, <3>3, WatcherMoves DEF LoadPCs
    <2>5. CASE p # Watcher
      <3>1. l.pc = "update" => p \in Admins /\ l.kind = "sso"
        BY <1>1, <2>1, <2>3, <2>5 DEF Roles, Procs
      <3> QED
        BY <2>2, <2>3, <2>5, <3>1, OtherMoves
    <2> QED
      BY <2>4, <2>5
  <1>10. CASE Swap(p)
    <2> DEFINE l == [procs[p] EXCEPT !.pc = "auditMCP"]
    <2>1. l.pc = "auditMCP"
      BY <1>2
    <2>2. procs' = [procs EXCEPT ![p] = l] /\ UNCHANGED <<file, pending, up>>
      BY <1>1, <1>10 DEF Swap, Go, TypeOK
    <2> HIDE DEF l
    <2>3. procs'[p] = l /\ \A q \in Procs \ {p} : procs'[q] = procs[q]
      BY <1>1, <2>2 DEF TypeOK
    <2>4. WatcherFollows'
      <3>1. CASE p = Watcher
        BY <2>1, <2>3, <3>1 DEF WatcherFollows
      <3>2. CASE p # Watcher
        <4>1. procs'[Watcher] = procs[Watcher]
          BY <2>3, <3>2, Constants
        <4> QED
          BY <1>1, <2>2, <4>1 DEF WatcherFollows, Watching, Serving, Parse
      <3> QED
        BY <3>1, <3>2
    <2>5. SomeoneWill'
      <3>1. active' = procs[p].data /\ behind' = (p # Watcher /\ active' # Parse(file))
        BY <1>10 DEF Swap
      <3>2. CASE p = Watcher
        <4>1. Serving /\ pending = 0 => procs[p].data = Parse(file)
          BY <1>1, <1>3, <1>10, <3>2 DEF Swap, WatcherFollows, LoadPCs
        <4> QED
          BY <2>2, <3>1, <4>1 DEF SomeoneWill, Serving, Parse
      <3>3. CASE p # Watcher
        BY <2>2, <3>1, <3>3 DEF SomeoneWill, Parse
      <3> QED
        BY <3>2, <3>3
    <2>6. UpdatesAreSSO'
      BY <1>1, <2>1, <2>3 DEF UpdatesAreSSO
    <2> QED
      BY <2>4, <2>5, <2>6 DEF Follow
  <1>11. CASE AuditMCP(p)
    <2> DEFINE l == [procs[p] EXCEPT !.pc = "auditSkills"]
    <2>1. l.pc = "auditSkills"
      BY <1>2
    <2>2. /\ procs' = [procs EXCEPT ![p] = l] /\ UNCHANGED <<file, pending, active, behind, up>>
          /\ procs[p].pc = "auditMCP"
      BY <1>1, <1>11 DEF AuditMCP, Go, TypeOK
    <2> HIDE DEF l
    <2>3. CASE p = Watcher
      BY <1>1, <2>1, <2>2, <2>3, WatcherMoves DEF SomeoneWill, Serving, LoadPCs
    <2>4. CASE p # Watcher
      BY <2>1, <2>2, <2>4, OtherMoves
    <2> QED
      BY <2>3, <2>4
  <1>12. CASE AuditSkills(p)
    <2>1. /\ UNCHANGED <<file, pending, active, behind>> /\ procs[p].pc = "auditSkills"
          /\ up' = "up"
      BY <1>12 DEF AuditSkills
    <2>2. CASE up = "boot"
      <3>1. p = Watcher
        BY <1>1, <2>1, <2>2 DEF Roles, Phases, Procs
      <3> DEFINE l == [Idle EXCEPT !.pc = "add"]
      <3>2. l.pc = "add"
        BY DEF Idle
      <3>3. procs' = [procs EXCEPT ![Watcher] = l]
        BY <1>12, <2>2, <3>1 DEF AuditSkills
      <3> HIDE DEF l
      <3> QED
        BY <2>1, <3>2, <3>3, WatcherMoves
    <2>3. CASE up # "boot"
      <3>1. procs' = [procs EXCEPT ![p] = Idle] /\ Idle.pc = "idle"
        BY <1>12, <2>3 DEF AuditSkills, Done, Idle
      <3>2. up = "up"
        BY <1>1, <2>1, <2>3 DEF TypeOK, Roles, Phases, Procs
      <3>3. CASE p = Watcher
        BY <1>1, <2>1, <3>1, <3>2, <3>3, WatcherMoves DEF SomeoneWill, Serving, LoadPCs
      <3>4. CASE p # Watcher
        BY <2>1, <3>1, <3>2, <3>4, OtherMoves
      <3> QED
        BY <3>3, <3>4
    <2> QED
      BY <2>2, <2>3
  <1> QED
    BY <1>4, <1>5, <1>6, <1>7, <1>8, <1>9, <1>10, <1>11, <1>12 DEF Proceed

LEMMA FollowStep == Shape /\ Follow /\ [Next]_vars => Follow'
  <1> SUFFICES ASSUME Shape, Follow, [Next]_vars PROVE Follow'
    OBVIOUS
  <1>1. /\ TypeOK /\ LoadsParsed /\ Roles /\ Phases
        /\ WatcherFollows /\ SomeoneWill /\ UpdatesAreSSO
    BY DEF Shape, Follow
  <1>2. CASE Crash
    BY <1>2, DeadFollow DEF Crash
  <1>3. CASE Restart
    <2> DEFINE l == [pc |-> "read", kind |-> "load", data |-> Empty]
    <2>1. /\ procs' = [procs EXCEPT ![Watcher] = l] /\ up' = "boot" /\ l.pc = "read"
      BY <1>3 DEF Restart
    <2> HIDE DEF l
    <2>2. procs'[Watcher] = l /\ \A q \in Procs \ {Watcher} : procs'[q] = procs[q]
      BY <1>1, <2>1, Constants DEF TypeOK
    <2>3. UpdatesAreSSO'
      BY <1>1, <2>1, <2>2 DEF UpdatesAreSSO
    <2> QED
      BY <2>1, <2>3 DEF Follow, WatcherFollows, SomeoneWill, Watching, Serving
  <1>4. CASE Edit \/ \E a \in Admins : Handle(a)
    <2>1. PICK p \in Procs \ {Watcher}, k \in Kinds, c \in Contents :
             Begin(p, k, c) /\ (k = "sso" => p \in Admins)
      <3>1. CASE Edit
        BY <3>1, Constants DEF Edit, Kinds
      <3>2. ASSUME NEW a \in Admins, Handle(a)
            PROVE  \E k \in Kinds, c \in Contents : Begin(a, k, c)
        <4>1. CASE SavePolicy(a)
          BY <4>1, Constants DEF SavePolicy, Kinds
        <4>2. CASE SaveSSO(a)
          <5>1. PICK x \in SSOs : Begin(a, "sso", [rules |-> Zero, sso |-> x])
            BY <4>2 DEF SaveSSO
          <5>2. [rules |-> Zero, sso |-> x] \in Contents
            BY PolicyReloadAssumption DEF Policies, Contents
          <5> QED
            BY <5>1, <5>2 DEF Kinds
        <4>3. CASE RestoreSnapshot(a)
          BY <1>1, <4>3 DEF RestoreSnapshot, TypeOK, Kinds
        <4>4. CASE SwitchProfile(a)
          <5>1. PICK r \in RuleSets : Begin(a, "profile", [rules |-> r, sso |-> active.sso])
            BY <4>4 DEF SwitchProfile
          <5>2. [rules |-> r, sso |-> active.sso] \in Contents
            BY <1>1 DEF TypeOK, Policies, Contents
          <5> QED
            BY <5>1, <5>2 DEF Kinds
        <4> QED
          BY <3>2, <4>1, <4>2, <4>3, <4>4 DEF Handle
      <3> QED
        BY <1>4, <3>1, <3>2, Constants
    <2> DEFINE l == [pc |-> IF k = "sso" THEN "lock" ELSE "truncate", kind |-> k, data |-> c]
    <2>2. /\ procs' = [procs EXCEPT ![p] = l] /\ UNCHANGED <<file, pending, active, behind, up>>
          /\ procs[p].pc = "idle" /\ l.pc # "update"
      BY <2>1 DEF Begin
    <2> HIDE DEF l
    <2> QED
      BY <2>2, OtherMoves
  <1>5. CASE AddWatch
    <2>1. /\ procs' = [procs EXCEPT ![Watcher] = Idle] /\ Idle.pc = "idle"
          /\ UNCHANGED <<file, active>> /\ behind' = (active # Parse(file))
      BY <1>5 DEF AddWatch, Done, Idle
    <2> QED
      BY <2>1, WatcherMoves
  <1>6. CASE Watch
    <2> DEFINE l == [pc |-> "read", kind |-> "load", data |-> Empty]
    <2>1. procs' = [procs EXCEPT ![Watcher] = l] /\ UNCHANGED <<file, active>> /\ l.pc = "read"
      BY <1>6 DEF Watch
    <2> HIDE DEF l
    <2> QED
      BY <2>1, WatcherMoves DEF LoadPCs
  <1>7. ASSUME NEW p \in Procs, Proceed(p) PROVE Follow'
    BY <1>7, ProceedFollow
  <1>8. ASSUME NEW p \in Procs, WriteFails(p) PROVE Follow'
    <2>1. CASE procs[p].kind = "load"
      BY <1>8, <2>1, DeadFollow DEF WriteFails
    <2>2. CASE procs[p].kind # "load"
      <3>1. /\ procs' = [procs EXCEPT ![p] = Idle] /\ Idle.pc = "idle"
            /\ UNCHANGED <<file, pending, active, up>> /\ procs[p].pc = "truncate"
            /\ behind' = (behind \/ procs[p].kind = "sso")
        BY <1>8, <2>2 DEF WriteFails, Done, Idle
      <3>2. procs'[p] = Idle /\ \A q \in Procs \ {p} : procs'[q] = procs[q]
        BY <1>1, <3>1 DEF TypeOK
      <3>3. procs'[Watcher] = procs[Watcher]
        BY <1>1, <2>2, <3>1, <3>2, Constants DEF Roles, LoadPCs
      <3>4. WatcherFollows'
        BY <1>1, <3>1, <3>3 DEF WatcherFollows, Watching, Serving, Parse
      <3>5. SomeoneWill'
        <4>1. CASE procs[p].kind = "sso"
          BY <3>1, <4>1 DEF SomeoneWill
        <4>2. CASE procs[p].kind # "sso"
          BY <1>1, <3>1, <3>2, <3>3, <4>2, Constants DEF SomeoneWill, Serving, Parse
        <4> QED
          BY <4>1, <4>2
      <3>6. UpdatesAreSSO'
        BY <1>1, <3>1, <3>2 DEF UpdatesAreSSO
      <3> QED
        BY <3>4, <3>5, <3>6 DEF Follow
    <2> QED
      BY <2>1, <2>2
  <1>9. ASSUME NEW s \in Scanners, Receive(s) \/ Scan(s) PROVE Follow'
    <2>1. UNCHANGED <<file, pending, active, procs, up, behind>>
      BY <1>9 DEF Receive, Scan, BeginScan, Nest, CheckTool, EndScan, ScanStep
    <2> QED
      BY <1>1, <2>1 DEF Follow, WatcherFollows, SomeoneWill, UpdatesAreSSO, Watching, Serving,
         Parse
  <1>10. CASE UNCHANGED vars
    BY <1>1, <1>10 DEF vars, Follow, WatcherFollows, SomeoneWill, UpdatesAreSSO, Watching,
       Serving, Parse
  <1> QED
    BY <1>2, <1>3, <1>4, <1>5, <1>6, <1>7, <1>8, <1>9, <1>10 DEF Next

(* Once nothing is under way the policy in force is the one in the file.    *)
THEOREM FileIsInForce == Spec => []StaleOnlyIfBehind
  <1>1. Shape /\ Follow => StaleOnlyIfBehind
    BY Constants DEF Follow, SomeoneWill, StaleOnlyIfBehind, Quiet, LoadPCs
  <1> QED
    BY <1>1, InitShape, ShapeStep, InitFollow, FollowStep, PTL DEF Spec

-----------------------------------------------------------------------------
(* What is quarantined.                                                     *)

LEMMA InitAudit == Init => OneAudit
  <1> SUFFICES ASSUME Init PROVE OneAudit
    OBVIOUS
  <1>1. \A p \in Procs : ~Auditing(p) /\ procs[p].pc # "auditSkills"
    BY DEF Init, Idle, Auditing
  <1> QED
    BY <1>1 DEF Init, OneAudit, ZeroPolicy

(* A step of a goroutine outside its audits, that leaves the rules alone.   *)
LEMMA OutsideAudits ==
  ASSUME Shape, OneAudit, NEW p \in Procs, NEW l,
         procs' = [procs EXCEPT ![p] = l],
         l.pc \notin {"auditMCP", "auditSkills"}, ~Auditing(p),
         active'.rules = active.rules, UNCHANGED <<quarantine, crossed, up>>
  PROVE  OneAudit'
  <1>1. procs'[p] = l /\ \A q \in Procs \ {p} : procs'[q] = procs[q]
    BY DEF Shape, TypeOK
  <1>2. \A q \in Procs : /\ Auditing(q)' <=> Auditing(q)
                         /\ Auditing(q) => procs'[q] = procs[q]
    BY <1>1 DEF Auditing
  <1>3. \A q \in Procs : procs'[q].pc = "auditSkills" => Auditing(q) /\ procs[q].pc = "auditSkills"
    BY <1>1, <1>2 DEF Auditing
  <1> QED
    BY <1>2, <1>3 DEF OneAudit

LEMMA ProceedAudit ==
  ASSUME Shape, OneAudit, NEW p \in Procs, Proceed(p)
  PROVE  OneAudit'
  <1> DEFINE Locals == [pc : PCs, kind : Kinds, data : Contents]
  <1>1. /\ TypeOK /\ LoadsParsed /\ Roles /\ Phases
    BY DEF Shape
  <1>2. procs[p] \in Locals
    BY <1>1 DEF TypeOK
  <1>3. CASE Swap(p)
    <2> DEFINE l == [procs[p] EXCEPT !.pc = "auditMCP"]
    <2>1. l.pc = "auditMCP" /\ l.data = procs[p].data
      BY <1>2
    <2>2. /\ procs' = [procs EXCEPT ![p] = l] /\ active' = procs[p].data
          /\ crossed' = \E q \in Procs \ {p} : Auditing(q)
      BY <1>1, <1>3 DEF Swap, Go, TypeOK
    <2> HIDE DEF l
    <2>3. procs'[p] = l /\ \A q \in Procs \ {p} : procs'[q] = procs[q]
      BY <1>1, <2>2 DEF TypeOK
    <2>4. Auditing(p)' /\ procs'[p].pc = "auditMCP" /\ procs'[p].data.rules = active'.rules
      BY <2>1, <2>2, <2>3 DEF Auditing
    <2>5. ~crossed' => \A q \in Procs \ {p} : ~Auditing(q)' /\ procs'[q].pc # "auditSkills"
      BY <2>2, <2>3 DEF Auditing
    <2> QED
      BY <2>4, <2>5 DEF OneAudit
  <1>4. CASE AuditMCP(p)
    <2> DEFINE l == [procs[p] EXCEPT !.pc = "auditSkills"]
    <2>1. l.pc = "auditSkills" /\ l.data = procs[p].data
      BY <1>2
    <2>2. /\ procs' = [procs EXCEPT ![p] = l] /\ UNCHANGED <<active, up, crossed>>
          /\ quarantine'.mcp = procs[p].data.rules /\ Auditing(p)
      BY <1>1, <1>4 DEF AuditMCP, Go, TypeOK, Auditing
    <2> HIDE DEF l
    <2>3. procs'[p] = l /\ \A q \in Procs \ {p} : procs'[q] = procs[q]
      BY <1>1, <2>2 DEF TypeOK
    <2>4. Auditing(p)' /\ \A q \in Procs : Auditing(q)' <=> Auditing(q)
      BY <2>1, <2>2, <2>3 DEF Auditing
    <2>5. \A q \in Procs : procs'[q].data = procs[q].data
      BY <2>1, <2>3
    <2>6. up # "down" /\ ~crossed => quarantine'.mcp = active.rules
      BY <2>2 DEF OneAudit
    <2> QED
      BY <2>2, <2>4, <2>5, <2>6 DEF OneAudit
  <1>5. CASE AuditSkills(p)
    <2>1. PICK l : /\ procs' = [procs EXCEPT ![p] = l]
                   /\ l.pc \notin {"auditMCP", "auditSkills"}
      <3>1. CASE up = "boot"
        <4> DEFINE m == [Idle EXCEPT !.pc = "add"]
        <4>1. m.pc = "add"
          BY DEF Idle
        <4>2. procs' = [procs EXCEPT ![p] = m]
          BY <1>5, <3>1 DEF AuditSkills
        <4> HIDE DEF m
        <4> QED
          BY <4>1, <4>2
      <3>2. CASE up # "boot"
        <4>1. Idle.pc = "idle"
          BY DEF Idle
        <4> QED
          BY <1>5, <3>2, <4>1 DEF AuditSkills, Done
      <3> QED
        BY <3>1, <3>2
    <2>2. procs'[p] = l /\ \A q \in Procs \ {p} : procs'[q] = procs[q]
      BY <1>1, <2>1 DEF TypeOK
    <2>3. /\ UNCHANGED <<active, crossed>> /\ procs[p].pc = "auditSkills" /\ Auditing(p)
          /\ quarantine'.skills = procs[p].data.rules /\ quarantine'.mcp = quarantine.mcp
      BY <1>1, <1>5 DEF AuditSkills, Auditing, TypeOK
    <2>4. up # "down"
      BY <1>1, <2>3 DEF Phases, Roles, Procs
    <2>5. ~crossed => \A q \in Procs \ {p} : ~Auditing(q)
      BY <2>3, <2>4 DEF OneAudit
    <2>6. ~crossed => \A q \in Procs : ~Auditing(q)' /\ procs'[q].pc # "auditSkills"
      BY <2>1, <2>2, <2>5 DEF Auditing
    <2>7. ~crossed => quarantine'.skills = active.rules /\ quarantine'.mcp = active.rules
      BY <2>3, <2>4 DEF OneAudit
    <2> QED
      BY <2>3, <2>6, <2>7 DEF OneAudit
  <1>6. CASE Decode(p) /\ procs[p].data = Bad /\ ~AlreadyLoaded
    BY <1>6 DEF Decode, Die, OneAudit
  <1>7. CASE Update(p)
    <2> DEFINE new == [active EXCEPT !.sso = procs[p].data.sso]
               l == [procs[p] EXCEPT !.pc = "truncate", !.data = new]
    <2>1. l.pc = "truncate" /\ new.rules = active.rules
      BY <1>1, <1>2 DEF TypeOK, Policies
    <2>2. /\ procs' = [procs EXCEPT ![p] = l] /\ active' = new /\ ~Auditing(p)
          /\ UNCHANGED <<quarantine, crossed, up>>
      BY <1>1, <1>7 DEF Update, TypeOK, Auditing
    <2> HIDE DEF l, new
    <2> QED
      BY <2>1, <2>2, OutsideAudits
  <1>8. CASE \/ Truncate(p) \/ Write(p) \/ SaveSnapshot(p) \/ Read(p) \/ Lock(p)
             \/ (Decode(p) /\ ~(procs[p].data = Bad /\ ~AlreadyLoaded))
    <2>1. UNCHANGED <<active, quarantine, crossed, up>> /\ ~Auditing(p)
      BY <1>8 DEF Truncate, Write, SaveSnapshot, Read, Lock, Decode, Auditing
    <2>2. PICK l : /\ procs' = [procs EXCEPT ![p] = l]
                   /\ l.pc \notin {"auditMCP", "auditSkills"}
      <3>1. CASE Truncate(p)
        <4> WITNESS [procs[p] EXCEPT !.pc = "write"]
        <4> QED
          BY <1>1, <1>2, <3>1 DEF Truncate, Go, TypeOK
      <3>2. CASE Write(p) \/ SaveSnapshot(p)
        <4>1. PICK m : m \in {[procs[p] EXCEPT !.pc = "reread"], [procs[p] EXCEPT !.pc = "snapshot"],
                             [pc |-> "read", kind |-> "load", data |-> Empty], Idle}
                       /\ procs' = [procs EXCEPT ![p] = m]
          BY <1>1, <3>2 DEF Write, SaveSnapshot, Go, Done, TypeOK
        <4>2. m.pc \in {"reread", "snapshot", "read", "idle"}
          BY <1>2, <4>1 DEF Idle
        <4> QED
          BY <4>1, <4>2
      <3>3. CASE Read(p)
        <4>1. PICK m : /\ m \in {[pc |-> "truncate", kind |-> "load", data |-> DefaultPolicy],
                                 [pc |-> "parse", kind |-> "load", data |-> file]}
                       /\ procs' = [procs EXCEPT ![p] = m]
          BY <3>3 DEF Read
        <4>2. m.pc \in {"truncate", "parse"}
          BY <4>1
        <4> QED
          BY <4>1, <4>2
      <3>4. CASE Lock(p)
        <4>1. PICK m : /\ m \in {[procs[p] EXCEPT !.pc = "update"], [procs[p] EXCEPT !.pc = "swap"]}
                       /\ procs' = [procs EXCEPT ![p] = m]
          BY <1>1, <3>4 DEF Lock, Go, TypeOK
        <4>2. m.pc \in {"update", "swap"}
          BY <1>2, <4>1
        <4> QED
          BY <4>1, <4>2
      <3>5. CASE Decode(p) /\ ~(procs[p].data = Bad /\ ~AlreadyLoaded)
        <4>1. CASE procs[p].data # Bad
          <5> DEFINE m == [procs[p] EXCEPT !.pc = "lock", !.data = Parse(procs[p].data)]
          <5>1. m.pc = "lock"
            BY <1>2
          <5>2. procs' = [procs EXCEPT ![p] = m]
            BY <1>1, <3>5, <4>1 DEF Decode, TypeOK
          <5> HIDE DEF m
          <5> QED
            BY <5>1, <5>2
        <4>2. CASE procs[p].data = Bad
          <5>1. Idle.pc = "idle"
            BY DEF Idle
          <5> QED
            BY <3>5, <4>2, <5>1 DEF Decode, Done
        <4> QED
          BY <4>1, <4>2
      <3> QED
        BY <1>8, <3>1, <3>2, <3>3, <3>4, <3>5
    <2> QED
      BY <2>1, <2>2, OutsideAudits
  <1> QED
    BY <1>3, <1>4, <1>5, <1>6, <1>7, <1>8 DEF Proceed

LEMMA AuditStep == Shape /\ OneAudit /\ [Next]_vars => OneAudit'
  <1> SUFFICES ASSUME Shape, OneAudit, [Next]_vars PROVE OneAudit'
    OBVIOUS
  <1>1. /\ TypeOK /\ Roles /\ Phases
    BY DEF Shape
  <1>2. CASE Crash
    BY <1>2 DEF Crash, Die, OneAudit
  <1>3. CASE Restart
    <2>1. \A p \in Procs : procs'[p].pc \in {"read", "idle", "truncate", "write"}
      BY <1>1, <1>3, Constants DEF Restart, TypeOK, Phases, Roles, Procs
    <2>2. \A p \in Procs : ~Auditing(p)' /\ procs'[p].pc # "auditSkills"
      BY <2>1 DEF Auditing
    <2> QED
      BY <1>3, <2>2 DEF Restart, OneAudit, ZeroPolicy
  <1>4. CASE Edit \/ \E a \in Admins : Handle(a)
    <2>1. PICK p \in Procs : \E k, c : Begin(p, k, c)
      BY <1>4, Constants DEF Edit, Handle, SavePolicy, SaveSSO, RestoreSnapshot, SwitchProfile
    <2>3. PICK k, c : Begin(p, k, c)
      BY <2>1
    <2> DEFINE l == [pc |-> IF k = "sso" THEN "lock" ELSE "truncate", kind |-> k, data |-> c]
    <2>2. /\ procs' = [procs EXCEPT ![p] = l] /\ UNCHANGED <<active, quarantine, crossed, up>>
          /\ ~Auditing(p) /\ l.pc \notin {"auditMCP", "auditSkills"}
      BY <2>3 DEF Begin, Auditing
    <2> HIDE DEF l
    <2> QED
      BY <2>2, OutsideAudits
  <1>5. CASE AddWatch \/ Watch
    <2>1. PICK m : /\ m \in {[pc |-> "read", kind |-> "load", data |-> Empty], Idle}
                   /\ procs' = [procs EXCEPT ![Watcher] = m]
      BY <1>5 DEF AddWatch, Watch, Done
    <2>2. m.pc \in {"read", "idle"}
      BY <2>1 DEF Idle
    <2>3. UNCHANGED <<active, quarantine, crossed, up>> /\ ~Auditing(Watcher)
      BY <1>5 DEF AddWatch, Watch, Auditing
    <2> QED
      BY <2>1, <2>2, <2>3, OutsideAudits, Constants
  <1>6. ASSUME NEW p \in Procs, Proceed(p) PROVE OneAudit'
    BY <1>6, ProceedAudit
  <1>7. ASSUME NEW p \in Procs, WriteFails(p) PROVE OneAudit'
    <2>1. CASE procs[p].kind = "load"
      BY <1>7, <2>1 DEF WriteFails, Die, OneAudit
    <2>2. CASE procs[p].kind # "load"
      <3>1. /\ procs' = [procs EXCEPT ![p] = Idle] /\ Idle.pc = "idle" /\ ~Auditing(p)
            /\ UNCHANGED <<active, quarantine, crossed, up>>
        BY <1>7, <2>2 DEF WriteFails, Done, Idle, Auditing
      <3> QED
        BY <3>1, OutsideAudits
    <2> QED
      BY <2>1, <2>2
  <1>8. ASSUME NEW s \in Scanners, Receive(s) \/ Scan(s) PROVE OneAudit'
    <2>1. UNCHANGED <<active, procs, up, crossed, quarantine>>
      BY <1>8 DEF Receive, Scan, BeginScan, Nest, CheckTool, EndScan, ScanStep
    <2> QED
      BY <2>1 DEF OneAudit, Auditing
  <1>9. CASE UNCHANGED vars
    BY <1>9 DEF vars, OneAudit, Auditing
  <1> QED
    BY <1>2, <1>3, <1>4, <1>5, <1>6, <1>7, <1>8, <1>9 DEF Next

(* What is quarantined follows from the rules in force, unless loads cross. *)
THEOREM QuarantineIsCurrent == Spec => []QuarantineOnlyIfCrossed
  <1>1. Shape /\ OneAudit => QuarantineOnlyIfCrossed
    <2> SUFFICES ASSUME Shape, OneAudit, up # "down", ~crossed, \A p \in Procs : ~Auditing(p)
                 PROVE  quarantine = [mcp |-> active.rules, skills |-> active.rules]
      BY DEF QuarantineOnlyIfCrossed
    <2>1. quarantine \in [mcp : RuleSets, skills : RuleSets]
      BY DEF Shape, TypeOK
    <2>2. quarantine.mcp = active.rules /\ quarantine.skills = active.rules
      BY DEF OneAudit
    <2> QED
      BY <2>1, <2>2
  <1> QED
    BY <1>1, InitShape, ShapeStep, InitAudit, AuditStep, PTL DEF Spec

-----------------------------------------------------------------------------
(* The lock that is taken twice.                                            *)

(* A scan asks for policyLock again, behind a goroutine that waits for the  *)
(* scan to give it back.                                                    *)
Stuck(s) == scans[s] = "nested" /\ writer # Nobody

(* The same, as seen by a request that waits to be scanned under policy c.  *)
Frozen(s, q, c) == Stuck(s) /\ scans[q] = "waiting" /\ active = c

Alive == up # "down"

(* Once a scan's second read lock of policyLock (isHighRiskTool,            *)
(* main.go:2635) has met a waiting writer, nothing but the end of the       *)
(* process resolves it: no waiting request is scanned and no other policy   *)
(* comes into force, ever, for any number of scans and handlers.  The run   *)
(* policy_reload_nested finds one way into it.                              *)
THEOREM DeadlockLasts ==
  ASSUME NEW s \in Scanners, NEW q \in Scanners, NEW c \in Policies
  PROVE  Spec /\ []Alive => [](Frozen(s, q, c) => []Frozen(s, q, c))
  <1>1. Shape /\ Frozen(s, q, c) /\ [Next]_vars /\ Alive' => Frozen(s, q, c)'
    <2> SUFFICES ASSUME Shape, Frozen(s, q, c), [Next]_vars, Alive'
                 PROVE  Frozen(s, q, c)'
      OBVIOUS
    <2>1. scans[s] = "nested" /\ scans[q] = "waiting" /\ writer # Nobody /\ active = c
      BY DEF Frozen, Stuck
    <2>0. up' # "down"
      BY DEF Alive
    <2>2. scans \in [Scanners -> {"idle", "waiting", "scanning", "nested", "checked"}]
          /\ up # "down"
      BY <2>1, <2>0 DEF Shape, TypeOK, Phases
    <2>3. s \in Readers
      BY <2>1 DEF Readers
    <2>4. CASE UNCHANGED <<scans, writer, active>>
      BY <2>1, <2>4 DEF Frozen, Stuck
    <2>5. ASSUME NEW x \in Scanners, Receive(x) \/ Scan(x) PROVE Frozen(s, q, c)'
      <3>1. UNCHANGED <<writer, active>> /\ \A y \in Scanners : y # x => scans'[y] = scans[y]
        BY <2>2, <2>5 DEF Receive, Scan, BeginScan, Nest, CheckTool, EndScan, ScanStep
      <3>2. x # s /\ x # q
        BY <2>1, <2>5 DEF Receive, Scan, BeginScan, Nest, CheckTool, EndScan, ScanStep
      <3> QED
        BY <2>1, <3>1, <3>2 DEF Frozen, Stuck
    <2>6. ASSUME NEW p \in Procs, Proceed(p) \/ WriteFails(p)
          PROVE  UNCHANGED <<scans, writer, active>>
      BY <2>1, <2>3, <2>6, <2>0 DEF Proceed, WriteFails, Die, Update, Truncate, Write, SaveSnapshot,
         Read, Decode, Lock, Swap, AuditMCP, AuditSkills
    <2>7. ASSUME NEW a \in Admins, Handle(a) PROVE UNCHANGED <<scans, writer, active>>
      BY <2>7 DEF Handle, SavePolicy, SaveSSO, RestoreSnapshot, SwitchProfile, Begin
    <2>8. Edit \/ AddWatch \/ Watch \/ UNCHANGED vars => UNCHANGED <<scans, writer, active>>
      BY DEF Edit, Begin, AddWatch, Watch, vars
    <2>9. ~Crash /\ ~Restart
      BY <2>0, <2>2 DEF Crash, Die, Restart
    <2> QED
      BY <2>4, <2>5, <2>6, <2>7, <2>8, <2>9 DEF Next
  <1> QED
    BY <1>1, InitShape, ShapeStep, PTL DEF Spec
=============================================================================
