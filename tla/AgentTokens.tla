---------------------------- MODULE AgentTokens ----------------------------
(***************************************************************************)
(* Agent tokens: signed claims, the agent_tokens table, the in-memory set  *)
(* of revoked ids and the handlers that issue, spawn and revoke            *)
(* (proxy/tokens.go and the tokens endpoints of proxy/main.go).            *)
(*                                                                         *)
(* Instances of the proxy share the signing secret and the table; each has *)
(* its own revokedJTIs, filled from the table when it starts.  The tokens  *)
(* endpoint does not accept the scope agent:spawn, so a token that may     *)
(* spawn is Minted outside with AGENTARMOR_JWT_SECRET and has no row.      *)
(* A spawn also needs the cookie of a dashboard session: getRole does not  *)
(* know agent tokens.  A step is what no other goroutine can split.        *)
(***************************************************************************)
EXTENDS Integers, FiniteSets

CONSTANTS
  Instances,
  Tokens,           \* token ids (jti)
  Minted, Lifetimes,    \* tokens signed outside, and the exp they may carry
  Agents, Routes,   \* agent ids; <<parent, child>> pairs verifySpawnPolicy lets pass
  Spawn, Plain,     \* the scope agent:spawn; the scopes the tokens endpoint accepts
  NoParent,         \* the parent of a token that was not spawned
  MaxSpawnDepth,    \* of an agent, by the routing rules
  Durations,        \* expires_in, in ticks
  Spawners, Revokers,   \* goroutines in the two handlers
  MaxTime,          \* bound: the clock
  MaxFaults         \* bound: restarts and failed statements

ASSUME AgentTokensAssumption ==
  /\ Minted \subseteq Tokens /\ NoParent \notin Tokens
  /\ Routes \subseteq Agents \X Agents
  /\ Spawn \notin Plain
  /\ MaxSpawnDepth \in [Agents -> Nat]
  /\ Durations \subseteq Nat \ {0} /\ Lifetimes \subseteq Nat
  /\ MaxTime \in Nat /\ MaxFaults \in Nat

VARIABLES
  now,
  claims,        \* what each token says, NoClaims until it is signed
  row,           \* agent_tokens: none, live, or revoked
  revokedJTIs,   \* of each instance
  spawners,      \* locals of tokens/spawn
  revokers,      \* locals of DELETE tokens/<id>
  faults,
  acked,         \* history: revocations answered, with the instance
  slipped        \* history: children a sweep of their parent did not get

vars == <<now, claims, row, revokedJTIs, spawners, revokers, faults, acked, slipped>>

-----------------------------------------------------------------------------
Scopes == Plain \cup {Spawn}
Never == 0
NoClaims == [agent |-> "none"]
Claims == [agent : Agents, scopes : SUBSET Scopes, exp : Nat,
           parent : Tokens \cup {NoParent}, depth : Nat]
Idle == [pc |-> "idle"]

Signed == {t \in Tokens : claims[t] # NoClaims}
Delivered == {t \in Signed : t \in Minted \/ row[t] # "none"}
ChildOf(c, t) == c \in Signed /\ claims[c].parent = t

Fault == faults < MaxFaults /\ faults' = faults + 1

(* validateAgentJWT, whose clock has not passed the second exp names yet.   *)
Expired(t) == claims[t].exp # Never /\ now > claims[t].exp

Refused(i, t) == t \in revokedJTIs[i] \/ claims[t].parent \in revokedJTIs[i]

Valid(i, t) == ~Expired(t) /\ ~Refused(i, t)

(* A lifetime of nothing or less leaves the exp claim out.                  *)
Sign(agent, scopes, lifetime, parent, depth) ==
  [agent |-> agent, scopes |-> scopes, parent |-> parent, depth |-> depth,
   exp |-> IF lifetime > 0 THEN now + lifetime ELSE Never]

Tick ==
  /\ now < MaxTime
  /\ now' = now + 1
  /\ UNCHANGED <<claims, row, revokedJTIs, spawners, revokers, faults, acked, slipped>>

-----------------------------------------------------------------------------
(* POST tokens, by an admin.  A token whose row could not be inserted is    *)
(* handed to nobody.                                                        *)
Create(t, agent, scopes, lifetime) ==
  /\ t \notin Signed
  /\ claims' = [claims EXCEPT ![t] = Sign(agent, scopes, lifetime, NoParent, 0)]
  /\ row' = [row EXCEPT ![t] = "live"]
  /\ UNCHANGED <<now, revokedJTIs, spawners, revokers, faults, acked, slipped>>

-----------------------------------------------------------------------------
(* POST tokens/spawn *)

MaySpawn(t, agent, scopes) ==
  /\ Spawn \in claims[t].scopes
  /\ scopes \subseteq claims[t].scopes
  /\ <<claims[t].agent, agent>> \in Routes
  /\ claims[t].depth < MaxSpawnDepth[claims[t].agent]

CheckParent(p, i, t, agent, scopes, lifetime) ==
  /\ spawners[p].pc = "idle"
  /\ t \in Delivered /\ Valid(i, t) /\ MaySpawn(t, agent, scopes)
  /\ spawners' = [spawners EXCEPT ![p] =
        [pc |-> "cap", at |-> i, parent |-> t, agent |-> agent, scopes |-> scopes,
         lifetime |-> lifetime]]
  /\ UNCHANGED <<now, claims, row, revokedJTIs, revokers, faults, acked, slipped>>

(* Changed: the last second of the parent does not count.                   *)
RemainingShort(t) == claims[t].exp - now - 1

(* The parent's remaining lifetime is nothing in the second exp names.      *)
Remaining(t) == claims[t].exp - now

Capped(t, lifetime) ==
  IF claims[t].exp # Never /\ lifetime > Remaining(t) THEN Remaining(t) ELSE lifetime

CapLifetime(p) ==
  /\ spawners[p].pc = "cap"
  /\ spawners' = [spawners EXCEPT ![p].pc = "issue",
                    ![p].lifetime = Capped(spawners[p].parent, spawners[p].lifetime)]
  /\ UNCHANGED <<now, claims, row, revokedJTIs, revokers, faults, acked, slipped>>

(* History: revocations whose sweep ran before the row of a child was there.*)
SweptPast(t) ==
  \/ \E r \in Revokers : revokers[r].pc = "cascade" /\ revokers[r].token = t
  \/ \E i \in Instances : <<i, t>> \in acked

(* The child is signed and its row inserted; the sweep of a revocation sees *)
(* the row or does not, and nothing else can tell the two apart.            *)
Issue(p, c) ==
  LET s == spawners[p] IN
  /\ s.pc = "issue" /\ c \notin Signed
  /\ claims' = [claims EXCEPT ![c] =
        Sign(s.agent, s.scopes, s.lifetime, s.parent, claims[s.parent].depth + 1)]
  /\ row' = [row EXCEPT ![c] = "live"]
  /\ spawners' = [spawners EXCEPT ![p] = Idle]
  /\ slipped' = IF SweptPast(s.parent) THEN slipped \cup {c} ELSE slipped
  /\ UNCHANGED <<now, revokedJTIs, revokers, faults, acked>>

-----------------------------------------------------------------------------
(* DELETE tokens/<id>: the row, the rows of the children and their ids in   *)
(* memory, and only then the id itself.                                     *)
RevokeRow(p, i, t) ==
  /\ revokers[p].pc = "idle" /\ t \in Signed
  /\ row' = [row EXCEPT ![t] = IF @ = "live" THEN "revoked" ELSE @]
  /\ revokers' = [revokers EXCEPT ![p] = [pc |-> "sweep", at |-> i, token |-> t, kids |-> {}]]
  /\ UNCHANGED <<now, claims, revokedJTIs, spawners, faults, acked, slipped>>

LiveChildren(t) == {c \in Tokens : ChildOf(c, t) /\ row[c] = "live"}

(* A query that fails leaves no children to revoke; one that works leaves   *)
(* out those another instance has revoked.                                  *)
Sweep(p) ==
  LET t == revokers[p].token
      Get(kids) ==
        /\ revokers' = [revokers EXCEPT ![p].pc = "cascade", ![p].kids = kids]
        /\ slipped' = slipped \cup
             {c \in Tokens : ChildOf(c, t) /\ c \notin kids \cup revokedJTIs[revokers[p].at]}
  IN
  /\ revokers[p].pc = "sweep"
  /\ \/ Get(LiveChildren(t)) /\ UNCHANGED faults
     \/ Get({}) /\ Fault
  /\ UNCHANGED <<now, claims, row, revokedJTIs, spawners, acked>>

(* Changed: a child is revoked in the table only.                           *)
RevokeChildRow(p, c) ==
  /\ revokers[p].pc = "cascade" /\ c \in revokers[p].kids
  /\ row' = [row EXCEPT ![c] = "revoked"]
  /\ revokers' = [revokers EXCEPT ![p].kids = @ \ {c}]
  /\ UNCHANGED <<now, claims, revokedJTIs, spawners, faults, acked, slipped>>

(* The error of a child's UPDATE is ignored.                                *)
RevokeChild(p, c) ==
  /\ revokers[p].pc = "cascade" /\ c \in revokers[p].kids
  /\ \/ /\ row' = [row EXCEPT ![c] = "revoked"]
        /\ UNCHANGED <<faults, slipped>>
     \/ /\ Fault /\ slipped' = slipped \cup {c}
        /\ UNCHANGED row
  /\ revokedJTIs' = [revokedJTIs EXCEPT ![revokers[p].at] = @ \cup {c}]
  /\ revokers' = [revokers EXCEPT ![p].kids = @ \ {c}]
  /\ UNCHANGED <<now, claims, spawners, acked>>

RevokeInMemory(p) ==
  LET i == revokers[p].at
      t == revokers[p].token
  IN
  /\ revokers[p].pc = "cascade" /\ revokers[p].kids = {}
  /\ revokedJTIs' = [revokedJTIs EXCEPT ![i] = @ \cup {t}]
  /\ revokers' = [revokers EXCEPT ![p] = Idle]
  /\ acked' = acked \cup {<<i, t>>}
  /\ UNCHANGED <<now, claims, row, spawners, faults, slipped>>

-----------------------------------------------------------------------------
(* initAgentTokensTable: an instance starts again and loads the revoked     *)
(* rows.  What it knew of a token without a row is gone.                    *)
Elsewhere(q, i) == IF q.pc # "idle" /\ q.at = i THEN Idle ELSE q

(* Changed: the revoked rows are not loaded.                                *)
RestartBare(i) ==
  /\ Fault
  /\ revokedJTIs' = [revokedJTIs EXCEPT ![i] = {}]
  /\ spawners' = [p \in Spawners |-> Elsewhere(spawners[p], i)]
  /\ revokers' = [p \in Revokers |-> Elsewhere(revokers[p], i)]
  /\ acked' = {a \in acked : a[1] # i \/ row[a[2]] # "none"}
  /\ UNCHANGED <<now, claims, row, slipped>>

(* The instance comes up with the ids of the revoked rows.                  *)
Restart(i) ==
  /\ Fault
  /\ revokedJTIs' = [revokedJTIs EXCEPT ![i] = {t \in Tokens : row[t] = "revoked"}]
  /\ spawners' = [p \in Spawners |-> Elsewhere(spawners[p], i)]
  /\ revokers' = [p \in Revokers |-> Elsewhere(revokers[p], i)]
  /\ acked' = {a \in acked : a[1] # i \/ row[a[2]] # "none"}
  /\ UNCHANGED <<now, claims, row, slipped>>

-----------------------------------------------------------------------------
Init ==
  /\ now = 0
  /\ \E m \in [Minted -> [agent : Agents, scopes : {Scopes}, exp : Lifetimes,
                          parent : {NoParent}, depth : {0}]] :
        claims = [t \in Tokens |-> IF t \in Minted THEN m[t] ELSE NoClaims]
  /\ row = [t \in Tokens |-> "none"]
  /\ revokedJTIs = [i \in Instances |-> {}]
  /\ spawners = [p \in Spawners |-> Idle]
  /\ revokers = [p \in Revokers |-> Idle]
  /\ faults = 0 /\ acked = {} /\ slipped = {}

Issuing ==
  \/ \E t \in Tokens, agent \in Agents, scopes \in SUBSET Plain,
        lifetime \in Durations \cup {Never} : Create(t, agent, scopes, lifetime)
  \/ \E p \in Spawners :
        \/ \E i \in Instances, t \in Tokens, agent \in Agents, scopes \in SUBSET Scopes,
              lifetime \in Durations : CheckParent(p, i, t, agent, scopes, lifetime)
        \/ CapLifetime(p)
        \/ \E c \in Tokens : Issue(p, c)

Revoking ==
  \E p \in Revokers :
    \/ \E i \in Instances, t \in Tokens : RevokeRow(p, i, t)
    \/ Sweep(p)
    \/ \E c \in Tokens : RevokeChild(p, c)
    \/ RevokeInMemory(p)

Next == Tick \/ Issuing \/ Revoking \/ \E i \in Instances : Restart(i)

Spec == Init /\ [][Next]_vars

-----------------------------------------------------------------------------
(* The claims, the rows, the sets of revoked ids and the handlers' locals   *)
(* are what the code can hold.                                              *)
TypeOK ==
  /\ now \in Nat /\ faults \in 0 .. MaxFaults
  /\ claims \in [Tokens -> Claims \cup {NoClaims}]
  /\ row \in [Tokens -> {"none", "live", "revoked"}]
  /\ revokedJTIs \in [Instances -> SUBSET Tokens]
  /\ spawners \in [Spawners -> {Idle} \cup
        [pc : {"cap", "issue"}, at : Instances, parent : Tokens, agent : Agents,
         scopes : SUBSET Scopes, lifetime : Int]]
  /\ revokers \in [Revokers -> {Idle} \cup
        [pc : {"sweep", "cascade"}, at : Instances, token : Tokens, kids : SUBSET Tokens]]
  /\ acked \subseteq Instances \X Tokens
  /\ slipped \subseteq Tokens

(* Once an instance has answered that a token is revoked it refuses the     *)
(* token and every child of it, also a child issued later and also after a  *)
(* restart.                                                                 *)
RevocationSticks ==
  \A a \in acked : \A t \in Signed :
    t = a[2] \/ ChildOf(t, a[2]) => Refused(a[1], t)

(* It refuses their children too, unless the sweep did not get the token in *)
(* between: its row came too late or could not be written.                  *)
CascadeReaches ==
  \A a \in acked : \A c \in Signed, g \in Signed :
    ChildOf(c, a[2]) /\ ChildOf(g, c) /\ c \notin slipped => Refused(a[1], g)

(* A child that never expires is issued under a parent that does only once  *)
(* the parent's last second has come.                                       *)
ImmortalOnlyAtDeadline ==
  [][\A c \in Tokens :
       /\ claims[c] = NoClaims /\ claims'[c] # NoClaims
       /\ claims'[c].exp = Never /\ claims'[c].parent # NoParent
       => LET t == claims'[c].parent IN claims[t].exp # Never /\ now >= claims[t].exp]_vars

=============================================================================
