------------------------- MODULE AgentTokensProofs -------------------------
(***************************************************************************)
(* Proofs about AgentTokens.  Everything follows from one inductive        *)
(* invariant: what a revocation has done so far is in the memory of its    *)
(* instance and, unless a child slipped through, in the table that the     *)
(* instance loads when it starts again.                                    *)
(***************************************************************************)
EXTENDS AgentTokens, TLAPS

(* A row is that of a signed token, and a token that was spawned has one.   *)
RowsOfSigned ==
  \A t \in Tokens :
    /\ row[t] # "none" => claims[t] # NoClaims
    /\ claims[t] # NoClaims /\ claims[t].parent # NoParent => row[t] # "none"

(* What memory holds was signed and is not live in the table, unless the    *)
(* token slipped through the sweep of its parent.                           *)
MemoryInTable ==
  \A i \in Instances : \A t \in revokedJTIs[i] :
    claims[t] # NoClaims /\ (row[t] = "live" => t \in slipped)

(* The children of a token which a revocation at i has dealt with.          *)
KidsIn(t, i, kids) ==
  \A c \in Tokens :
    claims[c] # NoClaims /\ claims[c].parent = t /\ c \notin slipped
      => c \in kids \/ c \in revokedJTIs[i]

(* Revocations under way.                                                   *)
RevokersRight ==
  \A p \in Revokers : LET r == revokers[p] IN r.pc # "idle" =>
    /\ claims[r.token] # NoClaims /\ row[r.token] # "live"
    /\ \A c \in r.kids : claims[c] # NoClaims
    /\ r.pc = "cascade" => KidsIn(r.token, r.at, r.kids)

(* Revocations that were answered.                                          *)
AckedRight ==
  \A a \in acked :
    /\ claims[a[2]] # NoClaims /\ row[a[2]] # "live"
    /\ a[2] \in revokedJTIs[a[1]]
    /\ KidsIn(a[2], a[1], {})

(* Spawns under way: only at a parent's deadline is nothing left of it.     *)
SpawnersRight ==
  \A p \in Spawners : LET s == spawners[p] IN s.pc # "idle" =>
    /\ claims[s.parent] # NoClaims
    /\ s.pc = "cap" => s.lifetime > 0
    /\ s.lifetime <= 0 =>
         claims[s.parent].exp # Never /\ now >= claims[s.parent].exp

(* The inductive invariant.                                                 *)
Sound ==
  /\ TypeOK /\ RowsOfSigned /\ MemoryInTable
  /\ RevokersRight /\ AckedRight /\ SpawnersRight

-----------------------------------------------------------------------------
(* A new claim is not the claim of a token that is not signed.              *)
LEMMA SignedClaims ==
  ASSUME NEW agent \in Agents, NEW scopes \in SUBSET Scopes, NEW lifetime \in Int,
         NEW parent \in Tokens \cup {NoParent}, NEW depth \in Nat, now \in Nat
  PROVE  LET c == Sign(agent, scopes, lifetime, parent, depth) IN
         /\ c \in Claims /\ c # NoClaims
         /\ c.parent = parent
         /\ c.exp = Never => lifetime <= 0
<1>1. \A x \in Claims : x # NoClaims
  BY DEF Claims, NoClaims
<1>2. Sign(agent, scopes, lifetime, parent, depth) \in Claims
  BY DEF Sign, Claims, Never
<1> QED
  BY <1>1, <1>2 DEF Sign, Never

(* The locals of a handler that is at work.                                 *)
LEMMA SpawnerTypes ==
  ASSUME TypeOK, NEW p \in Spawners, spawners[p].pc # "idle"
  PROVE  /\ spawners[p] \in [pc : {"cap", "issue"}, at : Instances, parent : Tokens,
                             agent : Agents, scopes : SUBSET Scopes, lifetime : Int]
         /\ spawners[p] # Idle
BY DEF TypeOK, Idle

LEMMA RevokerTypes ==
  ASSUME TypeOK, NEW p \in Revokers, revokers[p].pc # "idle"
  PROVE  /\ revokers[p] \in [pc : {"sweep", "cascade"}, at : Instances, token : Tokens,
                             kids : SUBSET Tokens]
         /\ revokers[p] # Idle
BY DEF TypeOK, Idle

-----------------------------------------------------------------------------
LEMMA InitSound == ASSUME AgentTokensAssumption, Init PROVE Sound
<1>1. TypeOK
  <2> DEFINE Outside == [agent : Agents, scopes : {Scopes}, exp : Lifetimes,
                         parent : {NoParent}, depth : {0}]
  <2>0. Outside \subseteq Claims
    <3>1. {Scopes} \subseteq SUBSET Scopes /\ Lifetimes \subseteq Nat /\ {0} \subseteq Nat
          /\ {NoParent} \subseteq Tokens \cup {NoParent}
      BY AgentTokensAssumption DEF AgentTokensAssumption
    <3> QED
      BY <3>1 DEF Claims
  <2>1. \A t \in Tokens : claims[t] \in Claims \cup {NoClaims}
    <3>1. PICK m \in [Minted -> Outside] :
            claims = [t \in Tokens |-> IF t \in Minted THEN m[t] ELSE NoClaims]
      BY DEF Init
    <3> HIDE DEF Outside
    <3> QED
      BY <2>0, <3>1
  <2>2. claims \in [Tokens -> Claims \cup {NoClaims}]
    BY <2>1 DEF Init
  <2> QED
    BY <2>2 DEF Init, TypeOK, AgentTokensAssumption
<1>2. RowsOfSigned
  <2>1. \A t \in Tokens : claims[t] # NoClaims => t \in Minted
    BY DEF Init
  <2>2. \A t \in Minted : claims[t].parent = NoParent
    BY DEF Init, AgentTokensAssumption
  <2> QED
    BY <2>1, <2>2 DEF Init, RowsOfSigned
<1>3. MemoryInTable /\ RevokersRight /\ AckedRight /\ SpawnersRight
  BY DEF Init, MemoryInTable, RevokersRight, AckedRight, SpawnersRight, Idle
<1> QED
  BY <1>1, <1>2, <1>3 DEF Sound

LEMMA TickSound == ASSUME Sound, Tick PROVE Sound'
<1>1. now' \in Nat /\ now' > now
  BY DEF Sound, TypeOK, Tick
<1>2. \A t \in Tokens : claims[t] # NoClaims => claims[t].exp \in Nat
  BY DEF Sound, TypeOK, Claims
<1>3. TypeOK'
  BY <1>1 DEF Sound, TypeOK, Tick
<1>4. (RowsOfSigned /\ MemoryInTable /\ RevokersRight /\ AckedRight)'
  BY DEF Sound, Tick, RowsOfSigned, MemoryInTable, RevokersRight, AckedRight, KidsIn
<1>5. SpawnersRight'
  <2> SUFFICES ASSUME NEW p \in Spawners, spawners[p].pc # "idle",
                      spawners[p].lifetime <= 0
               PROVE  now' >= claims[spawners[p].parent].exp
    BY DEF Sound, SpawnersRight, Tick
  <2>1. spawners[p].parent \in Tokens
    BY SpawnerTypes DEF Sound
  <2>2. now >= claims[spawners[p].parent].exp /\ claims[spawners[p].parent] # NoClaims
    BY DEF Sound, SpawnersRight
  <2> QED
    BY <1>1, <1>2, <2>1, <2>2 DEF Sound, TypeOK
<1> QED
  BY <1>3, <1>4, <1>5 DEF Sound

-----------------------------------------------------------------------------
(* Signing a token that was not signed, with its row: what the two handlers *)
(* that issue tokens do to the claims and the table.                        *)
LEMMA NewToken ==
  ASSUME Sound, NEW t \in Tokens, claims[t] = NoClaims, NEW c \in Claims, c # NoClaims,
         claims' = [claims EXCEPT ![t] = c], row' = [row EXCEPT ![t] = "live"],
         UNCHANGED <<now, revokedJTIs, revokers, faults, acked>>,
         slipped' \in SUBSET Tokens, slipped \subseteq slipped',
         \A r \in Revokers : revokers[r].pc = "cascade" /\ revokers[r].token = c.parent
           => t \in slipped',
         \A i \in Instances : <<i, c.parent>> \in acked => t \in slipped'
  PROVE  /\ RowsOfSigned' /\ MemoryInTable' /\ RevokersRight' /\ AckedRight'
         /\ claims' \in [Tokens -> Claims \cup {NoClaims}]
         /\ row' \in [Tokens -> {"none", "live", "revoked"}]
<1>1. claims' \in [Tokens -> Claims \cup {NoClaims}]
      /\ row' \in [Tokens -> {"none", "live", "revoked"}]
  BY DEF Sound, TypeOK
<1>2. \A u \in Tokens : u # t => claims'[u] = claims[u] /\ row'[u] = row[u]
  BY DEF Sound, TypeOK
<1>3. claims'[t] = c /\ row'[t] = "live" /\ row[t] = "none"
  BY DEF Sound, TypeOK, RowsOfSigned
<1>4. RowsOfSigned'
  BY <1>2, <1>3 DEF Sound, RowsOfSigned
<1>5. MemoryInTable'
  BY <1>2, <1>3 DEF Sound, MemoryInTable, TypeOK
<1>6. \A u \in Tokens, i \in Instances, kids \in SUBSET Tokens :
        KidsIn(u, i, kids) /\ (c.parent = u => t \in slipped') => KidsIn(u, i, kids)'
  BY <1>2, <1>3 DEF KidsIn
<1>7. RevokersRight'
  <2> SUFFICES ASSUME NEW p \in Revokers, revokers[p].pc # "idle"
               PROVE  (/\ claims[revokers[p].token] # NoClaims
                       /\ row[revokers[p].token] # "live"
                       /\ \A k \in revokers[p].kids : claims[k] # NoClaims
                       /\ revokers[p].pc = "cascade"
                            => KidsIn(revokers[p].token, revokers[p].at, revokers[p].kids))'
    BY DEF RevokersRight
  <2>1. revokers[p].token \in Tokens /\ revokers[p].at \in Instances
        /\ revokers[p].kids \in SUBSET Tokens
    BY RevokerTypes DEF Sound
  <2>2. /\ claims[revokers[p].token] # NoClaims /\ row[revokers[p].token] # "live"
        /\ \A k \in revokers[p].kids : claims[k] # NoClaims
        /\ revokers[p].pc = "cascade"
             => KidsIn(revokers[p].token, revokers[p].at, revokers[p].kids)
    BY DEF Sound, RevokersRight
  <2> QED
    BY <1>2, <1>6, <2>1, <2>2
<1>8. AckedRight'
  <2> SUFFICES ASSUME NEW a \in acked
               PROVE  (/\ claims[a[2]] # NoClaims /\ row[a[2]] # "live"
                       /\ a[2] \in revokedJTIs[a[1]]
                       /\ KidsIn(a[2], a[1], {}))'
    BY DEF AckedRight
  <2>1. a[1] \in Instances /\ a[2] \in Tokens /\ a = <<a[1], a[2]>>
    BY DEF Sound, TypeOK
  <2>2. /\ claims[a[2]] # NoClaims /\ row[a[2]] # "live"
        /\ a[2] \in revokedJTIs[a[1]] /\ KidsIn(a[2], a[1], {})
    BY DEF Sound, AckedRight
  <2>3. c.parent = a[2] => t \in slipped'
    BY <2>1
  <2> QED
    BY <1>2, <1>6, <2>1, <2>2, <2>3
<1> QED
  BY <1>1, <1>4, <1>5, <1>7, <1>8

LEMMA CreateSound ==
  ASSUME Sound, NEW t \in Tokens, NEW agent \in Agents, NEW scopes \in SUBSET Plain,
         NEW lifetime \in Nat, Create(t, agent, scopes, lifetime)
  PROVE  Sound'
<1> DEFINE c == Sign(agent, scopes, lifetime, NoParent, 0)
<1>1. c \in Claims /\ c # NoClaims /\ c.parent = NoParent
  <2>1. now \in Nat /\ scopes \in SUBSET Scopes
    BY DEF Sound, TypeOK, Scopes
  <2> QED
    BY <2>1, SignedClaims
<1>2. /\ claims[t] = NoClaims
      /\ claims' = [claims EXCEPT ![t] = c] /\ row' = [row EXCEPT ![t] = "live"]
      /\ UNCHANGED <<now, revokedJTIs, spawners, revokers, faults, acked, slipped>>
  BY DEF Create, Signed
<1> HIDE DEF c
<1>3. /\ \A r \in Revokers : revokers[r].pc = "cascade" => revokers[r].token # c.parent
      /\ \A i \in Instances : <<i, c.parent>> \notin acked
  BY <1>1, RevokerTypes, AgentTokensAssumption DEF Sound, TypeOK, AgentTokensAssumption
<1>4. slipped' \in SUBSET Tokens /\ slipped \subseteq slipped'
  BY <1>2 DEF Sound, TypeOK
<1>5. /\ RowsOfSigned' /\ MemoryInTable' /\ RevokersRight' /\ AckedRight'
      /\ claims' \in [Tokens -> Claims \cup {NoClaims}]
      /\ row' \in [Tokens -> {"none", "live", "revoked"}]
  BY <1>1, <1>2, <1>3, <1>4, NewToken
<1>6. TypeOK'
  BY <1>2, <1>5 DEF Sound, TypeOK
<1>7. SpawnersRight'
  <2>1. \A u \in Tokens : claims[u] # NoClaims => claims'[u] = claims[u]
    BY <1>2 DEF Sound, TypeOK
  <2>2. \A p \in Spawners : spawners[p].pc # "idle" => spawners[p].parent \in Tokens
    BY SpawnerTypes DEF Sound
  <2> QED
    BY <1>2, <2>1, <2>2 DEF Sound, SpawnersRight
<1> QED
  BY <1>5, <1>6, <1>7 DEF Sound

-----------------------------------------------------------------------------
(* A step of one spawner that signs nothing.                                *)
LEMMA SpawnerMoves ==
  ASSUME Sound, NEW p \in Spawners, NEW s,
         s \in [pc : {"cap", "issue"}, at : Instances, parent : Tokens,
                agent : Agents, scopes : SUBSET Scopes, lifetime : Int],
         spawners' = [spawners EXCEPT ![p] = s],
         claims[s.parent] # NoClaims, s.pc = "cap" => s.lifetime > 0,
         s.lifetime <= 0 => claims[s.parent].exp # Never /\ now >= claims[s.parent].exp,
         UNCHANGED <<now, claims, row, revokedJTIs, revokers, faults, acked, slipped>>
  PROVE  Sound'
<1>1. TypeOK'
  BY DEF Sound, TypeOK
<1>2. SpawnersRight'
  <2>1. spawners'[p] = s /\ \A q \in Spawners : q # p => spawners'[q] = spawners[q]
    BY DEF Sound, TypeOK
  <2> QED
    BY <2>1 DEF Sound, SpawnersRight
<1>3. (RowsOfSigned /\ MemoryInTable /\ RevokersRight /\ AckedRight)'
  BY DEF Sound, RowsOfSigned, MemoryInTable, RevokersRight, AckedRight, KidsIn
<1> QED
  BY <1>1, <1>2, <1>3 DEF Sound

LEMMA CheckParentSound ==
  ASSUME AgentTokensAssumption, Sound, NEW p \in Spawners, NEW i \in Instances,
         NEW t \in Tokens, NEW agent \in Agents, NEW scopes \in SUBSET Scopes,
         NEW lifetime \in Durations, CheckParent(p, i, t, agent, scopes, lifetime)
  PROVE  Sound'
<1> DEFINE s == [pc |-> "cap", at |-> i, parent |-> t, agent |-> agent, scopes |-> scopes,
                 lifetime |-> lifetime]
<1>1. lifetime \in Int /\ lifetime > 0
  BY DEF AgentTokensAssumption
<1>2. claims[t] # NoClaims
  BY DEF CheckParent, Delivered, Signed
<1>3. s \in [pc : {"cap", "issue"}, at : Instances, parent : Tokens,
             agent : Agents, scopes : SUBSET Scopes, lifetime : Int]
  BY <1>1
<1>4. /\ spawners' = [spawners EXCEPT ![p] = s]
      /\ UNCHANGED <<now, claims, row, revokedJTIs, revokers, faults, acked, slipped>>
  BY DEF CheckParent
<1>5. claims[s.parent] # NoClaims /\ s.lifetime > 0 /\ ~(s.lifetime <= 0)
  BY <1>1, <1>2
<1> HIDE DEF s
<1> QED
  BY <1>3, <1>4, <1>5, SpawnerMoves

LEMMA CapLifetimeSound ==
  ASSUME Sound, NEW p \in Spawners, CapLifetime(p) PROVE Sound'
<1> DEFINE t == spawners[p].parent
           l == Capped(t, spawners[p].lifetime)
           s == [spawners[p] EXCEPT !.pc = "issue", !.lifetime = l]
<1>1. /\ spawners[p].pc = "cap" /\ spawners[p].lifetime > 0 /\ spawners[p].lifetime \in Int
      /\ spawners[p] \in [pc : {"cap", "issue"}, at : Instances, parent : Tokens,
                          agent : Agents, scopes : SUBSET Scopes, lifetime : Int]
      /\ t \in Tokens /\ claims[t] # NoClaims
  BY SpawnerTypes DEF CapLifetime, Sound, SpawnersRight
<1>2. claims[t].exp \in Nat /\ now \in Nat
  <2>1. claims[t] \in Claims
    BY <1>1 DEF Sound, TypeOK
  <2> QED
    BY <2>1 DEF Claims, Sound, TypeOK
<1>3. /\ l \in Int
      /\ l <= 0 => claims[t].exp # Never /\ now >= claims[t].exp
  BY <1>1, <1>2 DEF Capped, Remaining, Never
<1> HIDE DEF l
<1>4. /\ s \in [pc : {"cap", "issue"}, at : Instances, parent : Tokens,
                agent : Agents, scopes : SUBSET Scopes, lifetime : Int]
      /\ s.pc = "issue" /\ s.parent = t /\ s.lifetime = l
  BY <1>1, <1>3
<1>5. spawners' = [spawners EXCEPT ![p] = s]
      /\ UNCHANGED <<now, claims, row, revokedJTIs, revokers, faults, acked, slipped>>
  BY <1>1 DEF CapLifetime, Sound, TypeOK, l
<1> HIDE DEF s
<1> QED
  BY <1>1, <1>3, <1>4, <1>5, SpawnerMoves

LEMMA IssueSound ==
  ASSUME Sound, NEW p \in Spawners, NEW c \in Tokens, Issue(p, c) PROVE Sound'
<1> DEFINE s == spawners[p]
           k == Sign(s.agent, s.scopes, s.lifetime, s.parent, claims[s.parent].depth + 1)
<1>1. /\ s \in [pc : {"cap", "issue"}, at : Instances, parent : Tokens,
                agent : Agents, scopes : SUBSET Scopes, lifetime : Int]
      /\ claims[s.parent] # NoClaims
  BY SpawnerTypes DEF Issue, Sound, SpawnersRight
<1>2. claims[s.parent].depth \in Nat /\ now \in Nat
  <2>1. claims[s.parent] \in Claims
    BY <1>1 DEF Sound, TypeOK
  <2> QED
    BY <2>1 DEF Claims, Sound, TypeOK
<1>3. k \in Claims /\ k # NoClaims /\ k.parent = s.parent
  <2>1. claims[s.parent].depth + 1 \in Nat /\ s.agent \in Agents /\ s.scopes \in SUBSET Scopes
        /\ s.lifetime \in Int /\ s.parent \in Tokens \cup {NoParent}
    BY <1>1, <1>2
  <2> QED
    BY <1>2, <2>1, SignedClaims
<1>4. /\ claims[c] = NoClaims
      /\ claims' = [claims EXCEPT ![c] = k] /\ row' = [row EXCEPT ![c] = "live"]
      /\ spawners' = [spawners EXCEPT ![p] = Idle]
      /\ slipped' = IF SweptPast(s.parent) THEN slipped \cup {c} ELSE slipped
      /\ UNCHANGED <<now, revokedJTIs, revokers, faults, acked>>
  BY DEF Issue, Signed
<1>5. slipped' \in SUBSET Tokens /\ slipped \subseteq slipped'
  BY <1>4 DEF Sound, TypeOK
<1> HIDE DEF k
<1>6. /\ RowsOfSigned' /\ MemoryInTable' /\ RevokersRight' /\ AckedRight'
      /\ claims' \in [Tokens -> Claims \cup {NoClaims}]
      /\ row' \in [Tokens -> {"none", "live", "revoked"}]
  <2>1. /\ \A r \in Revokers : revokers[r].pc = "cascade" /\ revokers[r].token = k.parent
             => c \in slipped'
        /\ \A i \in Instances : <<i, k.parent>> \in acked => c \in slipped'
    BY <1>3, <1>4 DEF SweptPast
  <2> QED
    BY <1>3, <1>4, <1>5, <2>1, NewToken
<1>7. TypeOK'
  BY <1>4, <1>5, <1>6 DEF Sound, TypeOK
<1>8. SpawnersRight'
  <2>1. \A u \in Tokens : claims[u] # NoClaims => claims'[u] = claims[u]
    BY <1>4 DEF Sound, TypeOK
  <2>2. \A q \in Spawners : spawners[q].pc # "idle" => spawners[q].parent \in Tokens
    BY SpawnerTypes DEF Sound
  <2>3. spawners'[p].pc = "idle" /\ \A q \in Spawners : q # p => spawners'[q] = spawners[q]
    BY <1>4 DEF Sound, TypeOK, Idle
  <2> QED
    BY <1>4, <2>1, <2>2, <2>3 DEF Sound, SpawnersRight
<1> QED
  BY <1>6, <1>7, <1>8 DEF Sound

-----------------------------------------------------------------------------
LEMMA FaultCounts ==
  ASSUME TypeOK, UNCHANGED faults \/ Fault PROVE faults' \in 0 .. MaxFaults
BY AgentTokensAssumption DEF TypeOK, Fault, AgentTokensAssumption

(* A step of a revocation signs nothing and leaves the spawners alone.      *)
LEMMA SpawnersStay ==
  ASSUME Sound, UNCHANGED <<now, claims, spawners>> PROVE SpawnersRight'
BY DEF Sound, SpawnersRight

LEMMA RevokeRowSound ==
  ASSUME Sound, NEW p \in Revokers, NEW i \in Instances, NEW t \in Tokens,
         RevokeRow(p, i, t)
  PROVE  Sound'
<1> DEFINE r == [pc |-> "sweep", at |-> i, token |-> t, kids |-> {}]
<1>1. /\ claims[t] # NoClaims
      /\ row' = [row EXCEPT ![t] = IF @ = "live" THEN "revoked" ELSE @]
      /\ revokers' = [revokers EXCEPT ![p] = r]
      /\ UNCHANGED <<now, claims, revokedJTIs, spawners, faults, acked, slipped>>
  BY DEF RevokeRow, Signed
<1>2. /\ r \in [pc : {"sweep", "cascade"}, at : Instances, token : Tokens, kids : SUBSET Tokens]
      /\ r.pc = "sweep" /\ r.token = t /\ r.kids = {}
  OBVIOUS
<1> HIDE DEF r
<1>3. \A u \in Tokens : (row'[u] = "live" => row[u] = "live") /\ (row[u] = "none" <=> row'[u] = "none")
  BY <1>1 DEF Sound, TypeOK
<1>4. row'[t] # "live"
  BY <1>1 DEF Sound, TypeOK
<1>5. TypeOK'
  BY <1>1, <1>2 DEF Sound, TypeOK
<1>6. RowsOfSigned' /\ MemoryInTable'
  BY <1>1, <1>3 DEF Sound, TypeOK, RowsOfSigned, MemoryInTable
<1>7. RevokersRight'
  <2>1. revokers'[p] = r /\ \A q \in Revokers : q # p => revokers'[q] = revokers[q]
    BY <1>1 DEF Sound, TypeOK
  <2>2. \A q \in Revokers : revokers[q].pc # "idle" => revokers[q].token \in Tokens
    BY RevokerTypes DEF Sound
  <2> QED
    BY <1>1, <1>2, <1>3, <1>4, <2>1, <2>2 DEF Sound, RevokersRight, KidsIn
<1>8. AckedRight'
  BY <1>1, <1>3 DEF Sound, TypeOK, AckedRight, KidsIn
<1> QED
  BY <1>1, <1>5, <1>6, <1>7, <1>8, SpawnersStay DEF Sound

LEMMA SweepSound ==
  ASSUME Sound, NEW p \in Revokers, Sweep(p) PROVE Sound'
<1>1. /\ revokers[p] \in [pc : {"sweep", "cascade"}, at : Instances, token : Tokens,
                          kids : SUBSET Tokens]
      /\ revokers[p].pc = "sweep"
      /\ claims[revokers[p].token] # NoClaims /\ row[revokers[p].token] # "live"
  BY RevokerTypes DEF Sweep, Sound, RevokersRight
<1>2. PICK kids \in SUBSET Tokens :
        /\ kids = {} \/ kids = LiveChildren(revokers[p].token)
        /\ revokers' = [revokers EXCEPT ![p].pc = "cascade", ![p].kids = kids]
        /\ slipped' = slipped \cup {c \in Tokens : ChildOf(c, revokers[p].token)
                              /\ c \notin kids \cup revokedJTIs[revokers[p].at]}
        /\ faults' \in 0 .. MaxFaults
  <2>1. LiveChildren(revokers[p].token) \in SUBSET Tokens
    BY DEF LiveChildren
  <2>2. UNCHANGED faults \/ Fault => faults' \in 0 .. MaxFaults
    BY FaultCounts DEF Sound
  <2>3. PICK kids \in {{}, LiveChildren(revokers[p].token)} :
          /\ revokers' = [revokers EXCEPT ![p].pc = "cascade", ![p].kids = kids]
          /\ slipped' = slipped \cup {c \in Tokens : ChildOf(c, revokers[p].token)
                                /\ c \notin kids \cup revokedJTIs[revokers[p].at]}
          /\ UNCHANGED faults \/ Fault
    BY DEF Sweep
  <2> QED
    BY <2>1, <2>2, <2>3
<1>3. UNCHANGED <<now, claims, row, revokedJTIs, spawners, acked>>
  BY DEF Sweep
<1>4. \A c \in kids : c \in Tokens /\ claims[c] # NoClaims
  BY <1>2 DEF LiveChildren, ChildOf, Signed
<1>5. /\ slipped \subseteq slipped' /\ slipped' \in SUBSET Tokens
      /\ \A c \in Tokens : claims[c] # NoClaims /\ claims[c].parent = revokers[p].token
           /\ c \notin slipped' => c \in kids \/ c \in revokedJTIs[revokers[p].at]
  BY <1>2 DEF Sound, TypeOK, ChildOf, Signed
<1>6. /\ revokers'[p] \in [pc : {"sweep", "cascade"}, at : Instances, token : Tokens,
                           kids : SUBSET Tokens]
      /\ revokers'[p].token = revokers[p].token /\ revokers'[p].at = revokers[p].at
      /\ revokers'[p].kids = kids /\ revokers'[p].pc = "cascade"
      /\ \A q \in Revokers : q # p => revokers'[q] = revokers[q]
      /\ revokers' = [revokers EXCEPT ![p] = revokers'[p]]
  <2> DEFINE r == [revokers[p] EXCEPT !.pc = "cascade", !.kids = kids]
  <2>1. revokers' = [revokers EXCEPT ![p] = r]
    BY <1>2 DEF Sound, TypeOK
  <2>2. revokers'[p] = r /\ \A q \in Revokers : q # p => revokers'[q] = revokers[q]
    BY <2>1 DEF Sound, TypeOK
  <2>3. /\ r \in [pc : {"sweep", "cascade"}, at : Instances, token : Tokens,
                  kids : SUBSET Tokens]
        /\ r.token = revokers[p].token /\ r.at = revokers[p].at
        /\ r.kids = kids /\ r.pc = "cascade"
    BY <1>1
  <2> QED
    BY <2>1, <2>2, <2>3
<1>7. TypeOK'
  BY <1>2, <1>3, <1>5, <1>6 DEF Sound, TypeOK
<1>8. RowsOfSigned' /\ MemoryInTable' /\ AckedRight'
  BY <1>3, <1>5 DEF Sound, TypeOK, RowsOfSigned, MemoryInTable, AckedRight, KidsIn
<1>9. RevokersRight'
  BY <1>1, <1>3, <1>4, <1>5, <1>6 DEF Sound, RevokersRight, KidsIn
<1> QED
  BY <1>3, <1>7, <1>8, <1>9, SpawnersStay DEF Sound

LEMMA RevokeChildSound ==
  ASSUME Sound, NEW p \in Revokers, NEW c \in Tokens, RevokeChild(p, c) PROVE Sound'
<1> DEFINE i == revokers[p].at
<1>1. /\ revokers[p] \in [pc : {"sweep", "cascade"}, at : Instances, token : Tokens,
                          kids : SUBSET Tokens]
      /\ revokers[p].pc = "cascade" /\ c \in revokers[p].kids
      /\ claims[c] # NoClaims
      /\ claims[revokers[p].token] # NoClaims /\ row[revokers[p].token] # "live"
      /\ KidsIn(revokers[p].token, i, revokers[p].kids)
  BY RevokerTypes DEF RevokeChild, Sound, RevokersRight
<1>2. /\ slipped \subseteq slipped' /\ slipped' \in SUBSET Tokens
      /\ row' \in [Tokens -> {"none", "live", "revoked"}]
      /\ row'[c] = "live" => c \in slipped'
      /\ \A u \in Tokens : (row'[u] = "live" => row[u] = "live")
                        /\ (row[u] # "none" => row'[u] # "none")
                        /\ (row'[u] # "none" => row[u] # "none" \/ u = c)
      /\ faults' \in 0 .. MaxFaults
  <2>1. CASE row' = [row EXCEPT ![c] = "revoked"] /\ UNCHANGED <<faults, slipped>>
    BY <2>1 DEF Sound, TypeOK
  <2>2. CASE Fault /\ slipped' = slipped \cup {c} /\ UNCHANGED row
    BY <2>2, FaultCounts DEF Sound, TypeOK
  <2> QED
    BY <2>1, <2>2 DEF RevokeChild
<1>3. /\ revokedJTIs' = [revokedJTIs EXCEPT ![i] = @ \cup {c}]
      /\ revokers' = [revokers EXCEPT ![p].kids = @ \ {c}]
      /\ UNCHANGED <<now, claims, spawners, acked>>
  BY DEF RevokeChild
<1>4. /\ revokers'[p] \in [pc : {"sweep", "cascade"}, at : Instances, token : Tokens,
                           kids : SUBSET Tokens]
      /\ revokers'[p].token = revokers[p].token /\ revokers'[p].at = i
      /\ revokers'[p].kids = revokers[p].kids \ {c} /\ revokers'[p].pc = "cascade"
      /\ \A q \in Revokers : q # p => revokers'[q] = revokers[q]
      /\ revokers' = [revokers EXCEPT ![p] = revokers'[p]]
  <2> DEFINE r == [revokers[p] EXCEPT !.kids = @ \ {c}]
  <2>1. revokers' = [revokers EXCEPT ![p] = r]
    BY <1>3 DEF Sound, TypeOK
  <2>2. revokers'[p] = r /\ \A q \in Revokers : q # p => revokers'[q] = revokers[q]
    BY <2>1 DEF Sound, TypeOK
  <2>3. /\ r \in [pc : {"sweep", "cascade"}, at : Instances, token : Tokens,
                  kids : SUBSET Tokens]
        /\ r.token = revokers[p].token /\ r.at = revokers[p].at
        /\ r.kids = revokers[p].kids \ {c} /\ r.pc = "cascade"
    BY <1>1
  <2> QED
    BY <2>1, <2>2, <2>3
<1>5. /\ revokedJTIs' \in [Instances -> SUBSET Tokens] /\ i \in Instances
      /\ \A j \in Instances : revokedJTIs[j] \subseteq revokedJTIs'[j]
      /\ \A j \in Instances : \A u \in revokedJTIs'[j] : u \in revokedJTIs[j] \/ u = c
      /\ c \in revokedJTIs'[i]
  BY <1>1, <1>3 DEF Sound, TypeOK
<1> HIDE DEF i
<1>6. TypeOK'
  BY <1>2, <1>3, <1>4, <1>5 DEF Sound, TypeOK
<1>7. RowsOfSigned'
  BY <1>1, <1>2, <1>3 DEF Sound, RowsOfSigned
<1>8. MemoryInTable'
  BY <1>1, <1>2, <1>3, <1>5 DEF Sound, TypeOK, MemoryInTable
<1>9. RevokersRight'
  <2> SUFFICES ASSUME NEW q \in Revokers, revokers'[q].pc # "idle"
               PROVE  (/\ claims[revokers[q].token] # NoClaims
                       /\ row[revokers[q].token] # "live"
                       /\ \A k \in revokers[q].kids : claims[k] # NoClaims
                       /\ revokers[q].pc = "cascade"
                            => KidsIn(revokers[q].token, revokers[q].at, revokers[q].kids))'
    BY DEF RevokersRight
  <2>0. /\ revokers'[q].pc = revokers[q].pc
        /\ revokers'[q].token = revokers[q].token /\ revokers'[q].at = revokers[q].at
        /\ q # p => revokers'[q].kids = revokers[q].kids
    BY <1>1, <1>4 DEF i
  <2>1. /\ revokers[q].token \in Tokens /\ revokers[q].at \in Instances
        /\ revokers[q].kids \in SUBSET Tokens
    BY <2>0, RevokerTypes DEF Sound
  <2>2. /\ claims[revokers[q].token] # NoClaims /\ row[revokers[q].token] # "live"
        /\ \A k \in revokers[q].kids : claims[k] # NoClaims
        /\ revokers[q].pc = "cascade"
             => KidsIn(revokers[q].token, revokers[q].at, revokers[q].kids)
    BY <2>0 DEF Sound, RevokersRight
  <2> QED
    BY <1>2, <1>3, <1>4, <1>5, <2>0, <2>1, <2>2 DEF KidsIn
<1>10. AckedRight'
  <2>1. \A a \in acked : a[1] \in Instances /\ a[2] \in Tokens
    BY DEF Sound, TypeOK
  <2> QED
    BY <1>2, <1>3, <1>5, <2>1 DEF Sound, AckedRight, KidsIn
<1> QED
  BY <1>3, <1>6, <1>7, <1>8, <1>9, <1>10, SpawnersStay DEF Sound

LEMMA RevokeInMemorySound ==
  ASSUME Sound, NEW p \in Revokers, RevokeInMemory(p) PROVE Sound'
<1> DEFINE i == revokers[p].at
           t == revokers[p].token
<1>1. /\ i \in Instances /\ t \in Tokens
      /\ claims[t] # NoClaims /\ row[t] # "live"
      /\ KidsIn(t, i, {})
  BY RevokerTypes DEF RevokeInMemory, Sound, RevokersRight
<1>2. /\ revokedJTIs' = [revokedJTIs EXCEPT ![i] = @ \cup {t}]
      /\ revokers' = [revokers EXCEPT ![p] = Idle]
      /\ acked' = acked \cup {<<i, t>>}
      /\ UNCHANGED <<now, claims, row, spawners, faults, slipped>>
  BY DEF RevokeInMemory
<1> HIDE DEF i, t
<1>3. /\ revokedJTIs' \in [Instances -> SUBSET Tokens]
      /\ \A j \in Instances : revokedJTIs[j] \subseteq revokedJTIs'[j]
      /\ \A j \in Instances : \A u \in revokedJTIs'[j] : u \in revokedJTIs[j] \/ u = t
      /\ t \in revokedJTIs'[i]
  BY <1>1, <1>2 DEF Sound, TypeOK
<1>4. revokers'[p].pc = "idle" /\ \A q \in Revokers : q # p => revokers'[q] = revokers[q]
  BY <1>2 DEF Sound, TypeOK, Idle
<1>5. TypeOK'
  BY <1>1, <1>2, <1>3 DEF Sound, TypeOK
<1>6. RowsOfSigned' /\ MemoryInTable'
  BY <1>1, <1>2, <1>3 DEF Sound, TypeOK, RowsOfSigned, MemoryInTable
<1>7. RevokersRight'
  <2>1. \A q \in Revokers : revokers[q].pc # "idle" => revokers[q].at \in Instances
    BY RevokerTypes DEF Sound
  <2> QED
    BY <1>2, <1>3, <1>4, <2>1 DEF Sound, RevokersRight, KidsIn
<1>8. AckedRight'
  <2> SUFFICES ASSUME NEW a \in acked'
               PROVE  (/\ claims[a[2]] # NoClaims /\ row[a[2]] # "live"
                       /\ a[2] \in revokedJTIs[a[1]]
                       /\ KidsIn(a[2], a[1], {}))'
    BY DEF AckedRight
  <2>1. CASE a \in acked
    <3>1. a[1] \in Instances /\ a[2] \in Tokens
      BY <2>1 DEF Sound, TypeOK
    <3> QED
      BY <1>2, <1>3, <2>1, <3>1 DEF Sound, AckedRight, KidsIn
  <2>2. CASE a = <<i, t>>
    BY <1>1, <1>2, <1>3, <2>2 DEF KidsIn
  <2> QED
    BY <1>2, <2>1, <2>2
<1> QED
  BY <1>2, <1>5, <1>6, <1>7, <1>8, SpawnersStay DEF Sound

-----------------------------------------------------------------------------
LEMMA RestartSound ==
  ASSUME Sound, NEW i \in Instances, Restart(i) PROVE Sound'
<1>1. /\ revokedJTIs' = [revokedJTIs EXCEPT ![i] = {t \in Tokens : row[t] = "revoked"}]
      /\ spawners' = [p \in Spawners |-> Elsewhere(spawners[p], i)]
      /\ revokers' = [p \in Revokers |-> Elsewhere(revokers[p], i)]
      /\ acked' = {a \in acked : a[1] # i \/ row[a[2]] # "none"}
      /\ UNCHANGED <<now, claims, row, slipped>>
      /\ faults' \in 0 .. MaxFaults
  BY FaultCounts DEF Restart, Sound
<1>2. /\ revokedJTIs' \in [Instances -> SUBSET Tokens]
      /\ revokedJTIs'[i] = {t \in Tokens : row[t] = "revoked"}
      /\ \A j \in Instances : j # i => revokedJTIs'[j] = revokedJTIs[j]
  BY <1>1 DEF Sound, TypeOK
<1>3. \A p \in Spawners : spawners'[p] = Idle \/ spawners'[p] = spawners[p]
  BY <1>1 DEF Elsewhere
<1>4. \A p \in Revokers : \/ revokers'[p] = Idle
                          \/ /\ revokers'[p] = revokers[p]
                             /\ revokers[p].pc # "idle" => revokers[p].at # i
  BY <1>1 DEF Elsewhere
<1>5. TypeOK'
  <2>1. spawners' \in [Spawners -> {Idle} \cup
          [pc : {"cap", "issue"}, at : Instances, parent : Tokens, agent : Agents,
           scopes : SUBSET Scopes, lifetime : Int]]
    BY <1>1, <1>3 DEF Sound, TypeOK
  <2>2. revokers' \in [Revokers -> {Idle} \cup
          [pc : {"sweep", "cascade"}, at : Instances, token : Tokens, kids : SUBSET Tokens]]
    BY <1>1, <1>4 DEF Sound, TypeOK
  <2> QED
    BY <1>1, <1>2, <2>1, <2>2 DEF Sound, TypeOK
<1>6. RowsOfSigned'
  BY <1>1 DEF Sound, RowsOfSigned
<1>7. MemoryInTable'
  BY <1>1, <1>2 DEF Sound, MemoryInTable, RowsOfSigned
<1>8. RevokersRight'
  <2>1. \A q \in Revokers : revokers[q].pc # "idle" => revokers[q].at \in Instances
    BY RevokerTypes DEF Sound
  <2> QED
    BY <1>1, <1>2, <1>4, <2>1 DEF Sound, RevokersRight, KidsIn, Idle
<1>9. AckedRight'
  <2> SUFFICES ASSUME NEW a \in acked, a[1] # i \/ row[a[2]] # "none"
               PROVE  (/\ claims[a[2]] # NoClaims /\ row[a[2]] # "live"
                       /\ a[2] \in revokedJTIs[a[1]]
                       /\ KidsIn(a[2], a[1], {}))'
    BY <1>1 DEF AckedRight
  <2>1. a[1] \in Instances /\ a[2] \in Tokens
    BY DEF Sound, TypeOK
  <2>2. /\ claims[a[2]] # NoClaims /\ row[a[2]] # "live"
        /\ a[2] \in revokedJTIs[a[1]] /\ KidsIn(a[2], a[1], {})
    BY DEF Sound, AckedRight
  <2>3. CASE a[1] # i
    BY <1>1, <1>2, <2>1, <2>2, <2>3 DEF KidsIn
  <2>4. CASE a[1] = i /\ row[a[2]] # "none"
    <3>1. a[2] \in revokedJTIs'[i]
      BY <1>2, <2>1, <2>2, <2>4 DEF Sound, TypeOK
    <3>2. \A c \in Tokens : claims[c] # NoClaims /\ claims[c].parent = a[2] /\ c \notin slipped
            => row[c] = "revoked"
      <4> SUFFICES ASSUME NEW c \in Tokens, claims[c] # NoClaims, claims[c].parent = a[2],
                          c \notin slipped
                   PROVE  row[c] = "revoked"
        OBVIOUS
      <4>1. c \in revokedJTIs[i]
        BY <2>2, <2>4 DEF KidsIn
      <4>2. row[c] # "live"
        BY <4>1 DEF Sound, MemoryInTable
      <4>3. row[c] # "none"
        BY <2>1, AgentTokensAssumption DEF Sound, RowsOfSigned, AgentTokensAssumption
      <4> QED
        BY <4>2, <4>3 DEF Sound, TypeOK
    <3> QED
      BY <1>1, <1>2, <2>2, <2>4, <3>1, <3>2 DEF KidsIn
  <2> QED
    BY <2>3, <2>4, <2>2
<1>10. SpawnersRight'
  BY <1>1, <1>3 DEF Sound, SpawnersRight, Idle
<1> QED
  BY <1>5, <1>6, <1>7, <1>8, <1>9, <1>10 DEF Sound

LEMMA StutterSound == ASSUME Sound, UNCHANGED vars PROVE Sound'
BY DEF vars, Sound, TypeOK, RowsOfSigned, MemoryInTable, RevokersRight, AckedRight,
   SpawnersRight, KidsIn

LEMMA NextSound == ASSUME Sound, [Next]_vars PROVE Sound'
<1>1. ASSUME Issuing PROVE Sound'
  <2>1. ASSUME NEW t \in Tokens, NEW agent \in Agents, NEW scopes \in SUBSET Plain,
               NEW lifetime \in Durations \cup {Never}, Create(t, agent, scopes, lifetime)
        PROVE  Sound'
    <3>1. lifetime \in Nat
      BY AgentTokensAssumption DEF AgentTokensAssumption, Never
    <3> QED
      BY <2>1, <3>1, CreateSound
  <2> QED
    BY <1>1, <2>1, CheckParentSound, CapLifetimeSound, IssueSound, AgentTokensAssumption
    DEF Issuing
<1>2. ASSUME Revoking PROVE Sound'
  BY <1>2, RevokeRowSound, SweepSound, RevokeChildSound, RevokeInMemorySound DEF Revoking
<1> QED
  BY <1>1, <1>2, TickSound, RestartSound, StutterSound DEF Next

(* The inductive invariant holds for ever.                                  *)
THEOREM Invariance == Spec => []Sound
BY InitSound, NextSound, AgentTokensAssumption, PTL DEF Spec

-----------------------------------------------------------------------------
(* Claims, rows, memory and locals keep their types: the handlers of main.go *)
(* and tokens.go never hold anything else.                                  *)
THEOREM TypeInvariant == Spec => []TypeOK
<1>1. Sound => TypeOK
  BY DEF Sound
<1> QED
  BY <1>1, Invariance, PTL

(* DELETE tokens/<id> as validateAgentJWT sees it: the token and its        *)
(* children are refused from the answer on, also after a restart.           *)
THEOREM RevocationsStick == Spec => []RevocationSticks
<1>1. Sound => RevocationSticks
  BY DEF Sound, AckedRight, RevocationSticks, Refused, ChildOf, Signed, TypeOK
<1> QED
  BY <1>1, Invariance, PTL

(* And so are the children of the children its sweep got.                   *)
THEOREM CascadesReach == Spec => []CascadeReaches
<1>1. Sound => CascadeReaches
  BY DEF Sound, AckedRight, KidsIn, CascadeReaches, Refused, ChildOf, Signed
<1> QED
  BY <1>1, Invariance, PTL

(* The cap of tokens/spawn: a child without an expiry has a parent without  *)
(* one, or was issued when its parent's last second had come.               *)
THEOREM CapHolds == Spec => ImmortalOnlyAtDeadline
<1> DEFINE Step ==
      \A c \in Tokens :
        /\ claims[c] = NoClaims /\ claims'[c] # NoClaims
        /\ claims'[c].exp = Never /\ claims'[c].parent # NoParent
        => LET t == claims'[c].parent IN claims[t].exp # Never /\ now >= claims[t].exp
<1>1. ASSUME Sound, [Next]_vars PROVE [Step]_vars
  <2> SUFFICES ASSUME Next, NEW c \in Tokens, claims[c] = NoClaims, claims'[c] # NoClaims,
                      claims'[c].exp = Never, claims'[c].parent # NoParent
               PROVE  /\ claims[claims'[c].parent].exp # Never
                      /\ now >= claims[claims'[c].parent].exp
    BY <1>1
  <2>1. CASE UNCHANGED claims
    BY <2>1
  <2>2. ASSUME NEW t \in Tokens, NEW agent \in Agents, NEW scopes \in SUBSET Plain,
               NEW lifetime \in Durations \cup {Never}, Create(t, agent, scopes, lifetime)
        PROVE  claims'[c].parent = NoParent
    <3>1. claims' = [claims EXCEPT ![t] = Sign(agent, scopes, lifetime, NoParent, 0)]
      BY <2>2 DEF Create
    <3>2. t = c /\ claims'[c] = Sign(agent, scopes, lifetime, NoParent, 0)
      BY <1>1, <3>1 DEF Sound, TypeOK
    <3> QED
      BY <3>2 DEF Sign
  <2>3. ASSUME NEW p \in Spawners, NEW k \in Tokens, Issue(p, k)
        PROVE  /\ claims[claims'[c].parent].exp # Never
               /\ now >= claims[claims'[c].parent].exp
    <3> DEFINE s == spawners[p]
               q == Sign(s.agent, s.scopes, s.lifetime, s.parent, claims[s.parent].depth + 1)
    <3>1. claims' = [claims EXCEPT ![k] = q] /\ s.pc = "issue"
      BY <2>3 DEF Issue
    <3>2. claims'[c] = q
      BY <1>1, <3>1 DEF Sound, TypeOK
    <3>3. s.lifetime \in Int /\ now \in Nat
      BY <1>1, <3>1, SpawnerTypes DEF Sound, TypeOK
    <3>4. q.parent = s.parent /\ (q.exp = Never => s.lifetime <= 0)
      BY <3>3 DEF Sign, Never
    <3> HIDE DEF q
    <3>5. s.lifetime <= 0 /\ claims'[c].parent = s.parent
      BY <3>2, <3>4
    <3> QED
      BY <1>1, <3>1, <3>5 DEF Sound, SpawnersRight
  <2>4. Issuing \/ UNCHANGED claims
    BY DEF Next, Tick, Revoking, RevokeRow, Sweep, RevokeChild, RevokeInMemory, Restart
  <2> QED
    BY <2>1, <2>2, <2>3, <2>4 DEF Issuing, CheckParent, CapLifetime
<1> QED
  BY <1>1, Invariance, PTL DEF Spec, ImmortalOnlyAtDeadline
=============================================================================
