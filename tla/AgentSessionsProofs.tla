------------------------ MODULE AgentSessionsProofs ------------------------
(***************************************************************************)
(* Proofs about AgentSessions.  The registry is complete because handlers  *)
(* that are registered together have overlapped, so that whoever removes   *)
(* the entry of a key removes it from itself or from such a handler.  The  *)
(* maps are one only while nobody has replaced sessionHistory, and a dead  *)
(* process replaces nothing.                                               *)
(***************************************************************************)
EXTENDS AgentSessions, TLAPS

(* Handlers with one key that are registered together have overlapped.      *)
Shared ==
  \A c \in Registered, d \in Registered :
    c # d /\ Key(c) = Key(d) => c \in overlapped

(* sessionHistory is the tenant's map until it is replaced.                 *)
OneMap == history = Tenant <=> ~switched

(* Nothing runs in a dead process.                                          *)
Quiet ==
  proc = "dead" =>
    /\ \A c \in Conns : At(c, "idle")
    /\ \A a \in Killers : killAll[a] = "idle"
    /\ \A t \in Triggers : events[t] = 0
    /\ ~switched

(* The inductive invariant.                                                 *)
Sound == TypeOK /\ RegistryCovers /\ Shared /\ OneMap /\ Quiet

-----------------------------------------------------------------------------
LEMMA NoSessionKnown == NoSession \in Sessions
<1>1. 0 \in 0 .. MaxToolCalls /\ 0 \in 0 .. MaxBlocks
  BY AgentSessionsAssumption DEF AgentSessionsAssumption
<1> QED
  BY <1>1 DEF NoSession, Sessions

LEMMA MapsUpdate ==
  ASSUME TypeOK, NEW m \in {Tenant, Replaced}, NEW k \in Keys, NEW s \in Sessions
  PROVE  /\ maps[m][k] \in Sessions
         /\ [maps EXCEPT ![m][k] = s] \in [{Tenant, Replaced} -> [Keys -> Sessions]]
         /\ [maps EXCEPT ![m][k] = s][m][k] = s
BY DEF TypeOK

LEMMA Known ==
  ASSUME TypeOK, NEW c \in Conns, ~At(c, "idle") PROVE conns[c] \in Handlers
BY DEF TypeOK, At, NoHandler

(* What one handler does between its registration and its end, and before.  *)
LEMMA HandlerMoves ==
  ASSUME Sound, NEW c \in Conns, ~At(c, "idle"), NEW h \in {NoHandler} \cup Handlers,
         conns' = [conns EXCEPT ![c] = h],
         h.pc \in {"serving", "scan", "blocked", "ended"}
           => c \in Registered /\ h.key = Key(c) /\ (h.open => conns[c].open),
         maps' \in [{Tenant, Replaced} -> [Keys -> Sessions]],
         kills' \in [Keys -> [close : Nat, delete : Nat]],
         events' \in [Triggers -> Nat],
         bounds' \in [connects : 0 .. MaxConnects, messages : 0 .. MaxMessages,
                      killAlls : 0 .. MaxKillAlls],
         UNCHANGED <<proc, history, activeWSConns, valid, killAll, repave, overlapped,
                     switched>>
  PROVE  Sound'
<1>1. proc # "dead"
  BY DEF Sound, Quiet
<1>2. conns'[c] = h /\ \A d \in Conns : d # c => conns'[d] = conns[d]
  BY DEF Sound, TypeOK
<1>3. TypeOK'
  BY DEF Sound, TypeOK
<1>4. RegistryCovers' /\ Shared'
  BY <1>2 DEF Sound, RegistryCovers, Shared, Registered, Key
<1> QED
  BY <1>1, <1>3, <1>4 DEF Sound, OneMap, Quiet

(* A step that leaves the handlers and their registry alone.                *)
LEMMA OthersMove ==
  ASSUME Sound, UNCHANGED <<conns, activeWSConns, overlapped>>,
         TypeOK', OneMap', Quiet'
  PROVE  Sound'
BY DEF Sound, RegistryCovers, Shared, Registered, Key

-----------------------------------------------------------------------------
LEMMA InitSound == Init => Sound
<1> SUFFICES ASSUME Init PROVE Sound
  OBVIOUS
<1>1. NoSession \in Sessions
  BY NoSessionKnown
<1>2. TypeOK
  <2>1. maps \in [{Tenant, Replaced} -> [Keys -> Sessions]]
    BY <1>1 DEF Init
  <2>2. conns \in [Conns -> {NoHandler} \cup Handlers]
        /\ activeWSConns \in [Keys -> Conns \cup {NoConn}]
    BY DEF Init
  <2>3. /\ kills \in [Keys -> [close : Nat, delete : Nat]]
        /\ killAll \in [Killers -> {"idle", "close", "replace"}]
        /\ events \in [Triggers -> Nat]
        /\ repave \in [log : [Triggers -> Nat], fired : BOOLEAN]
    BY DEF Init
  <2>4. bounds \in [connects : 0 .. MaxConnects, messages : 0 .. MaxMessages,
                    killAlls : 0 .. MaxKillAlls]
    <3>1. 0 \in 0 .. MaxConnects /\ 0 \in 0 .. MaxMessages /\ 0 \in 0 .. MaxKillAlls
      BY AgentSessionsAssumption DEF AgentSessionsAssumption
    <3> QED
      BY <3>1 DEF Init
  <2> QED
    BY <2>1, <2>2, <2>3, <2>4 DEF Init, TypeOK
<1>3. Registered = {}
  BY DEF Init, Registered, NoHandler
<1> QED
  BY <1>2, <1>3 DEF Init, Sound, RegistryCovers, Shared, OneMap, Quiet

LEMMA ArriveSound ==
  ASSUME Sound, NEW c \in Conns, NEW k \in Keys, Arrive(c, k) PROVE Sound'
<1> DEFINE h == [NoHandler EXCEPT !.pc = "request", !.key = k]
<1>1. h \in Handlers /\ h.pc = "request"
  BY DEF NoHandler, Handlers
<1>2. conns' = [conns EXCEPT ![c] = h] /\ proc = "up"
      /\ overlapped' = overlapped \ {c}
      /\ UNCHANGED <<proc, activeWSConns, sessionVars, killVars, repaveVars>>
  BY DEF Arrive
<1>3. bounds' \in [connects : 0 .. MaxConnects, messages : 0 .. MaxMessages,
                   killAlls : 0 .. MaxKillAlls]
  BY AgentSessionsAssumption DEF Arrive, Sound, TypeOK, AgentSessionsAssumption
<1> HIDE DEF h
<1>4. TypeOK'
  BY <1>1, <1>2, <1>3 DEF Sound, TypeOK, sessionVars, killVars, repaveVars
<1>5. conns'[c] = h /\ \A d \in Conns : d # c => conns'[d] = conns[d]
  BY <1>2 DEF Sound, TypeOK
<1>6. RegistryCovers' /\ Shared'
  BY <1>1, <1>2, <1>5 DEF Sound, RegistryCovers, Shared, Registered, Key
<1> QED
  BY <1>2, <1>4, <1>6 DEF Sound, OneMap, Quiet, sessionVars, killVars, repaveVars

LEMMA StoreSound ==
  ASSUME Sound, NEW c \in Conns, StoreAgentScopes(c) PROVE Sound'
<1>1. conns[c] \in Handlers /\ ~At(c, "idle")
      /\ UNCHANGED <<proc, history, activeWSConns, valid, killAll, repave, overlapped,
                     switched, kills, events, bounds>>
  BY Known DEF Sound, StoreAgentScopes, At, killVars, repaveVars
<1>2. maps' \in [{Tenant, Replaced} -> [Keys -> Sessions]]
  <2> DEFINE k == Key(c)
             s == [maps[Tenant][k] EXCEPT !.live = TRUE, !.scoped = TRUE]
  <2>1. k \in Keys
    BY <1>1 DEF Key, Handlers
  <2>2. maps[Tenant][k] \in Sessions
    BY <2>1 DEF Sound, TypeOK
  <2>3. s \in Sessions
    BY <2>2 DEF Sessions
  <2>4. CASE k \in valid
    <3>1. maps' = [maps EXCEPT ![Tenant][k].live = TRUE, ![Tenant][k].scoped = TRUE]
      BY <2>4 DEF StoreAgentScopes
    <3>2. maps' = [maps EXCEPT ![Tenant][k] = s]
      BY <2>1, <2>2, <3>1 DEF Sound, TypeOK
    <3> HIDE DEF s
    <3> QED
      BY <2>1, <2>3, <3>2, MapsUpdate DEF Sound
  <2>5. CASE k \notin valid
    BY <2>5 DEF StoreAgentScopes, Sound, TypeOK
  <2> QED
    BY <2>4, <2>5
<1>3. PICK h \in {NoHandler} \cup Handlers :
        conns' = [conns EXCEPT ![c] = h]
        /\ h.pc \notin {"serving", "scan", "blocked", "ended"}
  <2>1. CASE conns' = [conns EXCEPT ![c].pc = "upgraded", ![c].open = TRUE]
    <3> DEFINE h == [conns[c] EXCEPT !.pc = "upgraded", !.open = TRUE]
    <3>1. conns' = [conns EXCEPT ![c] = h]
      BY <2>1 DEF Sound, TypeOK
    <3>2. h \in Handlers /\ h.pc = "upgraded"
      BY <1>1 DEF Handlers
    <3> QED
      BY <3>1, <3>2
  <2>2. CASE conns' = [conns EXCEPT ![c] = NoHandler]
    <3>1. NoHandler.pc = "idle"
      BY DEF NoHandler
    <3> QED
      BY <2>2, <3>1
  <2>3. CASE Goto(c, "ready")
    <3> DEFINE h == [conns[c] EXCEPT !.pc = "ready"]
    <3>1. conns' = [conns EXCEPT ![c] = h]
      BY <2>3 DEF Goto, Sound, TypeOK
    <3>2. h \in Handlers /\ h.pc = "ready"
      BY <1>1 DEF Handlers
    <3> QED
      BY <3>1, <3>2
  <2> QED
    BY <2>1, <2>2, <2>3 DEF StoreAgentScopes, Upgrade
<1> QED
  BY <1>1, <1>2, <1>3, HandlerMoves DEF Sound, TypeOK

LEMMA GotoStep ==
  ASSUME TypeOK, NEW c \in Conns, ~At(c, "idle"),
         NEW pc \in {"ready", "serving", "scan", "blocked", "ended"}, Goto(c, pc)
  PROVE  \E h \in Handlers : /\ conns' = [conns EXCEPT ![c] = h]
                             /\ h.key = Key(c) /\ h.open = conns[c].open
<1> DEFINE h == [conns[c] EXCEPT !.pc = pc]
<1>1. conns' = [conns EXCEPT ![c] = h]
  BY DEF Goto, TypeOK
<1>2. conns[c] \in Handlers
  BY Known
<1>3. h \in Handlers /\ h.key = Key(c) /\ h.open = conns[c].open
  BY <1>2 DEF Handlers, Key
<1> QED
  BY <1>1, <1>3

(* A registered handler goes on with the same key; maps, kills, events and  *)
(* bounds move within their types.                                          *)
LEMMA ServingMoves ==
  ASSUME Sound, NEW c \in Registered,
         \E h \in Handlers : /\ conns' = [conns EXCEPT ![c] = h]
                             /\ h.key = Key(c) /\ (h.open => conns[c].open),
         maps' \in [{Tenant, Replaced} -> [Keys -> Sessions]],
         kills' \in [Keys -> [close : Nat, delete : Nat]],
         events' \in [Triggers -> Nat],
         bounds' \in [connects : 0 .. MaxConnects, messages : 0 .. MaxMessages,
                      killAlls : 0 .. MaxKillAlls],
         UNCHANGED <<proc, history, activeWSConns, valid, killAll, repave, overlapped,
                     switched>>
  PROVE  Sound'
<1>1. c \in Conns /\ ~At(c, "idle")
  BY DEF Registered, At
<1> QED
  BY <1>1, HandlerMoves

(* A registered handler only goes to another step.                          *)
LEMMA OnlyGoto ==
  ASSUME Sound, NEW c \in Registered, NEW pc \in {"serving", "scan", "blocked", "ended"},
         Goto(c, pc), events' \in [Triggers -> Nat],
         bounds' \in [connects : 0 .. MaxConnects, messages : 0 .. MaxMessages,
                      killAlls : 0 .. MaxKillAlls],
         UNCHANGED <<proc, activeWSConns, overlapped, sessionVars, killVars, repave>>
  PROVE  Sound'
<1>1. c \in Conns /\ ~At(c, "idle")
  BY DEF Registered, At
<1>2. \E h \in Handlers : /\ conns' = [conns EXCEPT ![c] = h]
                          /\ h.key = Key(c) /\ (h.open => conns[c].open)
  BY <1>1, GotoStep DEF Sound
<1> QED
  BY <1>2, ServingMoves DEF Sound, TypeOK, sessionVars, killVars

LEMMA RegisterSound ==
  ASSUME Sound, NEW c \in Conns, Register(c) PROVE Sound'
<1> DEFINE others == {d \in Registered \ {c} : Key(d) = Key(c)}
<1>1. /\ At(c, "ready") /\ Goto(c, "serving") /\ ~At(c, "idle")
      /\ activeWSConns' = [activeWSConns EXCEPT ![Key(c)] = c]
      /\ overlapped' = IF others = {} THEN overlapped ELSE overlapped \cup others \cup {c}
      /\ UNCHANGED <<proc, bounds, sessionVars, killVars, repaveVars>>
  BY DEF Register, At
<1>2. PICK h \in Handlers : conns' = [conns EXCEPT ![c] = h]
                            /\ h.key = Key(c) /\ h.open = conns[c].open
  BY <1>1, GotoStep DEF Sound
<1>3. Key(c) \in Keys
  BY <1>1, Known DEF Sound, Key, Handlers
<1>4. conns'[c] = h /\ \A d \in Conns : d # c => conns'[d] = conns[d]
  BY <1>2 DEF Sound, TypeOK
<1>5. others \subseteq Conns /\ \A d \in Registered : d # c /\ Key(d) = Key(c) <=> d \in others
  BY DEF Registered
<1>6. Registered' \subseteq Registered \cup {c}
  BY <1>4 DEF Registered
<1>7. \A d \in Registered : Key(d)' = Key(d) \/ d = c
  BY <1>4 DEF Registered, Key
<1>8. Key(c)' = Key(c)
  BY <1>2, <1>4 DEF Key
<1>9. TypeOK'
  BY <1>1, <1>2, <1>3, <1>5 DEF Sound, TypeOK, sessionVars, killVars, repaveVars
<1>10. /\ overlapped \subseteq overlapped' /\ others \subseteq overlapped'
       /\ others # {} => c \in overlapped'
  BY <1>1
<1> HIDE DEF others
<1>11. Shared'
  <2> SUFFICES ASSUME NEW d \in Registered', NEW e \in Registered', d # e, Key(d)' = Key(e)'
               PROVE  d \in overlapped'
    BY DEF Shared
  <2>1. CASE d # c /\ e # c
    BY <1>6, <1>7, <1>10, <2>1 DEF Sound, Shared
  <2>2. CASE d = c
    <3>1. e \in others
      BY <1>5, <1>6, <1>7, <1>8, <2>2
    <3> QED
      BY <1>10, <2>2, <3>1
  <2>3. CASE e = c
    <3>1. d \in others
      BY <1>5, <1>6, <1>7, <1>8, <2>3
    <3> QED
      BY <1>10, <3>1
  <2> QED
    BY <2>1, <2>2, <2>3
<1>12. RegistryCovers'
  <2> SUFFICES ASSUME NEW d \in Registered', d \notin overlapped', conns'[d].open
               PROVE  activeWSConns'[Key(d)'] = d
    BY DEF RegistryCovers, Key
  <2>1. CASE d = c
    BY <1>1, <1>3, <1>8, <2>1 DEF Sound, TypeOK
  <2>2. CASE d # c
    <3>1. d \in Registered /\ d \notin overlapped /\ conns[d].open /\ Key(d)' = Key(d)
      BY <1>4, <1>6, <1>7, <1>10, <2>2 DEF Registered
    <3>2. Key(d) # Key(c)
      BY <1>5, <1>10, <2>2, <3>1
    <3>3. activeWSConns[Key(d)] = d
      BY <3>1 DEF Sound, RegistryCovers
    <3>4. Key(d) \in Keys
      BY <3>1, Known DEF Registered, At, Key, Handlers, Sound
    <3> QED
      BY <1>1, <3>1, <3>2, <3>3, <3>4 DEF Sound, TypeOK
  <2> QED
    BY <2>1, <2>2
<1>13. proc # "dead"
  BY <1>1 DEF Sound, Quiet
<1> QED
  BY <1>1, <1>9, <1>11, <1>12, <1>13 DEF Sound, OneMap, Quiet, sessionVars, killVars

LEMMA DeregisterSound ==
  ASSUME Sound, NEW c \in Conns, Deregister(c) PROVE Sound'
<1>1. /\ c \in Registered /\ ~At(c, "idle")
      /\ activeWSConns' = [activeWSConns EXCEPT ![Key(c)] = NoConn]
      /\ conns' = [conns EXCEPT ![c] = NoHandler]
      /\ UNCHANGED <<proc, bounds, overlapped, sessionVars, killVars, repaveVars>>
  BY DEF Deregister, At, Registered
<1>2. conns'[c].pc = "idle" /\ \A d \in Conns : d # c => conns'[d] = conns[d]
  BY <1>1 DEF Sound, TypeOK, NoHandler
<1>3. TypeOK'
  BY <1>1 DEF Sound, TypeOK, sessionVars, killVars, repaveVars
<1>4. Registered' \subseteq Registered \ {c}
  BY <1>2 DEF Registered
<1>5. Shared'
  BY <1>1, <1>2, <1>4 DEF Sound, Shared, Key, Registered
<1>6. RegistryCovers'
  <2> SUFFICES ASSUME NEW d \in Registered', d \notin overlapped, conns'[d].open
               PROVE  activeWSConns'[Key(d)'] = d
    BY <1>1 DEF RegistryCovers, Key
  <2>1. d \in Registered /\ d # c /\ conns'[d] = conns[d]
    BY <1>2, <1>4 DEF Registered
  <2>2. Key(d) # Key(c) /\ activeWSConns[Key(d)] = d
    BY <1>1, <2>1 DEF Sound, Shared, RegistryCovers
  <2>3. Key(d) \in Keys
    BY <2>1, Known DEF Registered, At, Key, Handlers, Sound
  <2> QED
    BY <1>1, <2>1, <2>2, <2>3 DEF Sound, TypeOK, Key
<1>7. proc # "dead"
  BY <1>1 DEF Sound, Quiet
<1> QED
  BY <1>1, <1>3, <1>5, <1>6, <1>7 DEF Sound, OneMap, Quiet, sessionVars, killVars

-----------------------------------------------------------------------------
LEMMA ClientSound ==
  ASSUME Sound, NEW c \in Conns, ClientCloses(c) \/ ReadMessage(c) PROVE Sound'
<1>1. CASE ClientCloses(c)
  <2> DEFINE h == [conns[c] EXCEPT !.open = FALSE]
  <2>1. /\ conns[c].open /\ conns' = [conns EXCEPT ![c] = h]
        /\ UNCHANGED <<proc, activeWSConns, bounds, overlapped, sessionVars, killVars,
                       repaveVars>>
    BY <1>1 DEF ClientCloses, Sound, TypeOK
  <2>2. conns[c] \in Handlers /\ ~At(c, "idle")
    BY <2>1 DEF Sound, TypeOK, NoHandler, Handlers, At
  <2>3. h \in Handlers /\ h.pc = conns[c].pc /\ h.key = Key(c) /\ ~h.open
    BY <2>2 DEF Handlers, Key
  <2> HIDE DEF h
  <2> QED
    BY <2>1, <2>2, <2>3, HandlerMoves
    DEF Sound, TypeOK, Registered, sessionVars, killVars, repaveVars
<1>2. CASE ReadMessage(c)
  <2>1. bounds' \in [connects : 0 .. MaxConnects, messages : 0 .. MaxMessages,
                     killAlls : 0 .. MaxKillAlls]
    BY <1>2, AgentSessionsAssumption
    DEF ReadMessage, Sound, TypeOK, AgentSessionsAssumption
  <2>2. c \in Registered
    BY <1>2 DEF ReadMessage, At, Registered
  <2> QED
    BY <1>2, <2>1, <2>2, OnlyGoto DEF ReadMessage, Sound, TypeOK, repaveVars
<1> QED
  BY <1>1, <1>2

LEMMA ScanSound ==
  ASSUME Sound, NEW c \in Conns, LimitRate(c) \/ ScanText(c) \/ ScanCanary(c) PROVE Sound'
<1>1. c \in Registered
  BY DEF LimitRate, ScanText, ScanCanary, At, Registered
<1>2. PICK pc \in {"serving", "blocked", "ended"} : Goto(c, pc)
  BY DEF LimitRate, ScanText, ScanCanary, PassOn
<1>3. events' \in [Triggers -> Nat]
  BY DEF LimitRate, ScanText, ScanCanary, Sound, TypeOK, repaveVars
<1>4. UNCHANGED <<proc, activeWSConns, overlapped, sessionVars, killVars, repave, bounds>>
  BY DEF LimitRate, ScanText, ScanCanary, repaveVars
<1> QED
  BY <1>1, <1>2, <1>3, <1>4, OnlyGoto DEF Sound, TypeOK

(* A handler's own record with some fields changed, the key kept.           *)
LEMMA CappedStep ==
  ASSUME TypeOK, NEW c \in Conns, ~At(c, "idle"), NEW pc \in {"serving", "blocked"},
         NEW capped \in BOOLEAN,
         conns' = [conns EXCEPT ![c].pc = pc, ![c].capped = capped]
  PROVE  \E h \in Handlers : /\ conns' = [conns EXCEPT ![c] = h]
                             /\ h.key = Key(c) /\ h.open = conns[c].open
<1> DEFINE h == [conns[c] EXCEPT !.pc = pc, !.capped = capped]
<1>1. conns' = [conns EXCEPT ![c] = h]
  BY DEF TypeOK
<1>2. conns[c] \in Handlers
  BY Known
<1>3. h \in Handlers /\ h.key = Key(c) /\ h.open = conns[c].open
  BY <1>2 DEF Handlers, Key
<1> QED
  BY <1>1, <1>3

LEMMA MoreKills ==
  ASSUME TypeOK, NEW k \in Keys
  PROVE  [kills EXCEPT ![k].close = @ + 1] \in [Keys -> [close : Nat, delete : Nat]]
BY DEF TypeOK

LEMMA ScanCallSound ==
  ASSUME Sound, NEW c \in Conns, ScanCall(c) PROVE Sound'
<1> DEFINE k == Key(c)
           s == Called(Session(k))
<1>1. c \in Registered /\ ~At(c, "idle")
  BY DEF ScanCall, At, Registered
<1>2. k \in Keys /\ history \in {Tenant, Replaced}
  BY <1>1, Known DEF Sound, TypeOK, Key, Handlers
<1>3. s \in Sessions
  <2>1. Session(k) \in Sessions
    BY <1>2, MapsUpdate DEF Session, Sound, TypeOK
  <2>2. Least(Session(k).calls + 1, MaxToolCalls) \in 0 .. MaxToolCalls
    BY <2>1, AgentSessionsAssumption DEF Least, Sessions, AgentSessionsAssumption
  <2> QED
    BY <2>1, <2>2 DEF Called, Sessions
<1>4. maps' \in [{Tenant, Replaced} -> [Keys -> Sessions]]
  <2> HIDE DEF s
  <2>1. \/ maps' = [maps EXCEPT ![history][k] = s]
        \/ maps' = [maps EXCEPT ![history][k] = NoSession]
    BY DEF ScanCall, s
  <2> QED
    BY <1>2, <1>3, <2>1, MapsUpdate, NoSessionKnown DEF Sound
<1>5. \E h \in Handlers : /\ conns' = [conns EXCEPT ![c] = h]
                          /\ h.key = Key(c) /\ h.open = conns[c].open
  <2>1. \/ Goto(c, "serving") \/ Goto(c, "ended") \/ Goto(c, "blocked")
        \/ conns' = [conns EXCEPT ![c].pc = "blocked", ![c].capped = TRUE]
    BY DEF ScanCall, PassOn
  <2> QED
    BY <1>1, <2>1, GotoStep, CappedStep DEF Sound
<1>6. kills' \in [Keys -> [close : Nat, delete : Nat]]
  <2>1. kills' = [kills EXCEPT ![k].close = @ + 1] \/ kills' = kills
    BY DEF ScanCall
  <2>2. kills \in [Keys -> [close : Nat, delete : Nat]]
    BY DEF Sound, TypeOK
  <2> HIDE DEF k
  <2> QED
    BY <1>2, <2>1, <2>2, MoreKills DEF Sound
<1>7. events' \in [Triggers -> Nat]
  <2>1. events' = events \/ \E t \in Triggers : events' = [events EXCEPT ![t] = @ + 1]
    BY DEF ScanCall
  <2>2. events \in [Triggers -> Nat]
    BY DEF Sound, TypeOK
  <2> QED
    BY <2>1, <2>2
<1>8. UNCHANGED <<proc, history, activeWSConns, valid, killAll, repave, bounds, overlapped,
                  switched>>
  BY DEF ScanCall
<1> QED
  BY <1>1, <1>4, <1>5, <1>6, <1>7, <1>8, ServingMoves DEF Sound, TypeOK

LEMMA CountBlockSound ==
  ASSUME Sound, NEW c \in Conns, CountBlock(c) PROVE Sound'
<1> DEFINE k == Key(c)
           n == Least(Session(k).blocks + 1, MaxBlocks)
           s == [Session(k) EXCEPT !.blocks = n]
<1>1. c \in Registered /\ ~At(c, "idle")
  BY DEF CountBlock, At, Registered
<1>2. k \in Keys /\ history \in {Tenant, Replaced} /\ conns[c].capped \in BOOLEAN
  BY <1>1, Known DEF Sound, TypeOK, Key, Handlers
<1>3. Session(k) \in Sessions
  BY <1>2, MapsUpdate DEF Session, Sound, TypeOK
<1>4. n \in 0 .. MaxBlocks
  BY <1>3, AgentSessionsAssumption DEF Least, Sessions, AgentSessionsAssumption
<1>5. s \in Sessions
  BY <1>3, <1>4 DEF Sessions
<1>6. \/ /\ maps' = [maps EXCEPT ![history][k].blocks = n]
         /\ conns' = [conns EXCEPT ![c].pc = "serving",
                                   ![c].capped = @ \/ n = MaxBlocks]
      \/ Goto(c, "serving") /\ UNCHANGED maps
  BY DEF CountBlock
<1>7. /\ kills' = [kills EXCEPT ![k].close = @ + 1] \/ kills' = kills
      /\ UNCHANGED <<proc, history, activeWSConns, valid, killAll, repaveVars, bounds,
                     overlapped, switched>>
  BY DEF CountBlock
<1> HIDE DEF n
<1>8. maps' \in [{Tenant, Replaced} -> [Keys -> Sessions]]
  <2>1. CASE maps' = [maps EXCEPT ![history][k].blocks = n]
    <3>1. maps' = [maps EXCEPT ![history][k] = s]
      BY <1>2, <2>1 DEF Session, Sound, TypeOK
    <3> HIDE DEF s
    <3> QED
      BY <1>2, <1>5, <3>1, MapsUpdate DEF Sound
  <2> QED
    BY <1>6, <2>1 DEF Sound, TypeOK
<1>9. \E h \in Handlers : /\ conns' = [conns EXCEPT ![c] = h]
                          /\ h.key = Key(c) /\ h.open = conns[c].open
  <2>1. CASE conns' = [conns EXCEPT ![c].pc = "serving", ![c].capped = @ \/ n = MaxBlocks]
    <3> DEFINE b == conns[c].capped \/ n = MaxBlocks
    <3>1. conns' = [conns EXCEPT ![c].pc = "serving", ![c].capped = b]
      BY <1>1, <2>1 DEF Registered, Sound, TypeOK
    <3>2. b \in BOOLEAN
      BY <1>2
    <3> HIDE DEF b
    <3> QED
      BY <1>1, <3>1, <3>2, CappedStep DEF Sound
  <2> QED
    BY <1>1, <1>6, <2>1, GotoStep DEF Sound
<1>10. kills' \in [Keys -> [close : Nat, delete : Nat]]
  BY <1>2, <1>7, MoreKills DEF Sound, TypeOK
<1> QED
  BY <1>1, <1>7, <1>8, <1>9, <1>10, ServingMoves DEF Sound, TypeOK, repaveVars

-----------------------------------------------------------------------------
(* Connections that are closed: nobody is registered or loses its place who *)
(* is not closed.                                                           *)
LEMMA CloseMoves ==
  ASSUME Sound, NEW S, Close(S),
         activeWSConns' \in [Keys -> Conns \cup {NoConn}],
         \A k \in Keys : activeWSConns'[k] = activeWSConns[k] \/ activeWSConns[k] \in S,
         kills' \in [Keys -> [close : Nat, delete : Nat]],
         killAll' \in [Killers -> {"idle", "close", "replace"}],
         proc = "dead" => UNCHANGED killAll,
         UNCHANGED <<proc, bounds, overlapped, switched, sessionVars, repaveVars>>
  PROVE  Sound'
<1>1. \A c \in Conns : /\ conns'[c].pc = conns[c].pc /\ conns'[c].key = conns[c].key
                       /\ conns'[c].open => conns[c].open /\ c \notin S
                       /\ conns'[c] \in {NoHandler} \cup Handlers
  <2> SUFFICES ASSUME NEW c \in Conns
               PROVE  /\ conns'[c].pc = conns[c].pc /\ conns'[c].key = conns[c].key
                      /\ conns'[c].open => conns[c].open /\ c \notin S
                      /\ conns'[c] \in {NoHandler} \cup Handlers
    OBVIOUS
  <2>1. conns'[c] = IF c \in S THEN [conns[c] EXCEPT !.open = FALSE] ELSE conns[c]
    BY DEF Close
  <2>2. CASE conns[c] = NoHandler
    <3> DEFINE Records == [pc : {"idle"}, key : {"none"}, open : {FALSE}, capped : {FALSE}]
    <3>0. NoHandler \in Records
      BY DEF NoHandler
    <3>1. \A r \in Records : ~r.open /\ [r EXCEPT !.open = FALSE] = r
      OBVIOUS
    <3>2. [NoHandler EXCEPT !.open = FALSE] = NoHandler /\ ~NoHandler.open
      BY <3>0, <3>1
    <3>3. conns'[c] = NoHandler
      BY <2>1, <2>2, <3>2
    <3> QED
      BY <2>2, <3>2, <3>3
  <2>3. CASE conns[c] \in Handlers
    BY <2>1, <2>3 DEF Handlers
  <2> QED
    BY <2>2, <2>3 DEF Sound, TypeOK
<1>2. conns' \in [Conns -> {NoHandler} \cup Handlers]
  <2>1. conns' = [c \in Conns |-> conns'[c]]
    BY DEF Close
  <2> QED
    BY <1>1, <2>1
<1>3. TypeOK'
  BY <1>2 DEF Sound, TypeOK, sessionVars, repaveVars
<1>4. Registered' = Registered /\ \A c \in Conns : Key(c)' = Key(c)
  BY <1>1 DEF Registered, Key
<1>5. Shared'
  BY <1>4 DEF Sound, Shared, Registered
<1>6. RegistryCovers'
  <2> SUFFICES ASSUME NEW c \in Registered, c \notin overlapped, conns'[c].open
               PROVE  activeWSConns'[Key(c)] = c
    BY <1>4 DEF RegistryCovers, Registered
  <2>1. conns[c].open /\ c \notin S
    BY <1>1 DEF Registered
  <2>2. activeWSConns[Key(c)] = c
    BY <2>1 DEF Sound, RegistryCovers
  <2>3. Key(c) \in Keys
    BY Known DEF Sound, Registered, At, Key, Handlers
  <2> QED
    BY <2>1, <2>2, <2>3
<1>7. Quiet'
  BY <1>1 DEF Sound, Quiet, At, repaveVars
<1> QED
  BY <1>3, <1>5, <1>6, <1>7 DEF Sound, OneMap, sessionVars

LEMMA KillCloseSound ==
  ASSUME Sound, NEW k \in Keys, KillClose(k) PROVE Sound'
<1>1. /\ Close({activeWSConns[k]})
      /\ activeWSConns' = [activeWSConns EXCEPT ![k] = NoConn]
      /\ kills[k].close > 0
      /\ kills' = [kills EXCEPT ![k].close = @ - 1, ![k].delete = @ + 1]
      /\ UNCHANGED <<proc, killAll, bounds, overlapped, switched, sessionVars, repaveVars>>
  BY DEF KillClose
<1>2. /\ activeWSConns' \in [Keys -> Conns \cup {NoConn}]
      /\ \A j \in Keys : activeWSConns'[j] = activeWSConns[j]
                         \/ activeWSConns[j] \in {activeWSConns[k]}
  BY <1>1 DEF Sound, TypeOK
<1>3. kills' \in [Keys -> [close : Nat, delete : Nat]]
  BY <1>1 DEF Sound, TypeOK
<1>4. killAll' \in [Killers -> {"idle", "close", "replace"}]
  BY <1>1 DEF Sound, TypeOK
<1> QED
  BY <1>1, <1>2, <1>3, <1>4, CloseMoves

LEMMA KillAllCloseSound ==
  ASSUME Sound, NEW a \in Killers, KillAllClose(a) PROVE Sound'
<1> DEFINE S == {activeWSConns[k] : k \in Keys}
<1>1. /\ Close(S) /\ killAll[a] = "close"
      /\ activeWSConns' = [k \in Keys |-> NoConn]
      /\ killAll' = [killAll EXCEPT ![a] = "replace"]
      /\ UNCHANGED <<proc, kills, bounds, overlapped, switched, sessionVars, repaveVars>>
  BY DEF KillAllClose
<1>2. /\ activeWSConns' \in [Keys -> Conns \cup {NoConn}]
      /\ \A k \in Keys : activeWSConns[k] \in S
      /\ kills' \in [Keys -> [close : Nat, delete : Nat]]
      /\ killAll' \in [Killers -> {"idle", "close", "replace"}]
  BY <1>1 DEF Sound, TypeOK
<1>3. proc # "dead"
  BY <1>1 DEF Sound, Quiet
<1> HIDE DEF S
<1> QED
  BY <1>1, <1>2, <1>3, CloseMoves

(* A step of killSession, of the ticker or of time on the sessions only.    *)
LEMMA MapMoves ==
  ASSUME Sound, maps' \in [{Tenant, Replaced} -> [Keys -> Sessions]],
         kills' \in [Keys -> [close : Nat, delete : Nat]], valid' \subseteq Keys,
         UNCHANGED <<proc, history, conns, activeWSConns, killAll, bounds, overlapped,
                     switched, repaveVars>>
  PROVE  Sound'
<1>1. TypeOK'
  BY DEF Sound, TypeOK, repaveVars
<1>2. OneMap' /\ Quiet'
  BY DEF Sound, OneMap, Quiet, At, repaveVars
<1> QED
  BY <1>1, <1>2, OthersMove

LEMMA KillDeleteSound ==
  ASSUME Sound, NEW k \in Keys, KillDelete(k) PROVE Sound'
<1>1. maps' \in [{Tenant, Replaced} -> [Keys -> Sessions]]
  <2>1. maps' = [maps EXCEPT ![history][k] = NoSession] /\ history \in {Tenant, Replaced}
    BY DEF KillDelete, Sound, TypeOK
  <2> QED
    BY <2>1, MapsUpdate, NoSessionKnown DEF Sound
<1>2. kills' \in [Keys -> [close : Nat, delete : Nat]]
  BY DEF KillDelete, Sound, TypeOK
<1>3. valid' \subseteq Keys
  BY DEF KillDelete, Sound, TypeOK
<1> QED
  BY <1>1, <1>2, <1>3, MapMoves DEF KillDelete

LEMMA CleanupSound ==
  ASSUME Sound, CleanupSessionHistory PROVE Sound'
<1>1. maps' \in [{Tenant, Replaced} -> [Keys -> Sessions]]
  <2> DEFINE f == [k \in Keys |-> IF maps[history][k].recent THEN maps[history][k]
                                  ELSE NoSession]
  <2>1. history \in {Tenant, Replaced} /\ \A k \in Keys : maps[history][k] \in Sessions
    BY MapsUpdate DEF Sound, TypeOK
  <2>2. f \in [Keys -> Sessions]
    BY <2>1, NoSessionKnown
  <2>3. maps' = [maps EXCEPT ![history] = f]
    BY <2>1 DEF CleanupSessionHistory, Sound, TypeOK
  <2> HIDE DEF f
  <2> QED
    BY <2>1, <2>2, <2>3 DEF Sound, TypeOK
<1>2. kills' \in [Keys -> [close : Nat, delete : Nat]] /\ valid' \subseteq Keys
  BY DEF CleanupSessionHistory, killVars, Sound, TypeOK
<1> QED
  BY <1>1, <1>2, MapMoves DEF CleanupSessionHistory, killVars

LEMMA IdlesSound ==
  ASSUME Sound, NEW k \in Keys, Idles(k) PROVE Sound'
<1>1. maps' \in [{Tenant, Replaced} -> [Keys -> Sessions]]
  <2> DEFINE s == [maps[history][k] EXCEPT !.recent = FALSE]
  <2>1. history \in {Tenant, Replaced} /\ maps[history][k] \in Sessions
    BY MapsUpdate DEF Sound, TypeOK
  <2>2. s \in Sessions
    BY <2>1 DEF Sessions
  <2>3. maps' = [maps EXCEPT ![history][k] = s]
    BY <2>1 DEF Idles, Sound, TypeOK
  <2> HIDE DEF s
  <2> QED
    BY <2>1, <2>2, <2>3, MapsUpdate DEF Sound
<1>2. kills' \in [Keys -> [close : Nat, delete : Nat]] /\ valid' \subseteq Keys
  BY DEF Idles, killVars, Sound, TypeOK
<1> QED
  BY <1>1, <1>2, MapMoves DEF Idles, killVars

LEMMA TokenEndsSound ==
  ASSUME Sound, NEW k \in Keys, TokenEnds(k) PROVE Sound'
<1>1. maps' \in [{Tenant, Replaced} -> [Keys -> Sessions]]
      /\ kills' \in [Keys -> [close : Nat, delete : Nat]] /\ valid' \subseteq Keys
  BY DEF TokenEnds, killVars, Sound, TypeOK
<1> QED
  BY <1>1, MapMoves DEF TokenEnds, killVars

LEMMA KillAllReplaceSound ==
  ASSUME Sound, NEW a \in Killers, KillAllReplace(a) PROVE Sound'
<1>1. maps' \in [{Tenant, Replaced} -> [Keys -> Sessions]]
  <2>1. [k \in Keys |-> NoSession] \in [Keys -> Sessions]
    BY NoSessionKnown
  <2> QED
    BY <2>1 DEF KillAllReplace, Sound, TypeOK
<1>2. TypeOK'
  BY <1>1 DEF KillAllReplace, Sound, TypeOK, repaveVars
<1>3. OneMap'
  BY DEF KillAllReplace, OneMap, Tenant, Replaced
<1>4. Quiet'
  BY DEF KillAllReplace, Sound, Quiet
<1> QED
  BY <1>2, <1>3, <1>4, OthersMove DEF KillAllReplace

LEMMA KillSwitchSound == ASSUME Sound, KillSwitch PROVE Sound'
<1>1. bounds' \in [connects : 0 .. MaxConnects, messages : 0 .. MaxMessages,
                   killAlls : 0 .. MaxKillAlls]
  BY AgentSessionsAssumption DEF KillSwitch, Sound, TypeOK, AgentSessionsAssumption
<1>2. TypeOK'
  BY <1>1 DEF KillSwitch, Sound, TypeOK, sessionVars, repaveVars
<1>3. OneMap' /\ Quiet'
  BY DEF KillSwitch, Sound, OneMap, Quiet, sessionVars
<1> QED
  BY <1>2, <1>3, OthersMove DEF KillSwitch

-----------------------------------------------------------------------------
LEMMA RecordSound == ASSUME Sound, NEW t \in Triggers, Record(t) PROVE Sound'
<1> DEFINE n == Least(repave.log[t] + 1, Threshold[t])
           fire == n >= Threshold[t] /\ ~repave.fired
<1>1. /\ events[t] > 0 /\ events' = [events EXCEPT ![t] = @ - 1]
      /\ repave' = [repave EXCEPT !.log[t] = n, !.fired = @ \/ fire]
      /\ killAll' = IF fire THEN [killAll EXCEPT !["repave"] = "close"] ELSE killAll
      /\ UNCHANGED <<proc, conns, activeWSConns, kills, bounds, overlapped, switched,
                     sessionVars>>
  BY DEF Record
<1>2. n \in Nat
  BY AgentSessionsAssumption DEF Least, Sound, TypeOK, AgentSessionsAssumption
<1>3. fire \in BOOLEAN
  OBVIOUS
<1> HIDE DEF n, fire
<1>4. repave' \in [log : [Triggers -> Nat], fired : BOOLEAN]
  <2> DEFINE log == [repave.log EXCEPT ![t] = n]
             fired == repave.fired \/ fire
  <2>1. repave' = [repave EXCEPT !.log = log, !.fired = fired]
    BY <1>1 DEF Sound, TypeOK
  <2>2. log \in [Triggers -> Nat] /\ fired \in BOOLEAN
    BY <1>2, <1>3 DEF Sound, TypeOK
  <2> HIDE DEF log, fired
  <2> QED
    BY <2>1, <2>2 DEF Sound, TypeOK
<1>5. events' \in [Triggers -> Nat]
  BY <1>1 DEF Sound, TypeOK
<1>6. killAll' \in [Killers -> {"idle", "close", "replace"}]
  BY <1>1 DEF Sound, TypeOK
<1>7. TypeOK'
  BY <1>1, <1>4, <1>5, <1>6 DEF Sound, TypeOK, sessionVars
<1>8. OneMap' /\ Quiet'
  BY <1>1 DEF Sound, TypeOK, OneMap, Quiet, sessionVars
<1> QED
  BY <1>1, <1>7, <1>8, OthersMove

LEMMA RepaveLogSound ==
  ASSUME Sound, RepaveDone \/ \E t \in Triggers : WindowPasses(t) PROVE Sound'
<1>1. UNCHANGED <<proc, conns, activeWSConns, events, bounds, overlapped, sessionVars,
                  killVars>>
  BY DEF RepaveDone, WindowPasses
<1>2. repave' \in [log : [Triggers -> Nat], fired : BOOLEAN]
  <2>1. ASSUME NEW t \in Triggers, WindowPasses(t)
        PROVE  repave' \in [log : [Triggers -> Nat], fired : BOOLEAN]
    <3> DEFINE log == [repave.log EXCEPT ![t] = 0]
    <3>1. repave' = [repave EXCEPT !.log = log] /\ log \in [Triggers -> Nat]
      BY <2>1 DEF WindowPasses, Sound, TypeOK
    <3> HIDE DEF log
    <3> QED
      BY <3>1 DEF Sound, TypeOK
  <2>2. CASE RepaveDone
    BY <2>2 DEF RepaveDone
  <2> QED
    BY <2>1, <2>2
<1>3. TypeOK'
  BY <1>1, <1>2 DEF Sound, TypeOK, sessionVars, killVars
<1>4. OneMap' /\ Quiet'
  BY <1>1 DEF Sound, OneMap, Quiet, At, sessionVars, killVars
<1> QED
  BY <1>1, <1>3, <1>4, OthersMove

LEMMA MapRaceSound == ASSUME Sound, MapRace PROVE Sound'
<1>1. /\ history = Tenant /\ proc' = "dead"
      /\ maps' = [m \in {Tenant, Replaced} |-> [k \in Keys |-> NoSession]]
      /\ conns' = [c \in Conns |-> NoHandler]
      /\ activeWSConns' = [k \in Keys |-> NoConn]
      /\ kills' = [k \in Keys |-> [close |-> 0, delete |-> 0]]
      /\ killAll' = [a \in Killers |-> "idle"]
      /\ events' = [t \in Triggers |-> 0]
      /\ repave' = [log |-> [t \in Triggers |-> 0], fired |-> FALSE]
      /\ overlapped' = {} /\ UNCHANGED <<history, valid, bounds, switched>>
  BY DEF MapRace
<1>2. TypeOK'
  <2>1. maps' \in [{Tenant, Replaced} -> [Keys -> Sessions]]
    BY <1>1, NoSessionKnown
  <2>2. /\ conns' \in [Conns -> {NoHandler} \cup Handlers]
        /\ activeWSConns' \in [Keys -> Conns \cup {NoConn}]
        /\ kills' \in [Keys -> [close : Nat, delete : Nat]]
        /\ killAll' \in [Killers -> {"idle", "close", "replace"}]
        /\ events' \in [Triggers -> Nat]
        /\ repave' \in [log : [Triggers -> Nat], fired : BOOLEAN]
    BY <1>1
  <2> QED
    BY <1>1, <2>1, <2>2 DEF Sound, TypeOK
<1>3. Registered' = {} /\ \A c \in Conns : conns'[c].pc = "idle"
  BY <1>1 DEF Registered, NoHandler
<1> QED
  BY <1>1, <1>2, <1>3 DEF Sound, RegistryCovers, Shared, OneMap, Quiet, At

LEMMA NextSound == ASSUME Sound, [Next]_vars PROVE Sound'
<1>1. ASSUME NEW c \in Conns, Handler(c) PROVE Sound'
  BY <1>1, StoreSound, RegisterSound, ScanSound, ScanCallSound, CountBlockSound,
     DeregisterSound DEF Handler
<1>2. ASSUME NEW c \in Conns, Client(c) PROVE Sound'
  BY <1>2, ClientSound, ArriveSound DEF Client
<1>3. ASSUME Kill \/ Repave PROVE Sound'
  BY <1>3, KillCloseSound, KillDeleteSound, KillAllCloseSound, KillAllReplaceSound,
     RepaveLogSound, RecordSound DEF Kill, Repave
<1>4. ASSUME Environment \/ CleanupSessionHistory \/ \E k \in Keys : Idles(k) PROVE Sound'
  BY <1>4, KillSwitchSound, MapRaceSound, RepaveLogSound, TokenEndsSound, CleanupSound,
     IdlesSound DEF Environment
<1>5. ASSUME UNCHANGED vars PROVE Sound'
  BY <1>5, MapMoves DEF vars, Sound, TypeOK, repaveVars
<1> QED
  BY <1>1, <1>2, <1>3, <1>4, <1>5 DEF Next

(* The inductive invariant holds for ever.                                  *)
THEOREM Invariance == Spec => []Sound
BY InitSound, NextSound, PTL DEF Spec

-----------------------------------------------------------------------------
(* Maps, registry and the locals of all handlers and goroutines keep their  *)
(* types.                                                                   *)
THEOREM TypeInvariant == Spec => []TypeOK
<1>1. Sound => TypeOK
  BY DEF Sound
<1> QED
  BY <1>1, Invariance, PTL

(* activeWSConns names every open connection that is being served and never *)
(* shared its key, so killSession and killAllSessions close it.             *)
THEOREM RegistryIsComplete == Spec => []RegistryCovers
<1>1. Sound => RegistryCovers
  BY DEF Sound
<1> QED
  BY <1>1, Invariance, PTL

(* The process dies of two accesses to one map under sessLock and           *)
(* sessionHistoryLock only if killAllSessions was never used before.        *)
THEOREM RacesEndWithSwitch == Spec => []RacesOnlyUnswitched
<1>1. Sound => RacesOnlyUnswitched
  BY DEF Sound, Quiet, RacesOnlyUnswitched
<1> QED
  BY <1>1, Invariance, PTL

-----------------------------------------------------------------------------
(* A capped connection is registered until it has gone, and while it is     *)
(* open, a goroutine of killSession that closes it has still to run, unless *)
(* the connection shared its key.                                           *)
CapPending ==
  \A c \in Conns :
    conns[c].capped =>
      /\ c \in Registered
      /\ conns[c].open /\ c \notin overlapped => kills[Key(c)].close > 0

(* A step that caps no connection, opens none and stops no killer.          *)
LEMMA CapStays ==
  ASSUME TypeOK, TypeOK', CapPending,
         \A c \in Conns : conns'[c].capped =>
            /\ conns[c].capped /\ c \in Registered'
            /\ conns'[c].key = conns[c].key /\ (conns'[c].open => conns[c].open)
            /\ c \in overlapped => c \in overlapped',
         \A k \in Keys : kills'[k].close >= kills[k].close
  PROVE  CapPending'
<1> SUFFICES ASSUME NEW c \in Conns, conns'[c].capped
             PROVE  /\ c \in Registered'
                    /\ conns'[c].open /\ c \notin overlapped' => kills'[Key(c)'].close > 0
  BY DEF CapPending
<1>1. /\ conns[c].capped /\ c \in Registered'
      /\ conns'[c].key = conns[c].key /\ (conns'[c].open => conns[c].open)
      /\ c \in overlapped => c \in overlapped'
  OBVIOUS
<1>2. c \in Registered /\ (conns[c].open /\ c \notin overlapped => kills[Key(c)].close > 0)
  BY <1>1 DEF CapPending
<1>3. Key(c)' = Key(c) /\ Key(c) \in Keys
  BY <1>1, <1>2, Known DEF Key, Handlers, Registered, At
<1>4. kills[Key(c)].close \in Nat /\ kills'[Key(c)].close \in Nat
      /\ kills'[Key(c)].close >= kills[Key(c)].close
  BY <1>3 DEF TypeOK
<1> QED
  BY <1>1, <1>2, <1>3, <1>4

(* What a handler's own step leaves of the other handlers and of itself.    *)
LEMMA GotoFields ==
  ASSUME TypeOK, NEW c \in Conns, NEW pc, Goto(c, pc), ~At(c, "idle")
  PROVE  /\ conns'[c].pc = pc /\ conns'[c].key = conns[c].key
         /\ conns'[c].open = conns[c].open /\ conns'[c].capped = conns[c].capped
         /\ \A d \in Conns : d # c => conns'[d] = conns[d]
<1>1. conns[c] \in Handlers
  BY Known
<1>2. conns' = [conns EXCEPT ![c] = [conns[c] EXCEPT !.pc = pc]]
  BY DEF Goto, TypeOK
<1>3. conns'[c] = [conns[c] EXCEPT !.pc = pc]
      /\ \A d \in Conns : d # c => conns'[d] = conns[d]
  BY <1>2 DEF TypeOK
<1> QED
  BY <1>1, <1>3 DEF Handlers

(* A step of one registered handler that caps nothing.                      *)
LEMMA CapGoto ==
  ASSUME TypeOK, TypeOK', CapPending, NEW c \in Conns,
         NEW pc \in {"serving", "scan", "blocked", "ended"}, Goto(c, pc), ~At(c, "idle"),
         UNCHANGED overlapped,
         \A k \in Keys : kills'[k].close >= kills[k].close
  PROVE  CapPending'
<1>1. /\ conns'[c].pc = pc /\ conns'[c].key = conns[c].key
      /\ conns'[c].open = conns[c].open /\ conns'[c].capped = conns[c].capped
      /\ \A d \in Conns : d # c => conns'[d] = conns[d]
  BY GotoFields
<1>2. \A d \in Conns : conns'[d].capped =>
            /\ conns[d].capped /\ d \in Registered'
            /\ conns'[d].key = conns[d].key /\ (conns'[d].open => conns[d].open)
            /\ d \in overlapped => d \in overlapped'
  BY <1>1 DEF CapPending, Registered
<1> QED
  BY <1>2, CapStays

(* A handler that is capped with a killer for its key started.              *)
LEMMA CapStarts ==
  ASSUME TypeOK, TypeOK', CapPending, NEW c \in Registered,
         \A d \in Conns : d # c => conns'[d] = conns[d],
         conns'[c].key = conns[c].key, c \in Registered',
         kills' = [kills EXCEPT ![Key(c)].close = @ + 1], UNCHANGED overlapped
  PROVE  CapPending'
<1>1. Key(c) \in Keys /\ c \in Conns
  BY Known DEF Key, Handlers, Registered, At
<1>2. /\ kills'[Key(c)].close > 0
      /\ \A k \in Keys : kills[k].close > 0 => kills'[k].close > 0
  BY <1>1 DEF TypeOK
<1>3. Key(c)' = Key(c)
  BY DEF Key
<1>4. ASSUME NEW d \in Conns, conns'[d].capped, d # c
      PROVE  /\ d \in Registered'
             /\ conns'[d].open /\ d \notin overlapped' => kills'[Key(d)'].close > 0
  <2>1. conns'[d] = conns[d] /\ Key(d)' = Key(d)
    BY <1>4 DEF Key
  <2>2. d \in Registered
        /\ (conns[d].open /\ d \notin overlapped => kills[Key(d)].close > 0)
    BY <1>4, <2>1 DEF CapPending
  <2>3. Key(d) \in Keys
    BY <2>2, Known DEF Key, Handlers, Registered, At
  <2> QED
    BY <1>2, <2>1, <2>2, <2>3 DEF Registered
<1> QED
  BY <1>2, <1>3, <1>4 DEF CapPending

LEMMA CapHandler ==
  ASSUME Sound, Sound', CapPending, NEW c \in Conns, Handler(c) PROVE CapPending'
<1>0. TypeOK /\ TypeOK'
  BY DEF Sound
<1>1. CASE StoreAgentScopes(c)
  <2>1. /\ ~At(c, "idle") /\ c \notin Registered
        /\ UNCHANGED <<overlapped, kills>>
    BY <1>1 DEF StoreAgentScopes, At, Registered, killVars
  <2>2. ~conns[c].capped
    BY <2>1 DEF CapPending
  <2>3. ~conns'[c].capped /\ \A d \in Conns : d # c => conns'[d] = conns[d]
    <3>1. CASE conns' = [conns EXCEPT ![c].pc = "upgraded", ![c].open = TRUE]
      <4>1. conns[c] \in Handlers
        BY <1>0, <2>1, Known
      <4>2. conns'[c] = [conns[c] EXCEPT !.pc = "upgraded", !.open = TRUE]
            /\ \A d \in Conns : d # c => conns'[d] = conns[d]
        BY <1>0, <3>1 DEF TypeOK
      <4> QED
        BY <2>2, <4>1, <4>2 DEF Handlers
    <3>2. CASE conns' = [conns EXCEPT ![c] = NoHandler]
      BY <1>0, <3>2 DEF TypeOK, NoHandler
    <3>3. CASE Goto(c, "ready")
      BY <1>0, <2>1, <2>2, <3>3, GotoFields
    <3> QED
      BY <1>1, <3>1, <3>2, <3>3 DEF StoreAgentScopes, Upgrade
  <2>4. \A d \in Conns : conns'[d].capped => conns[d].capped /\ conns'[d] = conns[d]
                                             /\ d \in Registered'
    BY <2>3 DEF CapPending, Registered
  <2>5. \A k \in Keys : kills'[k].close >= kills[k].close
    BY <1>0, <2>1 DEF TypeOK
  <2> QED
    BY <1>0, <2>1, <2>4, <2>5, CapStays
<1>2. CASE Register(c)
  <2>1. /\ ~At(c, "idle") /\ c \notin Registered /\ Goto(c, "serving")
        /\ UNCHANGED kills /\ overlapped \subseteq overlapped'
    BY <1>2 DEF Register, At, Registered, killVars
  <2>2. ~conns'[c].capped /\ \A d \in Conns : d # c => conns'[d] = conns[d]
    BY <1>0, <2>1, GotoFields DEF CapPending
  <2>3. \A d \in Conns : conns'[d].capped => conns[d].capped /\ conns'[d] = conns[d]
                                             /\ d \in Registered'
    BY <2>2 DEF CapPending, Registered
  <2>4. \A k \in Keys : kills'[k].close >= kills[k].close
    BY <1>0, <2>1 DEF TypeOK
  <2> QED
    BY <1>0, <2>1, <2>3, <2>4, CapStays
<1>3. CASE LimitRate(c) \/ ScanText(c) \/ ScanCanary(c)
  <2>1. ~At(c, "idle") /\ UNCHANGED <<overlapped, kills>>
    BY <1>3 DEF LimitRate, ScanText, ScanCanary, At, killVars
  <2>2. PICK pc \in {"serving", "blocked", "ended"} : Goto(c, pc)
    BY <1>3 DEF LimitRate, ScanText, ScanCanary, PassOn
  <2>3. \A k \in Keys : kills'[k].close >= kills[k].close
    BY <1>0, <2>1 DEF TypeOK
  <2> QED
    BY <1>0, <2>1, <2>2, <2>3, CapGoto
<1>4. CASE ScanCall(c)
  <2>1. ~At(c, "idle") /\ c \in Registered /\ UNCHANGED overlapped
    BY <1>4 DEF ScanCall, At, Registered
  <2>2. CASE (\E pc \in {"serving", "blocked", "ended"} : Goto(c, pc)) /\ UNCHANGED kills
    <3>1. \A k \in Keys : kills'[k].close >= kills[k].close
      BY <1>0, <2>2 DEF TypeOK
    <3> QED
      BY <1>0, <2>1, <2>2, <3>1, CapGoto
  <2>3. CASE /\ conns' = [conns EXCEPT ![c].pc = "blocked", ![c].capped = TRUE]
             /\ kills' = [kills EXCEPT ![Key(c)].close = @ + 1]
    <3>1. conns[c] \in Handlers
      BY <1>0, <2>1, Known
    <3>2. conns'[c] = [conns[c] EXCEPT !.pc = "blocked", !.capped = TRUE]
          /\ \A d \in Conns : d # c => conns'[d] = conns[d]
      BY <1>0, <2>3 DEF TypeOK
    <3>3. conns'[c].key = conns[c].key /\ c \in Registered'
      BY <3>1, <3>2 DEF Handlers, Registered
    <3> QED
      BY <1>0, <2>1, <2>3, <3>2, <3>3, CapStarts
  <2> QED
    BY <1>4, <2>2, <2>3 DEF ScanCall, PassOn
<1>5. CASE CountBlock(c)
  <2> DEFINE n == Least(Session(Key(c)).blocks + 1, MaxBlocks)
  <2>1. ~At(c, "idle") /\ c \in Registered /\ UNCHANGED overlapped
    BY <1>5 DEF CountBlock, At, Registered
  <2>2. \/ Goto(c, "serving") /\ UNCHANGED kills
        \/ /\ conns' = [conns EXCEPT ![c].pc = "serving",
                                     ![c].capped = @ \/ n = MaxBlocks]
           /\ kills' = IF n = MaxBlocks THEN [kills EXCEPT ![Key(c)].close = @ + 1]
                       ELSE kills
    BY <1>5 DEF CountBlock
  <2> HIDE DEF n
  <2>3. CASE Goto(c, "serving") /\ UNCHANGED kills
    <3>1. \A k \in Keys : kills'[k].close >= kills[k].close
      BY <1>0, <2>3 DEF TypeOK
    <3> QED
      BY <1>0, <2>1, <2>3, <3>1, CapGoto
  <2>4. CASE /\ conns' = [conns EXCEPT ![c].pc = "serving",
                                     ![c].capped = @ \/ n = MaxBlocks]
             /\ kills' = IF n = MaxBlocks THEN [kills EXCEPT ![Key(c)].close = @ + 1]
                         ELSE kills
    <3> DEFINE b == conns[c].capped \/ n = MaxBlocks
    <3>1. conns[c] \in Handlers /\ b \in BOOLEAN
      BY <1>0, <2>1, Known DEF Handlers
    <3>2. conns'[c] = [conns[c] EXCEPT !.pc = "serving", !.capped = b]
          /\ \A d \in Conns : d # c => conns'[d] = conns[d]
      BY <1>0, <2>4 DEF TypeOK
    <3>3. /\ conns'[c].key = conns[c].key /\ c \in Registered'
          /\ conns'[c].open = conns[c].open /\ conns'[c].capped = b
      <4> HIDE DEF b
      <4> QED
        BY <3>1, <3>2 DEF Handlers, Registered
    <3>4. CASE n = MaxBlocks
      BY <1>0, <2>1, <2>4, <3>2, <3>3, <3>4, CapStarts
    <3>5. CASE n # MaxBlocks
      <4>1. UNCHANGED kills /\ conns'[c].capped = conns[c].capped
        BY <2>4, <3>1, <3>3, <3>5 DEF Handlers
      <4>2. \A d \in Conns : conns'[d].capped =>
               /\ conns[d].capped /\ d \in Registered'
               /\ conns'[d].key = conns[d].key /\ (conns'[d].open => conns[d].open)
               /\ d \in overlapped => d \in overlapped'
        BY <2>1, <3>2, <3>3, <4>1 DEF CapPending, Registered
      <4>3. \A k \in Keys : kills'[k].close >= kills[k].close
        BY <1>0, <4>1 DEF TypeOK
      <4> QED
        BY <1>0, <4>2, <4>3, CapStays
    <3> QED
      BY <3>4, <3>5
  <2> QED
    BY <2>2, <2>3, <2>4
<1>6. CASE Deregister(c)
  <2>1. /\ conns' = [conns EXCEPT ![c] = NoHandler] /\ UNCHANGED <<overlapped, kills>>
    BY <1>6 DEF Deregister, killVars
  <2>2. ~conns'[c].capped /\ \A d \in Conns : d # c => conns'[d] = conns[d]
    BY <1>0, <2>1 DEF TypeOK, NoHandler
  <2>3. \A d \in Conns : conns'[d].capped => conns[d].capped /\ conns'[d] = conns[d]
                                             /\ d \in Registered'
    BY <2>2 DEF CapPending, Registered
  <2>4. \A k \in Keys : kills'[k].close >= kills[k].close
    BY <1>0, <2>1 DEF TypeOK
  <2> QED
    BY <1>0, <2>1, <2>3, <2>4, CapStays
<1> QED
  BY <1>1, <1>2, <1>3, <1>4, <1>5, <1>6 DEF Handler

LEMMA CapClient ==
  ASSUME Sound, Sound', CapPending, NEW c \in Conns, Client(c) PROVE CapPending'
<1>0. TypeOK /\ TypeOK'
  BY DEF Sound
<1>1. \A k \in Keys : kills'[k].close >= kills[k].close
  <2>1. UNCHANGED kills
    BY DEF Client, ClientCloses, ReadMessage, Arrive, killVars
  <2> QED
    BY <1>0, <2>1 DEF TypeOK
<1>2. CASE ClientCloses(c)
  <2>1. conns' = [conns EXCEPT ![c].open = FALSE] /\ UNCHANGED overlapped
    BY <1>2 DEF ClientCloses
  <2>2. conns'[c] = [conns[c] EXCEPT !.open = FALSE]
        /\ \A d \in Conns : d # c => conns'[d] = conns[d]
    BY <1>0, <2>1 DEF TypeOK
  <2>3. conns[c] \in Handlers
    BY <1>0, <1>2 DEF ClientCloses, TypeOK, NoHandler
  <2>4. /\ conns'[c].pc = conns[c].pc /\ conns'[c].key = conns[c].key
        /\ ~conns'[c].open /\ conns'[c].capped = conns[c].capped
    BY <2>2, <2>3 DEF Handlers
  <2>5. \A d \in Conns : conns'[d].capped =>
           /\ conns[d].capped /\ d \in Registered'
           /\ conns'[d].key = conns[d].key /\ (conns'[d].open => conns[d].open)
           /\ d \in overlapped => d \in overlapped'
    BY <2>1, <2>2, <2>4 DEF CapPending, Registered
  <2> QED
    BY <1>0, <1>1, <2>5, CapStays
<1>3. CASE ReadMessage(c)
  BY <1>0, <1>1, <1>3, CapGoto DEF ReadMessage, At
<1>4. ASSUME NEW k \in Keys, Arrive(c, k) PROVE CapPending'
  <2> DEFINE h == [NoHandler EXCEPT !.pc = "request", !.key = k]
  <2>1. conns' = [conns EXCEPT ![c] = h] /\ overlapped' = overlapped \ {c}
    BY <1>4 DEF Arrive
  <2>2. ~h.capped
    BY DEF NoHandler
  <2> HIDE DEF h
  <2>3. ~conns'[c].capped /\ \A d \in Conns : d # c => conns'[d] = conns[d]
    BY <1>0, <2>1, <2>2 DEF TypeOK
  <2>4. \A d \in Conns : conns'[d].capped => conns[d].capped /\ conns'[d] = conns[d]
                                             /\ d \in Registered' /\ d # c
    BY <2>3 DEF CapPending, Registered
  <2> QED
    BY <1>0, <1>1, <2>1, <2>4, CapStays
<1> QED
  BY <1>2, <1>3, <1>4 DEF Client

(* Connections that are closed keep the rest of what their handlers know.   *)
LEMMA CloseFields ==
  ASSUME TypeOK, NEW S, Close(S), NEW c \in Registered
  PROVE  /\ c \in Registered' /\ conns'[c].key = conns[c].key
         /\ conns'[c].capped = conns[c].capped
         /\ conns'[c].open => conns[c].open /\ c \notin S
<1>1. c \in Conns /\ conns[c] \in Handlers
  BY Known DEF Registered, At
<1>2. conns'[c] = IF c \in S THEN [conns[c] EXCEPT !.open = FALSE] ELSE conns[c]
  BY <1>1 DEF Close
<1>3. CASE c \in S
  <2>1. /\ conns'[c].pc = conns[c].pc /\ conns'[c].key = conns[c].key
        /\ ~conns'[c].open /\ conns'[c].capped = conns[c].capped
    BY <1>1, <1>2, <1>3 DEF Handlers
  <2> QED
    BY <2>1 DEF Registered
<1>4. CASE c \notin S
  BY <1>2, <1>4 DEF Registered
<1> QED
  BY <1>3, <1>4

(* And a handler that is not capped does not become so.                     *)
LEMMA CloseCapsNone ==
  ASSUME TypeOK, CapPending, NEW S, Close(S), NEW c \in Conns, conns'[c].capped
  PROVE  conns[c].capped /\ c \in Registered
<1>1. conns'[c] = IF c \in S THEN [conns[c] EXCEPT !.open = FALSE] ELSE conns[c]
  BY DEF Close
<1>2. conns[c].capped
  <2> DEFINE Records == [pc : {"idle"}, key : {"none"}, open : {FALSE}, capped : {FALSE}]
  <2>1. NoHandler \in Records
    BY DEF NoHandler
  <2>2. \A r \in Records \cup Handlers : [r EXCEPT !.open = FALSE].capped = r.capped
    BY DEF Handlers
  <2>3. conns[c] \in Records \cup Handlers
    BY <2>1 DEF TypeOK
  <2> QED
    BY <1>1, <2>2, <2>3
<1> QED
  BY <1>2 DEF CapPending

LEMMA CapKill ==
  ASSUME Sound, Sound', CapPending, Kill PROVE CapPending'
<1>0. TypeOK /\ TypeOK'
  BY DEF Sound
<1>1. ASSUME NEW k \in Keys, KillClose(k) PROVE CapPending'
  <2>1. /\ Close({activeWSConns[k]}) /\ UNCHANGED overlapped
        /\ kills' = [kills EXCEPT ![k].close = @ - 1, ![k].delete = @ + 1]
    BY <1>1 DEF KillClose
  <2> SUFFICES ASSUME NEW c \in Conns, conns'[c].capped
               PROVE  /\ c \in Registered'
                      /\ conns'[c].open /\ c \notin overlapped => kills'[Key(c)'].close > 0
    BY <2>1 DEF CapPending
  <2>2. conns[c].capped /\ c \in Registered
    BY <1>0, <2>1, CloseCapsNone
  <2>3. /\ c \in Registered' /\ conns'[c].key = conns[c].key
        /\ conns'[c].open => conns[c].open /\ c # activeWSConns[k]
    BY <1>0, <2>1, <2>2, CloseFields
  <2>4. Key(c)' = Key(c) /\ Key(c) \in Keys
    BY <1>0, <2>2, <2>3, Known DEF Key, Handlers, Registered, At
  <2> SUFFICES ASSUME conns'[c].open, c \notin overlapped PROVE kills'[Key(c)].close > 0
    BY <2>3, <2>4
  <2>5. kills[Key(c)].close > 0 /\ activeWSConns[Key(c)] = c
    BY <2>2, <2>3 DEF CapPending, Sound, RegistryCovers
  <2>6. Key(c) # k
    BY <2>3, <2>5
  <2> QED
    BY <1>0, <2>1, <2>4, <2>5, <2>6 DEF TypeOK
<1>2. ASSUME NEW a \in Killers, KillAllClose(a) PROVE CapPending'
  <2> DEFINE S == {activeWSConns[k] : k \in Keys}
  <2>1. Close(S) /\ UNCHANGED <<overlapped, kills>>
    BY <1>2 DEF KillAllClose
  <2> HIDE DEF S
  <2>2. ASSUME NEW c \in Conns, conns'[c].capped
        PROVE  /\ conns[c].capped /\ c \in Registered'
               /\ conns'[c].key = conns[c].key /\ (conns'[c].open => conns[c].open)
    <3>1. conns[c].capped /\ c \in Registered
      BY <1>0, <2>1, <2>2, CloseCapsNone
    <3> QED
      BY <1>0, <2>1, <3>1, CloseFields
  <2>3. \A k \in Keys : kills'[k].close >= kills[k].close
    BY <1>0, <2>1 DEF TypeOK
  <2> QED
    BY <1>0, <2>1, <2>2, <2>3, CapStays
<1>3. ASSUME NEW k \in Keys, KillDelete(k) PROVE CapPending'
  <2>1. UNCHANGED <<conns, overlapped>> /\ kills' = [kills EXCEPT ![k].delete = @ - 1]
    BY <1>3 DEF KillDelete
  <2>2. \A j \in Keys : kills'[j].close >= kills[j].close
    BY <1>0, <2>1 DEF TypeOK
  <2> QED
    BY <1>0, <2>1, <2>2, CapStays DEF CapPending, Registered
<1>4. ASSUME NEW a \in Killers, KillAllReplace(a) PROVE CapPending'
  BY <1>4 DEF KillAllReplace, CapPending, Registered, Key
<1> QED
  BY <1>1, <1>2, <1>3, <1>4 DEF Kill

LEMMA CapNext ==
  ASSUME Sound, Sound', CapPending, [Next]_vars PROVE CapPending'
<1>1. CASE UNCHANGED <<conns, overlapped, kills>>
  BY <1>1 DEF CapPending, Registered, Key
<1>2. CASE MapRace
  <2>1. \A c \in Conns : conns'[c] = NoHandler
    BY <1>2 DEF MapRace
  <2> QED
    BY <2>1 DEF CapPending, NoHandler
<1>3. CASE Repave \/ CleanupSessionHistory \/ \E k \in Keys : Idles(k)
  BY <1>1, <1>3 DEF Repave, RepaveDone, Record, CleanupSessionHistory, Idles, killVars
<1>4. CASE KillSwitch \/ (\E t \in Triggers : WindowPasses(t)) \/ \E k \in Keys : TokenEnds(k)
  BY <1>1, <1>4 DEF KillSwitch, WindowPasses, TokenEnds, killVars
<1>5. CASE UNCHANGED vars
  BY <1>1, <1>5 DEF vars, killVars
<1> QED
  BY <1>2, <1>3, <1>4, <1>5, CapHandler, CapClient, CapKill DEF Next, Environment

(* Whenever a connection has reached a cap and is still open, a goroutine   *)
(* of killSession for its key has not closed it yet, so that the cap is     *)
(* enforced once that goroutine runs: the safety that CapCloses rests on.   *)
THEOREM CapAlwaysPending == Spec => []CapPending
<1>1. Init => CapPending
  BY DEF Init, CapPending, NoHandler
<1>2. Sound /\ Sound' /\ CapPending /\ [Next]_vars => CapPending'
  BY CapNext
<1> QED
  BY <1>1, <1>2, Invariance, PTL DEF Spec

-----------------------------------------------------------------------------
(* Scopes are stored under a key only while its token is valid.             *)
NeverBack ==
  [][\A k \in Keys : k \notin valid /\ ~maps[Tenant][k].scoped
                       => k \notin valid' /\ ~maps'[Tenant][k].scoped]_vars

LEMMA ScopedMoves ==
  ASSUME TypeOK, NEW m \in {Tenant, Replaced}, NEW j \in Keys, NEW s \in Sessions,
         maps' = [maps EXCEPT ![m][j] = s], s.scoped => maps[m][j].scoped,
         NEW k \in Keys, ~maps[Tenant][k].scoped
  PROVE  ~maps'[Tenant][k].scoped
BY DEF TypeOK

LEMMA ScopesStay ==
  ASSUME Sound, Next, NEW k \in Keys, k \notin valid, ~maps[Tenant][k].scoped
  PROVE  k \notin valid' /\ ~maps'[Tenant][k].scoped
<1> DEFINE Lost == k \notin valid' /\ ~maps'[Tenant][k].scoped
<1>0. TypeOK /\ NoSession \in Sessions /\ ~NoSession.scoped /\ history \in {Tenant, Replaced}
  BY NoSessionKnown DEF Sound, NoSession, TypeOK
<1>1. CASE UNCHANGED <<maps, valid>>
  BY <1>1
<1>2. ASSUME NEW c \in Conns, StoreAgentScopes(c) PROVE Lost
  <2>1. UNCHANGED valid /\ Key(c) \in Keys
    BY <1>0, <1>2, Known DEF StoreAgentScopes, At, Key, Handlers
  <2>2. CASE Key(c) \in valid
    <3>1. maps' = [maps EXCEPT ![Tenant][Key(c)].live = TRUE, ![Tenant][Key(c)].scoped = TRUE]
      BY <1>2, <2>2 DEF StoreAgentScopes
    <3>2. maps'[Tenant][k] = maps[Tenant][k]
      BY <1>0, <2>1, <2>2, <3>1 DEF TypeOK
    <3> QED
      BY <2>1, <3>2
  <2>3. CASE Key(c) \notin valid
    BY <1>2, <2>1, <2>3 DEF StoreAgentScopes
  <2> QED
    BY <2>2, <2>3
<1>3. ASSUME NEW c \in Conns, ScanCall(c) PROVE Lost
  <2> DEFINE j == Key(c)
             s == Called(Session(j))
  <2>1. UNCHANGED valid /\ j \in Keys
    BY <1>0, <1>3, Known DEF ScanCall, At, Key, Handlers
  <2>2. Session(j) = maps[history][j] /\ Session(j) \in Sessions
    BY <1>0, <2>1, MapsUpdate DEF Session
  <2>3. s \in Sessions /\ s.scoped = Session(j).scoped
    <3>1. Least(Session(j).calls + 1, MaxToolCalls) \in 0 .. MaxToolCalls
      BY <2>2, AgentSessionsAssumption DEF Least, Sessions, AgentSessionsAssumption
    <3> QED
      BY <2>2, <3>1 DEF Called, Sessions
  <2>4. \/ maps' = [maps EXCEPT ![history][j] = s]
        \/ maps' = [maps EXCEPT ![history][j] = NoSession]
    BY <1>3 DEF ScanCall
  <2> HIDE DEF j, s
  <2> QED
    BY <1>0, <2>1, <2>2, <2>3, <2>4, ScopedMoves
<1>4. ASSUME NEW c \in Conns, CountBlock(c) PROVE Lost
  <2> DEFINE j == Key(c)
             n == Least(Session(j).blocks + 1, MaxBlocks)
             s == [Session(j) EXCEPT !.blocks = n]
  <2>1. UNCHANGED valid /\ j \in Keys
    BY <1>0, <1>4, Known DEF CountBlock, At, Key, Handlers
  <2>2. Session(j) = maps[history][j] /\ Session(j) \in Sessions
    BY <1>0, <2>1, MapsUpdate DEF Session
  <2>3. n \in 0 .. MaxBlocks
    BY <2>2, AgentSessionsAssumption DEF Least, Sessions, AgentSessionsAssumption
  <2>4. maps' = [maps EXCEPT ![history][j].blocks = n] \/ UNCHANGED maps
    BY <1>4 DEF CountBlock
  <2> HIDE DEF n
  <2>5. s \in Sessions /\ s.scoped = Session(j).scoped
    BY <2>2, <2>3 DEF Sessions
  <2>6. maps' = [maps EXCEPT ![history][j] = s] \/ UNCHANGED maps
    BY <1>0, <2>1, <2>4 DEF Session, TypeOK
  <2> HIDE DEF j, s
  <2> QED
    BY <1>0, <2>1, <2>2, <2>5, <2>6, ScopedMoves
<1>5. ASSUME NEW j \in Keys, KillDelete(j) PROVE Lost
  BY <1>0, <1>5, ScopedMoves DEF KillDelete
<1>6. ASSUME NEW j \in Keys, Idles(j) PROVE Lost
  <2> DEFINE s == [maps[history][j] EXCEPT !.recent = FALSE]
  <2>1. maps[history][j] \in Sessions
    BY <1>0, MapsUpdate
  <2>2. s \in Sessions /\ s.scoped = maps[history][j].scoped
    BY <2>1 DEF Sessions
  <2>3. maps' = [maps EXCEPT ![history][j] = s] /\ UNCHANGED valid
    BY <1>0, <1>6 DEF Idles, TypeOK
  <2> HIDE DEF s
  <2> QED
    BY <1>0, <2>2, <2>3, ScopedMoves
<1>7. CASE CleanupSessionHistory
  <2>1. /\ UNCHANGED valid
        /\ maps'[Tenant][k] = maps[Tenant][k] \/ maps'[Tenant][k] = NoSession
    BY <1>0, <1>7 DEF CleanupSessionHistory, TypeOK
  <2> QED
    BY <1>0, <2>1
<1>8. ASSUME NEW a \in Killers, KillAllReplace(a) PROVE Lost
  <2>1. UNCHANGED valid /\ maps'[Tenant] = maps[Tenant]
    BY <1>0, <1>8 DEF KillAllReplace, TypeOK, Tenant, Replaced
  <2> QED
    BY <2>1
<1>9. CASE MapRace
  BY <1>0, <1>9 DEF MapRace
<1>10. ASSUME NEW j \in Keys, TokenEnds(j) PROVE Lost
  BY <1>10 DEF TokenEnds
<1>11. ASSUME NEW c \in Conns, Client(c) PROVE Lost
  BY <1>11 DEF Client, ClientCloses, ReadMessage, Arrive, sessionVars
<1>12. ASSUME NEW c \in Conns, Handler(c) PROVE Lost
  <2>1. CASE Register(c) \/ LimitRate(c) \/ ScanText(c) \/ ScanCanary(c) \/ Deregister(c)
    BY <2>1 DEF Register, LimitRate, ScanText, ScanCanary, Deregister, sessionVars
  <2> QED
    BY <1>2, <1>3, <1>4, <1>12, <2>1 DEF Handler
<1>13. CASE Kill
  <2>1. ASSUME NEW j \in Keys, KillClose(j) PROVE Lost
    BY <2>1 DEF KillClose, sessionVars
  <2>2. ASSUME NEW a \in Killers, KillAllClose(a) PROVE Lost
    BY <2>2 DEF KillAllClose, sessionVars
  <2> QED
    BY <1>5, <1>8, <1>13, <2>1, <2>2 DEF Kill
<1>14. CASE Repave \/ KillSwitch \/ \E t \in Triggers : WindowPasses(t)
  BY <1>14 DEF Repave, RepaveDone, Record, KillSwitch, WindowPasses, sessionVars
<1> QED
  BY <1>6, <1>7, <1>9, <1>10, <1>11, <1>12, <1>13, <1>14 DEF Next, Environment

(* The scopes of a token that was revoked or has expired do not come back   *)
(* once they are forgotten, whichever handler of the agent was on its way   *)
(* to store them: the safety that RevokedScopesFade rests on.               *)
THEOREM ScopesNeverComeBack == Spec => NeverBack
<1>1. Sound /\ [Next]_vars =>
        [\A k \in Keys : k \notin valid /\ ~maps[Tenant][k].scoped
                           => k \notin valid' /\ ~maps'[Tenant][k].scoped]_vars
  BY ScopesStay
<1> QED
  BY <1>1, Invariance, PTL DEF Spec, NeverBack
=============================================================================
