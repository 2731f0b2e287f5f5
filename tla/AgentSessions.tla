--------------------------- MODULE AgentSessions ---------------------------
(***************************************************************************)
(* Agent sessions of the default tenant: the WebSocket handler and the     *)
(* registry of its connections, the sessions' counters and scopes, the     *)
(* kill switches, blast radius and automated repave (proxy/main.go,        *)
(* proxy/tokens.go).                                                       *)
(*                                                                         *)
(* Scopes are kept in defaultTenant.sessions under its sessLock, counters  *)
(* in sessionHistory under sessionHistoryLock.  InitTenants makes the two  *)
(* one map; killAllSessions gives sessionHistory another.  A step is what  *)
(* runs under one lock.  A session key is the Authorization header, so all *)
(* connections of one agent have one key.                                  *)
(***************************************************************************)
EXTENDS Naturals, FiniteSets

CONSTANTS
  Keys,            \* session keys, each the header of one agent token
  Conns,           \* WebSocket handlers
  NoConn,
  MaxToolCalls,    \* max_tool_calls_per_session
  MaxBlocks,       \* max_blocks_per_session
  Triggers, Threshold,   \* auto_repave triggers and how many of each fire it
  MaxConnects, MaxMessages, MaxKillAlls    \* bounds

ASSUME AgentSessionsAssumption ==
  /\ NoConn \notin Conns
  /\ MaxToolCalls \in Nat \ {0} /\ MaxBlocks \in Nat \ {0}
  /\ Threshold \in [Triggers -> Nat \ {0}]
  /\ MaxConnects \in Nat /\ MaxMessages \in Nat /\ MaxKillAlls \in Nat

VARIABLES
  proc,        \* the process: up, or dead of overlapping accesses to one map
  maps,        \* the first map, and the one sessionHistory got last
  history,     \* which of the two sessionHistory is; the tenant's is the first
  conns,       \* locals of the handlers, and whether the client's side is open
  activeWSConns,
  valid,       \* keys whose token validateAgentJWT accepts
  kills,       \* running killSession goroutines of a key, by their next step
  killAll,     \* next step of the admin's and of the repave's killAllSessions
  events,      \* recordRepaveEvent goroutines not run yet, by trigger
  repave,      \* repaveEventLog inside its window, and repaveFired
  bounds,      \* connections, messages and uses of the kill switch so far
  overlapped,  \* history: connections once registered together with another
  switched     \* history: killAllSessions has replaced the map

vars == <<proc, maps, history, conns, activeWSConns, valid, kills, killAll, events,
          repave, bounds, overlapped, switched>>
sessionVars == <<maps, history, valid>>
killVars == <<kills, killAll, switched>>
repaveVars == <<events, repave>>

-----------------------------------------------------------------------------
Tenant == 1
Replaced == 2
NoSession == [live |-> FALSE, scoped |-> FALSE, calls |-> 0, blocks |-> 0, recent |-> FALSE]
NoHandler == [pc |-> "idle", key |-> "none", open |-> FALSE, capped |-> FALSE]
Killers == {"admin", "repave"}

Sessions == [live : BOOLEAN, scoped : BOOLEAN, calls : 0 .. MaxToolCalls,
             blocks : 0 .. MaxBlocks, recent : BOOLEAN]
Handlers == [pc : {"request", "upgraded", "ready", "serving", "scan", "blocked", "ended"},
             key : Keys, open : BOOLEAN, capped : BOOLEAN]

At(c, pc) == conns[c].pc = pc
Key(c) == conns[c].key
Goto(c, pc) == conns' = [conns EXCEPT ![c].pc = pc]
Least(a, b) == IF a < b THEN a ELSE b

Registered == {c \in Conns : conns[c].pc \in {"serving", "scan", "blocked", "ended"}}

(* sessionHasAnyScope, with scopes every scanner accepts.                   *)
Exempt(k) == maps[Tenant][k].scoped

Session(k) == maps[history][k]

-----------------------------------------------------------------------------
(* handleRoot and handleWebSocket up to the registration.  Both store the   *)
(* scopes of the token.  It is validated before the lock is taken; a token  *)
(* that ends in between might as well end after.  The dial and the upgrade  *)
(* touch nothing shared and go with the step before them.                   *)

(* A handler is a new goroutine, whichever free name it gets.               *)
Free == CHOOSE c \in Conns : At(c, "idle")

Arrive(c, k) ==
  /\ proc = "up" /\ At(c, "idle") /\ c = Free /\ bounds.connects < MaxConnects
  /\ conns' = [conns EXCEPT ![c] = [NoHandler EXCEPT !.pc = "request", !.key = k]]
  /\ bounds' = [bounds EXCEPT !.connects = @ + 1]
  /\ overlapped' = overlapped \ {c}
  /\ UNCHANGED <<proc, activeWSConns, sessionVars, killVars, repaveVars>>

(* The backend is dialled and the client's side upgraded, or neither.       *)
Upgrade(c) ==
  \/ conns' = [conns EXCEPT ![c].pc = "upgraded", ![c].open = TRUE]
  \/ conns' = [conns EXCEPT ![c] = NoHandler]

StoreAgentScopes(c) ==
  LET k == Key(c) IN
  /\ \/ At(c, "request") /\ Upgrade(c)
     \/ At(c, "upgraded") /\ Goto(c, "ready")
  /\ maps' = IF k \in valid
             THEN [maps EXCEPT ![Tenant][k].live = TRUE, ![Tenant][k].scoped = TRUE]
             ELSE maps
  /\ UNCHANGED <<proc, history, activeWSConns, valid, bounds, overlapped, killVars, repaveVars>>

(* Another connection with the key loses its place in the registry.         *)
Register(c) ==
  LET others == {d \in Registered \ {c} : Key(d) = Key(c)} IN
  /\ At(c, "ready") /\ Goto(c, "serving")
  /\ activeWSConns' = [activeWSConns EXCEPT ![Key(c)] = c]
  /\ overlapped' = IF others = {} THEN overlapped ELSE overlapped \cup others \cup {c}
  /\ UNCHANGED <<proc, bounds, sessionVars, killVars, repaveVars>>

-----------------------------------------------------------------------------
(* The relay of handleWebSocket: one message of the client after another.   *)

ClientCloses(c) ==
  /\ conns[c].open
  /\ conns' = [conns EXCEPT ![c].open = FALSE]
  /\ UNCHANGED <<proc, activeWSConns, bounds, overlapped, sessionVars, killVars, repaveVars>>

ReadMessage(c) ==
  /\ At(c, "serving") /\ conns[c].open /\ bounds.messages < MaxMessages
  /\ Goto(c, "scan")
  /\ bounds' = [bounds EXCEPT !.messages = @ + 1]
  /\ UNCHANGED <<proc, activeWSConns, overlapped, sessionVars, killVars, repaveVars>>

(* checkRateLimitWithContext lets the message of an exempt agent pass.      *)
LimitRate(c) ==
  /\ At(c, "scan") /\ ~Exempt(Key(c))
  /\ Goto(c, "serving")
  /\ UNCHANGED <<proc, activeWSConns, bounds, overlapped, sessionVars, killVars, repaveVars>>

(* What passes goes to the backend at once, which ends the handler if that  *)
(* fails.                                                                   *)
PassOn(c) == Goto(c, "serving") \/ Goto(c, "ended")

(* scanPayload on a message that calls no tool.                             *)
ScanText(c) ==
  /\ At(c, "scan")
  /\ PassOn(c) \/ Goto(c, "blocked")
  /\ UNCHANGED <<proc, activeWSConns, bounds, overlapped, sessionVars, killVars, repaveVars>>

(* The canary in a message is blocked and counted.                          *)
ScanCanary(c) ==
  /\ At(c, "scan") /\ "CANARY" \in Triggers
  /\ Goto(c, "blocked")
  /\ events' = [events EXCEPT !["CANARY"] = @ + 1]
  /\ UNCHANGED <<proc, activeWSConns, repave, bounds, overlapped, sessionVars, killVars>>

Called(s) == [s EXCEPT !.live = TRUE, !.recent = TRUE,
                       !.calls = Least(@ + 1, MaxToolCalls)]

(* A call at the cap is blocked and its session killed, by a goroutine of   *)
(* its own; one that completes a risk sequence deletes the session.         *)
ScanCall(c) ==
  LET k == Key(c)
      s == Called(Session(k))
      Keep == maps' = [maps EXCEPT ![history][k] = s]
  IN
  /\ At(c, "scan")
  /\ \/ /\ ~Exempt(k) /\ s.calls >= MaxToolCalls
        /\ Keep
        /\ conns' = [conns EXCEPT ![c].pc = "blocked", ![c].capped = TRUE]
        /\ kills' = [kills EXCEPT ![k].close = @ + 1]
        /\ UNCHANGED events
     \/ /\ Exempt(k) \/ s.calls < MaxToolCalls
        /\ \/ Keep /\ PassOn(c) /\ UNCHANGED events
           \/ Keep /\ Goto(c, "blocked") /\ UNCHANGED events
           \/ /\ "CANARY" \in Triggers
              /\ Keep /\ Goto(c, "blocked")
              /\ events' = [events EXCEPT !["CANARY"] = @ + 1]
           \/ /\ "RISK_SEQUENCE" \in Triggers
              /\ maps' = [maps EXCEPT ![history][k] = NoSession]
              /\ Goto(c, "blocked")
              /\ events' = [events EXCEPT !["RISK_SEQUENCE"] = @ + 1]
        /\ UNCHANGED kills
  /\ UNCHANGED <<proc, history, activeWSConns, valid, killAll, repave, bounds, overlapped,
                 switched>>

(* Changed: a session is killed only past the cap of its blocks.            *)
CountBlockPast(c) ==
  LET k == Key(c)
      n == Least(Session(k).blocks + 1, MaxBlocks)
  IN
  /\ At(c, "blocked")
  /\ IF Session(k).live
     THEN /\ maps' = [maps EXCEPT ![history][k].blocks = n]
          /\ conns' = [conns EXCEPT ![c].pc = "serving",
                                    ![c].capped = @ \/ n = MaxBlocks]
     ELSE Goto(c, "serving") /\ UNCHANGED maps
  /\ UNCHANGED <<proc, history, activeWSConns, valid, killVars, repaveVars, bounds, overlapped>>

(* The handler counts a block if the session is still there.                *)
CountBlock(c) ==
  LET k == Key(c)
      n == Least(Session(k).blocks + 1, MaxBlocks)
  IN
  /\ At(c, "blocked")
  /\ IF Session(k).live
     THEN /\ maps' = [maps EXCEPT ![history][k].blocks = n]
          /\ conns' = [conns EXCEPT ![c].pc = "serving",
                                    ![c].capped = @ \/ n = MaxBlocks]
          /\ kills' = IF n = MaxBlocks THEN [kills EXCEPT ![k].close = @ + 1] ELSE kills
     ELSE Goto(c, "serving") /\ UNCHANGED <<maps, kills>>
  /\ UNCHANGED <<proc, history, activeWSConns, valid, killAll, repaveVars, bounds, overlapped,
                 switched>>

(* A handler whose client has gone ends too.  The entry of the key goes,    *)
(* whichever connection it names.                                           *)
Deregister(c) ==
  /\ At(c, "ended") \/ (At(c, "serving") /\ ~conns[c].open)
  /\ activeWSConns' = [activeWSConns EXCEPT ![Key(c)] = NoConn]
  /\ conns' = [conns EXCEPT ![c] = NoHandler]
  /\ UNCHANGED <<proc, bounds, overlapped, sessionVars, killVars, repaveVars>>

-----------------------------------------------------------------------------
(* killSession and killAllSessions: the connections, then the sessions.     *)

Close(S) == conns' = [c \in Conns |->
              IF c \in S THEN [conns[c] EXCEPT !.open = FALSE] ELSE conns[c]]

(* Changed: the entry goes, the connection stays open.                      *)
KillCloseEntry(k) ==
  /\ kills[k].close > 0
  /\ activeWSConns' = [activeWSConns EXCEPT ![k] = NoConn]
  /\ kills' = [kills EXCEPT ![k].close = @ - 1, ![k].delete = @ + 1]
  /\ UNCHANGED <<proc, conns, killAll, bounds, overlapped, switched, sessionVars, repaveVars>>

KillClose(k) ==
  /\ kills[k].close > 0
  /\ Close({activeWSConns[k]})
  /\ activeWSConns' = [activeWSConns EXCEPT ![k] = NoConn]
  /\ kills' = [kills EXCEPT ![k].close = @ - 1, ![k].delete = @ + 1]
  /\ UNCHANGED <<proc, killAll, bounds, overlapped, switched, sessionVars, repaveVars>>

KillDelete(k) ==
  /\ kills[k].delete > 0
  /\ maps' = [maps EXCEPT ![history][k] = NoSession]
  /\ kills' = [kills EXCEPT ![k].delete = @ - 1]
  /\ UNCHANGED <<proc, history, conns, activeWSConns, valid, killAll, bounds, overlapped,
                 switched, repaveVars>>

KillAllClose(a) ==
  /\ killAll[a] = "close"
  /\ Close({activeWSConns[k] : k \in Keys})
  /\ activeWSConns' = [k \in Keys |-> NoConn]
  /\ killAll' = [killAll EXCEPT ![a] = "replace"]
  /\ UNCHANGED <<proc, kills, bounds, overlapped, switched, sessionVars, repaveVars>>

(* Changed: the map is emptied in place.                                    *)
KillAllInPlace(a) ==
  /\ killAll[a] = "replace"
  /\ maps' = [maps EXCEPT ![history] = [k \in Keys |-> NoSession]]
  /\ switched' = TRUE
  /\ killAll' = [killAll EXCEPT ![a] = "idle"]
  /\ UNCHANGED <<proc, conns, activeWSConns, history, valid, kills, bounds, overlapped,
                 repaveVars>>

KillAllReplace(a) ==
  /\ killAll[a] = "replace"
  /\ maps' = [maps EXCEPT ![Replaced] = [k \in Keys |-> NoSession]]
  /\ history' = Replaced /\ switched' = TRUE
  /\ killAll' = [killAll EXCEPT ![a] = "idle"]
  /\ UNCHANGED <<proc, conns, activeWSConns, valid, kills, bounds, overlapped, repaveVars>>

(* POST sessions/kill                                                       *)
KillSwitch ==
  /\ proc = "up" /\ killAll["admin"] = "idle" /\ bounds.killAlls < MaxKillAlls
  /\ killAll' = [killAll EXCEPT !["admin"] = "close"]
  /\ bounds' = [bounds EXCEPT !.killAlls = @ + 1]
  /\ UNCHANGED <<proc, conns, activeWSConns, kills, overlapped, switched, sessionVars, repaveVars>>

-----------------------------------------------------------------------------
(* recordRepaveEvent and executeAutoRepave.  An event counts for the window *)
(* and not past the threshold.                                              *)
Record(t) ==
  LET n == Least(repave.log[t] + 1, Threshold[t])
      fire == n >= Threshold[t] /\ ~repave.fired
  IN
  /\ events[t] > 0
  /\ events' = [events EXCEPT ![t] = @ - 1]
  /\ repave' = [repave EXCEPT !.log[t] = n, !.fired = @ \/ fire]
  /\ killAll' = IF fire THEN [killAll EXCEPT !["repave"] = "close"] ELSE killAll
  /\ UNCHANGED <<proc, conns, activeWSConns, kills, bounds, overlapped, switched, sessionVars>>

WindowPasses(t) ==
  /\ repave.log[t] > 0
  /\ repave' = [repave EXCEPT !.log[t] = 0]
  /\ UNCHANGED <<proc, conns, activeWSConns, events, bounds, overlapped, sessionVars, killVars>>

(* The canary is rotated and, after the pause, the log forgotten, with what *)
(* was recorded in the meantime.                                            *)
RepaveDone ==
  /\ repave.fired /\ killAll["repave"] = "idle"
  /\ repave' = [log |-> [t \in Triggers |-> 0], fired |-> FALSE]
  /\ UNCHANGED <<proc, conns, activeWSConns, events, bounds, overlapped, sessionVars, killVars>>

-----------------------------------------------------------------------------
(* The ticker of cleanupSessionHistory, time, and the fate of the tokens.   *)

(* Changed: a session without events is kept.                               *)
CleanupOldEvents ==
  /\ maps' = [maps EXCEPT ![history] =
        [k \in Keys |-> IF @[k].recent \/ @[k].calls = 0 THEN @[k] ELSE NoSession]]
  /\ UNCHANGED <<proc, history, conns, activeWSConns, valid, bounds, overlapped, killVars,
                 repaveVars>>

CleanupSessionHistory ==
  /\ maps' = [maps EXCEPT ![history] =
        [k \in Keys |-> IF @[k].recent THEN @[k] ELSE NoSession]]
  /\ UNCHANGED <<proc, history, conns, activeWSConns, valid, bounds, overlapped, killVars,
                 repaveVars>>

Idles(k) ==
  /\ Session(k).recent
  /\ maps' = [maps EXCEPT ![history][k].recent = FALSE]
  /\ UNCHANGED <<proc, history, conns, activeWSConns, valid, bounds, overlapped, killVars,
                 repaveVars>>

TokenEnds(k) ==
  /\ k \in valid
  /\ valid' = valid \ {k}
  /\ UNCHANGED <<proc, maps, history, conns, activeWSConns, bounds, overlapped, killVars,
                 repaveVars>>

(* A goroutine under sessLock and one under sessionHistoryLock use the same *)
(* map, one of them to insert or delete: the runtime may notice and end the *)
(* process.  A scan takes either lock, the ticker and killSession the       *)
(* second.                                                                  *)
Stores(c) == conns[c].pc \in {"request", "upgraded"} /\ Key(c) \in valid
New(c) == ~Session(Key(c)).live
Deleted ==
  \E k \in Keys : kills[k].delete > 0 \/ (Session(k).live /\ ~Session(k).recent)

MapRace ==
  /\ history = Tenant
  /\ \E c \in Conns :
       \/ Stores(c) /\ New(c) /\ \E d \in Conns : conns[d].pc \in {"scan", "blocked"}
       \/ At(c, "scan") /\ New(c) /\ \E d \in Conns \ {c} : Stores(d) \/ At(d, "scan")
       \/ (Stores(c) \/ At(c, "scan")) /\ Deleted
  /\ proc' = "dead" /\ switched' = switched
  /\ maps' = [m \in {Tenant, Replaced} |-> [k \in Keys |-> NoSession]]
  /\ conns' = [c \in Conns |-> NoHandler]
  /\ activeWSConns' = [k \in Keys |-> NoConn]
  /\ kills' = [k \in Keys |-> [close |-> 0, delete |-> 0]]
  /\ killAll' = [a \in Killers |-> "idle"]
  /\ events' = [t \in Triggers |-> 0]
  /\ repave' = [log |-> [t \in Triggers |-> 0], fired |-> FALSE]
  /\ overlapped' = {}
  /\ UNCHANGED <<history, valid, bounds>>

-----------------------------------------------------------------------------
Init ==
  /\ proc = "up"
  /\ maps = [m \in {Tenant, Replaced} |-> [k \in Keys |-> NoSession]]
  /\ history = Tenant
  /\ conns = [c \in Conns |-> NoHandler]
  /\ activeWSConns = [k \in Keys |-> NoConn]
  /\ valid = Keys
  /\ kills = [k \in Keys |-> [close |-> 0, delete |-> 0]]
  /\ killAll = [a \in Killers |-> "idle"]
  /\ events = [t \in Triggers |-> 0]
  /\ repave = [log |-> [t \in Triggers |-> 0], fired |-> FALSE]
  /\ bounds = [connects |-> 0, messages |-> 0, killAlls |-> 0]
  /\ overlapped = {} /\ switched = FALSE

Handler(c) ==
  \/ StoreAgentScopes(c) \/ Register(c)
  \/ LimitRate(c) \/ ScanText(c) \/ ScanCanary(c) \/ ScanCall(c) \/ CountBlock(c)
  \/ Deregister(c)

Client(c) == ClientCloses(c) \/ ReadMessage(c) \/ \E k \in Keys : Arrive(c, k)

Kill ==
  \/ \E k \in Keys : KillClose(k) \/ KillDelete(k)
  \/ \E a \in Killers : KillAllClose(a) \/ KillAllReplace(a)

Repave == RepaveDone \/ \E t \in Triggers : Record(t)

Environment ==
  \/ KillSwitch \/ MapRace
  \/ \E t \in Triggers : WindowPasses(t)
  \/ \E k \in Keys : TokenEnds(k)

Next ==
  \/ \E c \in Conns : Handler(c) \/ Client(c)
  \/ Kill \/ Repave \/ Environment
  \/ CleanupSessionHistory
  \/ \E k \in Keys : Idles(k)

Spec == Init /\ [][Next]_vars

(* Goroutines that can run do, tickers tick and idle time passes; a client  *)
(* and an admin may do nothing.                                             *)
FairSpec ==
  /\ Spec
  /\ \A c \in Conns : WF_vars(Handler(c))
  /\ WF_vars(Kill) /\ WF_vars(Repave)
  /\ WF_vars(CleanupSessionHistory)
  /\ \A k \in Keys : WF_vars(Idles(k))

-----------------------------------------------------------------------------
(* The maps, the registry and the goroutines' locals are what the code can  *)
(* hold.                                                                    *)
TypeOK ==
  /\ proc \in {"up", "dead"} /\ history \in {Tenant, Replaced}
  /\ maps \in [{Tenant, Replaced} -> [Keys -> Sessions]]
  /\ conns \in [Conns -> {NoHandler} \cup Handlers]
  /\ activeWSConns \in [Keys -> Conns \cup {NoConn}]
  /\ valid \subseteq Keys /\ overlapped \subseteq Conns /\ switched \in BOOLEAN
  /\ kills \in [Keys -> [close : Nat, delete : Nat]]
  /\ killAll \in [Killers -> {"idle", "close", "replace"}]
  /\ events \in [Triggers -> Nat]
  /\ repave \in [log : [Triggers -> Nat], fired : BOOLEAN]
  /\ bounds \in [connects : 0 .. MaxConnects, messages : 0 .. MaxMessages,
                 killAlls : 0 .. MaxKillAlls]

(* The kill switches find every open connection that is being served, but   *)
(* for those registered while another handler with the key was there.       *)
RegistryCovers ==
  \A c \in Registered \ overlapped :
    conns[c].open => activeWSConns[Key(c)] = c

(* Two goroutines can use one map under different locks only as long as     *)
(* nobody has used the kill switch.                                         *)
RacesOnlyUnswitched == proc = "dead" => ~switched

(* The connection whose call or block reached a cap is closed in the end,   *)
(* unless it shared its key.                                                *)
CapCloses ==
  \A c \in Conns :
    conns[c].capped ~> (~conns[c].open \/ c \in overlapped)

(* The scopes of a token that was revoked or has expired are forgotten once *)
(* its agent calls no more tools, unless killAllSessions has put them out   *)
(* of the ticker's reach.                                                   *)
RevokedScopesFade ==
  \A k \in Keys :
    k \notin valid ~> (~maps[Tenant][k].scoped \/ switched)

=============================================================================
