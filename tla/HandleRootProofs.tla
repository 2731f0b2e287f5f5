------------------------- MODULE HandleRootProofs -------------------------
(***************************************************************************)
(* What handleRoot asks before a message is forwarded.                     *)
(*                                                                         *)
(* First the gate (Gateway): it and the breaker follow the scanner, for    *)
(* any number of clients, any time a probe is cached, any timeout and any  *)
(* backoff.                                                                *)
(*                                                                         *)
(* Then whose the request is (FrontDoor): one inductive invariant with a   *)
(* part for the tenants, a part for single sign-on and a part for what is  *)
(* between a request and the tenant it found, for any number of admins,    *)
(* requests, logins, reloads and restarts.                                 *)
(***************************************************************************)
EXTENDS FrontDoor, Gateway, FiniteSetTheorems, TLAPS

Up == service.is = "up"
Down == service.is = "down"

(* Each timer that outlives a change of the service is paid for by the time *)
(* since that change: what is left of it and that time have a bound.        *)
Breaker == Up /\ circuit > 0 => circuit + service.for <= Timeout + Backoff

Waiting ==
  \A h \in Handlers : handlers[h].pc = "asked" =>
    /\ Up /\ handlers[h].cut => handlers[h].left + service.for <= Timeout
    /\ ~Up => handlers[h].cut

Failing == \A h \in Handlers : handlers[h].pc = "trip" /\ Up => service.for <= Timeout

Cached ==
  /\ Down /\ cache.ready /\ cache.left > 0 => service.for + cache.left <= TTL
  /\ Up /\ ~cache.ready /\ cache.left > 0 => service.for + cache.left <= Long

(* A probe is wrong only about a change that happened under it.             *)
Seen == probe.by # "nobody" /\ (probe.up <=> Down) => service.for = 0

AtTheGate ==
  \A h \in Handlers : /\ probe.by = h => handlers[h].pc = "gate"
                      /\ handlers[h].pc = "gate" => ~handlers[h].ws

GateInv == TypeOK /\ Breaker /\ Waiting /\ Failing /\ Cached /\ Seen /\ AtTheGate

-----------------------------------------------------------------------------
HandlerRecord == [pc : {"idle", "gate", "check", "asked", "reset", "trip"},
                  ws : BOOLEAN, left : 0 .. Timeout, cut : BOOLEAN]

LEMMA GateInit == InitGateway => GateInv
<1> SUFFICES ASSUME InitGateway PROVE GateInv
  OBVIOUS
<1>1. TypeOK
  BY GatewayAssumption DEF InitGateway, TypeOK, Long, NoProbe
<1>2. service.for = 0 /\ circuit = 0 /\ cache.left = 0 /\ probe.by = "nobody"
  BY DEF InitGateway, NoProbe
<1>3. \A h \in Handlers : handlers[h].pc = "idle"
  BY DEF InitGateway
<1> QED BY <1>1, <1>2, <1>3, GatewayAssumption
        DEF GateInv, Breaker, Waiting, Failing, Cached, Seen, AtTheGate

(* A change of the service starts its clock again, so that every timer is   *)
(* within its bound; whoever waits may fail.                                *)
LEMMA ServiceStep == ASSUME GateInv, ServiceChanges PROVE GateInv'
<1>1. PICK is \in {"up", "slow", "down"} :
        /\ service' = [is |-> is, for |-> 0]
        /\ handlers' = [h \in Handlers |->
             [handlers[h] EXCEPT !.cut = @ \/ (handlers[h].pc = "asked" /\ is # "up")]]
  BY DEF ServiceChanges
<1>2. UNCHANGED <<circuit, cache, probe, warmUp>>
  BY DEF ServiceChanges
<1>3. service'.is = is /\ service'.for = 0
  BY <1>1
<1>4. ASSUME NEW h \in Handlers
      PROVE  /\ handlers'[h] \in HandlerRecord
             /\ handlers'[h].pc = handlers[h].pc /\ handlers'[h].ws = handlers[h].ws
             /\ handlers'[h].left = handlers[h].left
             /\ handlers'[h].cut <=> handlers[h].cut \/ (handlers[h].pc = "asked" /\ is # "up")
  <2>1. handlers[h] \in HandlerRecord
    BY DEF GateInv, TypeOK, HandlerRecord
  <2>2. handlers'[h] = [handlers[h] EXCEPT !.cut = @ \/ (handlers[h].pc = "asked" /\ is # "up")]
    BY <1>1
  <2> QED BY <2>1, <2>2 DEF HandlerRecord
<1>5. TypeOK'
  <2>1. service' \in [is : {"up", "slow", "down"}, for : 0 .. Long]
    BY <1>1, GatewayAssumption DEF Long
  <2>2. handlers' \in [Handlers -> HandlerRecord]
    BY <1>1, <1>4
  <2> QED BY <1>2, <2>1, <2>2 DEF GateInv, TypeOK, HandlerRecord
<1>6. Breaker' /\ Seen' /\ Cached'
  BY <1>2, <1>3, GatewayAssumption DEF GateInv, TypeOK, Breaker, Seen, Cached, Long, Up, Down
<1>7. Waiting' /\ Failing'
  BY <1>3, <1>4, GatewayAssumption DEF Waiting, Failing, Up, HandlerRecord
<1>8. AtTheGate'
  BY <1>2, <1>4 DEF GateInv, AtTheGate
<1> QED BY <1>5, <1>6, <1>7, <1>8 DEF GateInv

(* With a tick what is left of each timer goes down as the clock goes up.   *)
LEMMA TickStep == ASSUME GateInv, Tick PROVE GateInv'
<1>1. /\ service.for \in 0 .. Long /\ circuit \in 0 .. Backoff /\ cache.left \in 0 .. TTL
      /\ cache.ready \in BOOLEAN /\ service.is \in {"up", "slow", "down"}
  BY DEF GateInv, TypeOK
<1>2. UNCHANGED <<probe, warmUp>> /\ probe = NoProbe
  BY DEF Tick
<1>3. service'.is = service.is /\ service'.for \in 0 .. Long /\ service'.for <= service.for + 1
  <2>1. service' = [service EXCEPT !.for = IF @ = Long THEN @ ELSE @ + 1]
    BY DEF Tick
  <2>2. service \in [is : {"up", "slow", "down"}, for : 0 .. Long]
    BY DEF GateInv, TypeOK
  <2>3. Long \in Nat
    BY GatewayAssumption DEF Long
  <2> QED BY <2>1, <2>2, <2>3
<1>4. circuit' \in 0 .. Backoff /\ (circuit' > 0 => circuit' = circuit - 1)
  BY <1>1, GatewayAssumption DEF Tick, Less
<1>5. /\ cache'.ready = cache.ready /\ cache'.left \in 0 .. TTL
      /\ cache'.left > 0 => cache'.left = cache.left - 1
      /\ cache' \in [ready : BOOLEAN, left : 0 .. TTL]
  <2>1. cache' = [cache EXCEPT !.left = Less(cache.left)]
    BY DEF Tick
  <2>2. Less(cache.left) \in 0 .. TTL /\ (Less(cache.left) > 0 => Less(cache.left) = cache.left - 1)
    BY <1>1, GatewayAssumption DEF Less
  <2> QED BY <2>1, <2>2 DEF GateInv, TypeOK
<1>6. ASSUME NEW h \in Handlers
      PROVE  /\ handlers'[h] \in HandlerRecord
             /\ handlers'[h].pc = handlers[h].pc /\ handlers'[h].ws = handlers[h].ws
             /\ handlers'[h].cut = handlers[h].cut /\ handlers[h].left \in 0 .. Timeout
             /\ handlers[h].pc = "asked" => handlers'[h].left = handlers[h].left - 1
             /\ handlers[h].pc # "trip"
  <2>1. handlers[h] \in HandlerRecord
    BY DEF GateInv, TypeOK, HandlerRecord
  <2>2. handlers'[h] = [handlers[h] EXCEPT !.left = Less(handlers[h].left)]
    BY DEF Tick
  <2>3. handlers[h].left \in 0 .. Timeout
    BY <2>1 DEF HandlerRecord
  <2>4. handlers[h].pc # "trip" /\ (handlers[h].pc = "asked" => handlers[h].left > 0)
    BY DEF Tick
  <2>5. /\ Less(handlers[h].left) \in 0 .. Timeout
        /\ handlers[h].pc = "asked" => Less(handlers[h].left) = handlers[h].left - 1
    BY <2>3, <2>4, GatewayAssumption DEF Less
  <2> QED BY <2>1, <2>2, <2>3, <2>4, <2>5 DEF HandlerRecord
<1>7. TypeOK'
  <2>1. service' \in [is : {"up", "slow", "down"}, for : 0 .. Long]
    BY <1>3 DEF Tick, GateInv, TypeOK
  <2>2. handlers' \in [Handlers -> HandlerRecord]
    BY <1>6 DEF Tick
  <2> QED BY <1>2, <1>4, <1>5, <2>1, <2>2 DEF GateInv, TypeOK, HandlerRecord
<1>8. Breaker' /\ Cached'
  BY <1>1, <1>3, <1>4, <1>5, GatewayAssumption DEF GateInv, Breaker, Cached, Long, Up, Down
<1>9. Waiting' /\ Failing'
  BY <1>1, <1>3, <1>6, GatewayAssumption DEF GateInv, Waiting, Failing, Up
<1>10. Seen' /\ AtTheGate'
  BY <1>2, <1>6 DEF GateInv, Seen, AtTheGate, NoProbe
<1> QED BY <1>7, <1>8, <1>9, <1>10 DEF GateInv

(* What a step that leaves the service and the other handlers alone owes.   *)
LEMMA HandlerStep ==
  ASSUME GateInv, NEW h \in Handlers, NEW r \in HandlerRecord,
         service' = service, handlers' = [handlers EXCEPT ![h] = r],
         circuit' \in 0 .. Backoff, cache' \in [ready : BOOLEAN, left : 0 .. TTL],
         probe' \in [by : Handlers \cup {"nobody"}, up : BOOLEAN], warmUp' = warmUp,
         Breaker', Cached', Seen',
         r.pc = "asked" => (Up /\ r.cut => r.left + service.for <= Timeout) /\ (~Up => r.cut),
         r.pc = "trip" /\ Up => service.for <= Timeout,
         probe'.by = h => r.pc = "gate",
         r.pc = "gate" => ~r.ws,
         \A k \in Handlers \ {h} : probe'.by = k => probe.by = k
  PROVE  GateInv'
<1>1. handlers \in [Handlers -> HandlerRecord]
  BY DEF GateInv, TypeOK, HandlerRecord
<1>2. handlers' \in [Handlers -> HandlerRecord]
  BY <1>1
<1>3. handlers'[h] = r /\ \A k \in Handlers \ {h} : handlers'[k] = handlers[k]
  BY <1>1
<1>4. TypeOK'
  BY <1>2 DEF GateInv, TypeOK, HandlerRecord
<1>5. Waiting'
  BY <1>3 DEF GateInv, Waiting, Up
<1>6. Failing'
  BY <1>3 DEF GateInv, Failing, Up
<1>7. AtTheGate'
  BY <1>3 DEF GateInv, AtTheGate
<1> QED BY <1>4, <1>5, <1>6, <1>7 DEF GateInv

-----------------------------------------------------------------------------
(* The steps of a handler, each by what it makes of the handler's record.   *)
LEMMA RecordOf == ASSUME GateInv, NEW h \in Handlers PROVE handlers[h] \in HandlerRecord
BY DEF GateInv, TypeOK, HandlerRecord

(* Steps that only move the handler, to where nothing is owed.              *)
LEMMA MoveStep ==
  ASSUME GateInv, NEW h \in Handlers,
         NewRequest(h) \/ Message(h) \/ Hangup(h) \/ CheckOpen(h) \/ Answers(h)
  PROVE  GateInv'
<1>1. UNCHANGED <<service, circuit, cache, probe, warmUp>>
  BY DEF NewRequest, Message, Hangup, CheckOpen, Answers
<1>2. handlers[h] \in HandlerRecord
  BY RecordOf
<1>3. PICK pc \in {"idle", "gate", "check", "reset"}, ws \in BOOLEAN :
        /\ handlers' = [handlers EXCEPT ![h] = [handlers[h] EXCEPT !.pc = pc, !.ws = ws]]
        /\ pc = "gate" => ~ws
        /\ handlers[h].pc # "gate"
  <2>1. CASE NewRequest(h)
    <3>1. handlers' = [handlers EXCEPT ![h] = [handlers[h] EXCEPT !.pc = "gate", !.ws = FALSE]]
      BY <1>2, <2>1 DEF NewRequest, HandlerRecord
    <3> QED BY <2>1, <3>1 DEF NewRequest
  <2>2. CASE Message(h)
    <3>1. handlers' = [handlers EXCEPT ![h] = [handlers[h] EXCEPT !.pc = "check", !.ws = TRUE]]
      BY <1>2, <2>2 DEF Message, HandlerRecord
    <3> QED BY <2>2, <3>1 DEF Message
  <2>3. CASE Hangup(h)
    <3>1. handlers' = [handlers EXCEPT ![h] = [handlers[h] EXCEPT !.pc = "idle", !.ws = FALSE]]
      BY <1>2, <2>3 DEF Hangup, HandlerRecord
    <3> QED BY <2>3, <3>1 DEF Hangup
  <2>4. CASE CheckOpen(h)
    <3>1. handlers' = [handlers EXCEPT ![h] =
                         [handlers[h] EXCEPT !.pc = "idle", !.ws = handlers[h].ws]]
      BY <1>2, <2>4 DEF CheckOpen, HandlerRecord
    <3>2. handlers[h].ws \in BOOLEAN
      BY <1>2 DEF HandlerRecord
    <3> QED BY <2>4, <3>1, <3>2 DEF CheckOpen
  <2>5. CASE Answers(h)
    <3>1. handlers' = [handlers EXCEPT ![h] =
                         [handlers[h] EXCEPT !.pc = "reset", !.ws = handlers[h].ws]]
      BY <1>2, <2>5 DEF Answers, HandlerRecord
    <3>2. handlers[h].ws \in BOOLEAN
      BY <1>2 DEF HandlerRecord
    <3> QED BY <2>5, <3>1, <3>2 DEF Answers
  <2> QED BY <2>1, <2>2, <2>3, <2>4, <2>5
<1>4. PICK r \in HandlerRecord : r = [handlers[h] EXCEPT !.pc = pc, !.ws = ws]
  BY <1>2 DEF HandlerRecord
<1>5. r.pc = pc /\ r.ws = ws
  BY <1>2, <1>4 DEF HandlerRecord
<1>6. handlers' = [handlers EXCEPT ![h] = r]
  BY <1>3, <1>4
<1>7. probe'.by # h
  BY <1>1, <1>3 DEF GateInv, AtTheGate
<1>8. Breaker' /\ Cached' /\ Seen'
  BY <1>1 DEF GateInv, Breaker, Cached, Seen, Up, Down
<1>9. \A k \in Handlers \ {h} : probe'.by = k => probe.by = k
  BY <1>1
<1>10. /\ circuit' \in 0 .. Backoff /\ cache' \in [ready : BOOLEAN, left : 0 .. TTL]
       /\ probe' \in [by : Handlers \cup {"nobody"}, up : BOOLEAN]
  BY <1>1 DEF GateInv, TypeOK
<1>11. r.pc \notin {"asked", "trip"} /\ (r.pc = "gate" => ~r.ws)
  BY <1>3, <1>5
<1> QED BY <1>1, <1>6, <1>7, <1>8, <1>9, <1>10, <1>11, HandlerStep

(* The breaker's own steps: an answer closes it, a failure within a timeout *)
(* of the scanner's return, or before, opens it.                            *)
LEMMA BreakerStep ==
  ASSUME GateInv, NEW h \in Handlers, CheckClosed(h) \/ Reset(h) \/ Fails(h) \/ Trip(h)
  PROVE  GateInv'
<1>1. UNCHANGED <<service, cache, probe, warmUp>>
  BY DEF CheckClosed, Reset, Fails, Trip
<1>2. handlers[h] \in HandlerRecord /\ handlers[h].pc # "gate"
  BY RecordOf DEF CheckClosed, Reset, Fails, Trip
<1>3. circuit' \in 0 .. Backoff /\ Breaker'
  <2>1. CASE CheckClosed(h) \/ Fails(h)
    BY <1>1, <2>1 DEF CheckClosed, Fails, GateInv, TypeOK, Breaker, Up
  <2>2. CASE Reset(h)
    BY <1>1, <2>2, GatewayAssumption DEF Reset, Breaker, Up
  <2>3. CASE Trip(h)
    <3>1. circuit' = Backoff /\ (Up => service.for <= Timeout)
      BY <2>3 DEF Trip, GateInv, Failing
    <3>2. service.for \in Nat
      BY GatewayAssumption DEF GateInv, TypeOK, Long
    <3> QED BY <1>1, <3>1, <3>2, GatewayAssumption DEF Breaker, Up
  <2> QED BY <2>1, <2>2, <2>3
<1>4. PICK r \in HandlerRecord :
        /\ handlers' = [handlers EXCEPT ![h] = r]
        /\ r.pc = "asked" => (Up /\ r.cut => r.left + service.for <= Timeout) /\ (~Up => r.cut)
        /\ r.pc = "trip" /\ Up => service.for <= Timeout
        /\ r.pc # "gate"
  <2>1. CASE CheckClosed(h)
    <3>1. PICK cut \in BOOLEAN : cut = (service.is # "up")
      OBVIOUS
    <3>2. PICK r : r = [handlers[h] EXCEPT !.pc = "asked", !.left = Timeout, !.cut = cut]
      OBVIOUS
    <3>3. r \in HandlerRecord /\ r.pc = "asked" /\ r.cut = cut
      <4>1. Timeout \in 0 .. Timeout
        BY GatewayAssumption
      <4>2. r = [pc |-> "asked", ws |-> handlers[h].ws, left |-> Timeout, cut |-> cut]
        BY <1>2, <3>2 DEF HandlerRecord
      <4>3. handlers[h].ws \in BOOLEAN
        BY <1>2 DEF HandlerRecord
      <4> QED BY <4>1, <4>2, <4>3 DEF HandlerRecord
    <3>4. handlers' = [handlers EXCEPT ![h] = r]
      BY <2>1, <3>1, <3>2 DEF CheckClosed
    <3> QED BY <3>1, <3>3, <3>4 DEF Up
  <2>2. CASE Reset(h) \/ Trip(h)
    <3>1. PICK r : r = [handlers[h] EXCEPT !.pc = "idle"]
      OBVIOUS
    <3>2. r \in HandlerRecord /\ r.pc = "idle" /\ handlers' = [handlers EXCEPT ![h] = r]
      BY <1>2, <2>2, <3>1 DEF Reset, Trip, HandlerRecord
    <3> QED BY <3>2
  <2>3. CASE Fails(h)
    <3>1. PICK r : r = [handlers[h] EXCEPT !.pc = "trip"]
      OBVIOUS
    <3>2. r \in HandlerRecord /\ r.pc = "trip" /\ handlers' = [handlers EXCEPT ![h] = r]
      BY <1>2, <2>3, <3>1 DEF Fails, HandlerRecord
    <3>3. Up => handlers[h].left + service.for <= Timeout
      BY <2>3 DEF Fails, GateInv, Waiting
    <3>4. handlers[h].left \in Nat /\ service.for \in Nat
      BY <1>2, GatewayAssumption DEF GateInv, TypeOK, Long, HandlerRecord
    <3>5. Up => service.for <= Timeout
      BY <3>3, <3>4, GatewayAssumption
    <3> QED BY <3>2, <3>5
  <2> QED BY <2>1, <2>2, <2>3
<1>5. Cached' /\ Seen'
  BY <1>1 DEF GateInv, Cached, Seen, Up, Down
<1>6. probe'.by # h /\ \A k \in Handlers \ {h} : probe'.by = k => probe.by = k
  BY <1>1, <1>2 DEF GateInv, AtTheGate
<1>7. /\ cache' \in [ready : BOOLEAN, left : 0 .. TTL]
      /\ probe' \in [by : Handlers \cup {"nobody"}, up : BOOLEAN]
  BY <1>1 DEF GateInv, TypeOK
<1> QED BY <1>1, <1>3, <1>4, <1>5, <1>6, <1>7, HandlerStep

(* The gate's steps, under its mutex: only one handler probes, and what it  *)
(* saw is wrong only about a change under the probe.                        *)
LEMMA GateStep ==
  ASSUME GateInv, NEW h \in Handlers, GateCached(h) \/ Probe(h) \/ ProbeEnds(h)
  PROVE  GateInv'
<1>1. UNCHANGED <<service, circuit, warmUp>>
  BY DEF GateCached, Probe, ProbeEnds
<1>2. handlers[h] \in HandlerRecord /\ handlers[h].pc = "gate"
  BY RecordOf DEF GateCached, Probe, ProbeEnds, GateInv, AtTheGate
<1>3. /\ circuit' \in 0 .. Backoff /\ Breaker'
      /\ service.is \in {"up", "slow", "down"} /\ service.for \in 0 .. Long
  BY <1>1 DEF GateInv, TypeOK, Breaker, Up
<1>4. ASSUME NEW ready \in BOOLEAN, Answer(h, ready)
      PROVE  \E r \in HandlerRecord : handlers' = [handlers EXCEPT ![h] = r]
                                      /\ r.pc \in {"idle", "check"}
  <2>1. PICK pc \in {"idle", "check"}, ws \in BOOLEAN :
          handlers' = [handlers EXCEPT ![h] = [handlers[h] EXCEPT !.pc = pc, !.ws = ws]]
    <3>1. /\ handlers[h].ws \in BOOLEAN
          /\ \A pc \in {"idle", "check"} :
               [handlers[h] EXCEPT !.pc = pc]
                 = [handlers[h] EXCEPT !.pc = pc, !.ws = handlers[h].ws]
      BY <1>2 DEF HandlerRecord
    <3>2. CASE handlers' = [handlers EXCEPT ![h].pc = "idle"]
      BY <3>1, <3>2
    <3>3. CASE handlers' = [handlers EXCEPT ![h].pc = "check"]
      BY <3>1, <3>3
    <3>4. CASE handlers' = [handlers EXCEPT ![h].pc = "idle", ![h].ws = TRUE]
      BY <1>2, <3>4 DEF HandlerRecord
    <3> QED BY <1>4, <3>2, <3>3, <3>4 DEF Answer
  <2>2. PICK r : r = [handlers[h] EXCEPT !.pc = pc, !.ws = ws]
    OBVIOUS
  <2>3. r \in HandlerRecord /\ r.pc = pc /\ handlers' = [handlers EXCEPT ![h] = r]
    BY <1>2, <2>1, <2>2 DEF HandlerRecord
  <2> QED BY <2>3
<1>5. CASE GateCached(h)
  <2>1. UNCHANGED <<cache, probe>> /\ probe = NoProbe
    BY <1>5 DEF GateCached
  <2>2. cache.ready \in BOOLEAN
    BY DEF GateInv, TypeOK
  <2>3. PICK r \in HandlerRecord : /\ handlers' = [handlers EXCEPT ![h] = r]
                                   /\ r.pc \in {"idle", "check"}
    BY <1>4, <1>5, <2>2 DEF GateCached
  <2>4. Cached' /\ Seen'
    BY <1>1, <2>1 DEF GateInv, Cached, Seen, Up, Down
  <2>5. \A k \in Handlers : probe'.by # k
    BY <2>1, GatewayAssumption DEF NoProbe
  <2>6. /\ cache' \in [ready : BOOLEAN, left : 0 .. TTL]
        /\ probe' \in [by : Handlers \cup {"nobody"}, up : BOOLEAN]
    BY <2>1 DEF GateInv, TypeOK
  <2>7. r.pc \notin {"asked", "trip", "gate"}
    BY <2>3
  <2> QED BY <1>1, <1>3, <2>3, <2>4, <2>5, <2>6, <2>7, HandlerStep
<1>6. CASE Probe(h)
  <2>1. UNCHANGED <<cache, handlers>> /\ probe = NoProbe
    BY <1>6 DEF Probe
  <2>2. probe' = [by |-> h, up |-> service.is # "down"]
    BY <1>6 DEF Probe
  <2>3. Cached' /\ Breaker' /\ Waiting' /\ Failing'
    BY <1>1, <2>1 DEF GateInv, Cached, Breaker, Waiting, Failing, Up, Down
  <2>4. Seen'
    BY <1>1, <2>2 DEF Seen, Down
  <2>5. AtTheGate'
    BY <1>2, <2>1, <2>2 DEF GateInv, AtTheGate
  <2>6. TypeOK'
    BY <1>1, <2>1, <2>2 DEF GateInv, TypeOK
  <2> QED BY <2>3, <2>4, <2>5, <2>6 DEF GateInv
<1>7. CASE ProbeEnds(h)
  <2>1. /\ probe.by = h /\ probe' = NoProbe
        /\ cache' = [ready |-> Ready(probe.up), left |-> TTL] /\ Answer(h, Ready(probe.up))
    BY <1>7 DEF ProbeEnds
  <2>2. probe.up \in BOOLEAN /\ Ready(probe.up) \in BOOLEAN /\ circuit \in 0 .. Backoff
    BY DEF GateInv, TypeOK, Ready
  <2>3. PICK r \in HandlerRecord : /\ handlers' = [handlers EXCEPT ![h] = r]
                                   /\ r.pc \in {"idle", "check"}
    BY <1>4, <2>1, <2>2
  <2>4. probe.by # "nobody"
    BY <2>1, GatewayAssumption
  <2>5. Cached'
    <3>1. cache'.ready = Ready(probe.up) /\ cache'.left = TTL
      BY <2>1
    <3>2. Down /\ cache'.ready => service.for = 0
      BY <2>2, <2>4, <3>1 DEF GateInv, Seen, Ready
    <3>3. Up /\ ~cache'.ready => service.for <= Timeout + Backoff
      <4>1. CASE circuit > 0
        BY <1>3, <2>2, <4>1, GatewayAssumption DEF GateInv, Breaker, Long
      <4>2. CASE ~(circuit > 0)
        <5>1. circuit = 0
          BY <2>2, <4>2, GatewayAssumption
        <5>2. ~cache'.ready => ~probe.up
          BY <3>1, <5>1 DEF Ready
        <5> QED BY <2>2, <2>4, <5>2, GatewayAssumption DEF GateInv, Seen, Up, Down
      <4> QED BY <4>1, <4>2
    <3> QED BY <1>1, <1>3, <3>1, <3>2, <3>3, GatewayAssumption DEF Cached, Up, Down, Long
  <2>6. Seen' /\ \A k \in Handlers : probe'.by # k
    BY <2>1, GatewayAssumption DEF Seen, NoProbe
  <2>7. /\ cache' \in [ready : BOOLEAN, left : 0 .. TTL]
        /\ probe' \in [by : Handlers \cup {"nobody"}, up : BOOLEAN]
    BY <2>1, <2>2, GatewayAssumption DEF NoProbe
  <2>8. r.pc \notin {"asked", "trip", "gate"}
    BY <2>3
  <2> QED BY <1>1, <1>3, <2>3, <2>5, <2>6, <2>7, <2>8, HandlerStep
<1> QED BY <1>5, <1>6, <1>7

LEMMA WarmUpStep ==
  ASSUME GateInv, WarmUpAnswers \/ WarmUpFails \/ WarmUpResets PROVE GateInv'
<1>1. /\ UNCHANGED <<service, cache, probe, handlers>>
      /\ circuit' \in {circuit, 0} /\ warmUp' \in {"asking", "reset", "done"}
  BY DEF WarmUpAnswers, WarmUpFails, WarmUpResets
<1>2. TypeOK' /\ Breaker'
  BY <1>1, GatewayAssumption DEF GateInv, TypeOK, Breaker, Up
<1>3. Waiting' /\ Failing' /\ Cached' /\ Seen' /\ AtTheGate'
  BY <1>1 DEF GateInv, Waiting, Failing, Cached, Seen, AtTheGate, Up, Down
<1> QED BY <1>2, <1>3 DEF GateInv

LEMMA GateKept == GateInv /\ [NextGateway]_gatewayVars => GateInv'
<1> SUFFICES ASSUME GateInv, [NextGateway]_gatewayVars PROVE GateInv'
  OBVIOUS
<1>1. CASE Tick
  BY <1>1, TickStep
<1>2. CASE ServiceChanges
  BY <1>2, ServiceStep
<1>3. CASE WarmUpAnswers \/ WarmUpFails \/ WarmUpResets
  BY <1>3, WarmUpStep
<1>4. ASSUME NEW h \in Handlers, Handle(h) PROVE GateInv'
  BY <1>4, MoveStep, BreakerStep, GateStep DEF Handle
<1>5. CASE UNCHANGED gatewayVars
  BY <1>5 DEF gatewayVars, GateInv, TypeOK, Breaker, Waiting, Failing, Cached, Seen, AtTheGate, Up, Down
<1> QED BY <1>1, <1>2, <1>3, <1>4, <1>5 DEF NextGateway

-----------------------------------------------------------------------------
(* The clocks stay within their bounds, and the timers of waiting messages, *)
(* of the breaker and of the cached verdict with the time since the service *)
(* last changed within theirs.                                              *)
THEOREM GateInvariance == GatewaySpec => []GateInv
BY GateInit, GateKept, PTL DEF GatewaySpec

(* Every variable keeps its type: the breaker's timer never exceeds one     *)
(* backoff, whatever failures come together.                                *)
THEOREM TypeCorrect == GatewaySpec => []TypeOK
<1>1. GateInv => TypeOK
  BY DEF GateInv
<1> QED BY <1>1, GateInvariance, PTL

(* A message passes unscanned only during an outage, or within one timeout  *)
(* and one backoff of its end.                                              *)
THEOREM UnscannedNearOutage == GatewaySpec => UnscannedOnlyNearOutage
<1>1. ASSUME GateInv, [NextGateway]_gatewayVars, NEW h \in Handlers,
             handlers[h].pc \in {"check", "trip"}, handlers'[h].pc = "idle"
      PROVE  service.is # "up" \/ service.for < Timeout + Backoff
  <2>1. handlers[h] \in HandlerRecord /\ handlers \in [Handlers -> HandlerRecord]
    BY <1>1 DEF GateInv, TypeOK, HandlerRecord
  <2>2. service.for \in Nat /\ circuit \in 0 .. Backoff
    BY <1>1, GatewayAssumption DEF GateInv, TypeOK, Long
  <2>3. CASE \E k \in Handlers : Handle(k)
    <3>1. PICK k \in Handlers : Handle(k)
      BY <2>3
    <3>2. handlers[k] \in HandlerRecord
      BY <1>1 DEF GateInv, TypeOK, HandlerRecord
    <3>3. k = h
      <4>1. ASSUME NEW r, handlers' = [handlers EXCEPT ![k] = r], k # h PROVE FALSE
        BY <1>1, <2>1, <4>1
      <4>2. \E r : handlers' = [handlers EXCEPT ![k] = r]
        BY <3>1, <2>1 DEF Handle, NewRequest, Message, Hangup, GateCached, Probe, ProbeEnds, Answer,
                   CheckOpen, CheckClosed, Answers, Reset, Fails, Trip
      <4> QED BY <4>1, <4>2
    <3>4. handlers[h].pc # "gate" /\ handlers[h].pc # "idle" /\ handlers[h].pc # "asked"
          /\ handlers[h].pc # "reset"
      BY <1>1
    <3>5. probe.by # h
      BY <1>1, <3>4 DEF GateInv, AtTheGate
    <3>6. CheckOpen(h) \/ CheckClosed(h) \/ Trip(h)
      BY <3>1, <3>3, <3>4, <3>5 DEF Handle, NewRequest, Message, Hangup, GateCached, Probe,
                   ProbeEnds, Answers, Reset, Fails
    <3>7. CASE CheckOpen(h)
      <4>1. circuit > 0
        BY <3>7 DEF CheckOpen
      <4> QED BY <1>1, <2>2, <4>1, GatewayAssumption DEF GateInv, Breaker, Up
    <3>8. CASE CheckClosed(h)
      BY <1>1, <2>1, <3>8 DEF CheckClosed, HandlerRecord
    <3>9. CASE Trip(h)
      <4>1. Up => service.for <= Timeout
        BY <1>1, <3>9 DEF GateInv, Failing, Trip
      <4> QED BY <2>2, <4>1, GatewayAssumption DEF Up
    <3> QED BY <3>6, <3>7, <3>8, <3>9
  <2>4. CASE ~\E k \in Handlers : Handle(k)
    <3>1. handlers'[h].pc = handlers[h].pc
      BY <1>1, <2>1, <2>4 DEF NextGateway, Tick, ServiceChanges, WarmUpAnswers, WarmUpFails,
                              WarmUpResets, gatewayVars, HandlerRecord
    <3> QED BY <1>1, <3>1
  <2> QED BY <2>3, <2>4
<1>2. GateInv /\ [NextGateway]_gatewayVars =>
        [\A h \in Handlers :
           handlers[h].pc \in {"check", "trip"} /\ handlers'[h].pc = "idle" =>
             service.is # "up" \/ service.for < Timeout + Backoff]_gatewayVars
  BY <1>1
<1> QED BY <1>2, GateInvariance, PTL DEF GatewaySpec, UnscannedOnlyNearOutage

(* The gate admits only within one cache period of an outage's start, and   *)
(* refuses only within one timeout, backoff and cache period of its end.    *)
THEOREM GateHolds == GatewaySpec => GateFollowsService
<1>1. ASSUME GateInv, [NextGateway]_gatewayVars, NEW h \in Handlers,
             handlers[h].pc = "gate", handlers'[h].pc # "gate"
      PROVE  IF handlers'[h].pc = "idle" /\ ~handlers'[h].ws
             THEN service.is # "up" \/ service.for < Long
             ELSE service.is # "down" \/ service.for < TTL
  <2>1. handlers[h] \in HandlerRecord /\ handlers \in [Handlers -> HandlerRecord]
    BY <1>1 DEF GateInv, TypeOK, HandlerRecord
  <2>2. /\ service.for \in Nat /\ circuit \in 0 .. Backoff /\ cache.left \in 0 .. TTL
        /\ cache.ready \in BOOLEAN /\ probe.up \in BOOLEAN
    BY <1>1, GatewayAssumption DEF GateInv, TypeOK, Long
  <2>3. ASSUME NEW ready \in BOOLEAN, Answer(h, ready)
        PROVE  handlers'[h].pc = "idle" /\ ~handlers'[h].ws <=> ~ready
    <3>1. ~handlers[h].ws
      BY <1>1 DEF GateInv, AtTheGate
    <3>2. CASE ~ready
      BY <2>1, <2>3, <3>1, <3>2 DEF Answer, HandlerRecord
    <3>3. CASE ready /\ handlers' = [handlers EXCEPT ![h].pc = "check"]
      BY <2>1, <3>3 DEF HandlerRecord
    <3>4. CASE ready /\ handlers' = [handlers EXCEPT ![h].pc = "idle", ![h].ws = TRUE]
      BY <2>1, <3>4 DEF HandlerRecord
    <3> QED BY <2>3, <3>2, <3>3, <3>4 DEF Answer
  <2>4. CASE GateCached(h)
    <3>1. cache.left > 0 /\ Answer(h, cache.ready)
      BY <2>4 DEF GateCached, Fresh
    <3>2. handlers'[h].pc = "idle" /\ ~handlers'[h].ws <=> ~cache.ready
      BY <2>2, <2>3, <3>1
    <3>3. ~cache.ready /\ Up => service.for < Long
      BY <1>1, <2>2, <3>1, GatewayAssumption DEF GateInv, Cached, Long
    <3>4. cache.ready /\ Down => service.for < TTL
      BY <1>1, <2>2, <3>1, GatewayAssumption DEF GateInv, Cached
    <3> QED BY <3>2, <3>3, <3>4 DEF Up, Down
  <2>5. CASE ProbeEnds(h)
    <3>1. probe.by # "nobody" /\ Answer(h, Ready(probe.up)) /\ Ready(probe.up) \in BOOLEAN
      BY <2>2, <2>5, GatewayAssumption DEF ProbeEnds, Ready
    <3>2. handlers'[h].pc = "idle" /\ ~handlers'[h].ws <=> ~Ready(probe.up)
      BY <2>3, <3>1
    <3>3. ~Ready(probe.up) /\ Up => service.for < Long
      <4>1. CASE circuit > 0
        BY <1>1, <2>2, <4>1, GatewayAssumption DEF GateInv, Breaker, Long
      <4>2. CASE ~(circuit > 0)
        <5>1. circuit = 0
          BY <2>2, <4>2, GatewayAssumption
        <5>2. ~Ready(probe.up) /\ Up => service.for = 0
          BY <1>1, <2>2, <3>1, <5>1 DEF GateInv, Seen, Ready, Up, Down
        <5> QED BY <5>2, GatewayAssumption DEF Long
      <4> QED BY <4>1, <4>2
    <3>4. Ready(probe.up) /\ Down => service.for < TTL
      <4>1. Ready(probe.up) /\ Down => service.for = 0
        BY <1>1, <2>2, <3>1 DEF GateInv, Seen, Ready
      <4> QED BY <4>1, GatewayAssumption
    <3> QED BY <3>2, <3>3, <3>4 DEF Up, Down
  <2>6. CASE ~GateCached(h) /\ ~ProbeEnds(h)
    <3>1. CASE \E k \in Handlers : Handle(k)
      <4>1. PICK k \in Handlers : Handle(k)
        BY <3>1
      <4>2. \/ handlers' = handlers
            \/ k # h /\ \E r : handlers' = [handlers EXCEPT ![k] = r]
        BY <1>1, <2>6, <4>1 DEF Handle, NewRequest, Message, Hangup, GateCached, Probe, ProbeEnds,
                   Answer, CheckOpen, CheckClosed, Answers, Reset, Fails, Trip
      <4>3. handlers'[h] = handlers[h]
        BY <2>1, <4>2
      <4> QED BY <1>1, <4>3
    <3>2. CASE ~\E k \in Handlers : Handle(k)
      <4>1. handlers'[h].pc = handlers[h].pc
        BY <1>1, <2>1, <3>2 DEF NextGateway, Tick, ServiceChanges, WarmUpAnswers, WarmUpFails,
                                WarmUpResets, gatewayVars, HandlerRecord
      <4> QED BY <1>1, <4>1
    <3> QED BY <3>1, <3>2
  <2> QED BY <2>4, <2>5, <2>6
<1>2. GateInv /\ [NextGateway]_gatewayVars =>
        [\A h \in Handlers :
           handlers[h].pc = "gate" /\ handlers'[h].pc # "gate" =>
             IF handlers'[h].pc = "idle" /\ ~handlers'[h].ws
             THEN service.is # "up" \/ service.for < Long
             ELSE service.is # "down" \/ service.for < TTL]_gatewayVars
  BY <1>1
<1> QED BY <1>2, GateInvariance, PTL DEF GatewaySpec, GateFollowsService

-----------------------------------------------------------------------------
(* Tenants, single sign-on and the requests between them: the types *)

Metas == Tokens \cup {None, Torn}
SavedPolicies == Texts \cup {Root, None, Torn}
Tenant == [id : TenantIDs \cup {None}, token : Metas, policy : SavedPolicies]
Dir == [there : BOOLEAN, meta : Metas, policy : SavedPolicies]
Unregistered == {"mkdir", "meta", "seed", "read", "register"}
Worker == [pc : Unregistered \cup {"idle", "activate", "kill", "remove", "apply", "write"},
           id : TenantIDs \cup {None}, token : Tokens \cup {None},
           text : SavedPolicies, obj : 0 .. MaxTenants]

TenantsTyped ==
  /\ tenantRegistry \in [TenantIDs -> 0 .. MaxTenants]
  /\ tenantTokenIndex \in [Tokens -> TenantIDs \cup {None}]
  /\ multiTenancyActive \in BOOLEAN
  /\ tenants \in [Objects -> Tenant] /\ made \in 0 .. MaxTenants
  /\ dirs \in [TenantIDs -> Dir] /\ workers \in [Workers -> Worker]
  /\ met \subseteq TenantIDs /\ crossed \subseteq TenantIDs /\ gone \subseteq TenantIDs
  /\ shared \subseteq Tokens

Providers == Configs \cup {NoConfig}
SSOPolicy == [on : BOOLEAN, config : Providers, maps : BOOLEAN]
LoadRecord == [pc : {"none", "begin", "cfg", "verifier", "oauth2", "done"},
               policy : SSOPolicy, alone : BOOLEAN, ok : BOOLEAN]
LoginRecord == [pc : {"none", "provider", "exchange", "verify", "verified", "over"},
                chat : BOOLEAN, with : Providers, crossed : BOOLEAN]
SessionRecord == [role : {"none", "user", "admin"}, by : Providers, loose : BOOLEAN]

LoginTyped ==
  /\ main \in {"load", "routes", "serve"} /\ routes \in BOOLEAN
  /\ sso \in SSOPolicy /\ file \in SSOPolicy
  /\ loads \in 0 .. MaxLoads /\ unread \in BOOLEAN
  /\ reinits \in [Loads -> LoadRecord]
  /\ oidcEnabled \in BOOLEAN
  /\ oidcCfg \in Providers /\ oidcVerifier \in Providers /\ oauth2Config \in Providers
  /\ tangled \in BOOLEAN
  /\ logins \in [Logins -> LoginRecord] /\ stateCookie \in 0 .. MaxLogins
  /\ oidcSessions \in [Logins -> SessionRecord] /\ chatCookie \in BOOLEAN

DoorTyped ==
  /\ requests \in [Clients -> [pc : {"idle", "gate", "index", "entry"},
                               token : Tokens \cup {None}, id : TenantIDs \cup {None},
                               obj : 0 .. MaxTenants]]
  /\ sessions \in [Objects \cup {Default} -> SUBSET Clients]
  /\ late \in [Objects -> SUBSET Clients] /\ work \in 0 .. MaxWork

-----------------------------------------------------------------------------
(* The invariant of Tenants *)

(* What a worker works on has its name, and objects that were made one of   *)
(* TenantIDs.                                                               *)
Employed ==
  /\ \A w \in Workers : workers[w].pc # "idle" => workers[w].id \in TenantIDs
  /\ \A w \in Workers : workers[w].pc \in Unregistered \cup {"activate"} => workers[w].token \in Tokens
  /\ \A w \in Workers : workers[w].pc \in {"kill", "remove", "apply", "write"} =>
       workers[w].obj \in 1 .. made /\ tenants[workers[w].obj].id = workers[w].id
  /\ \A k \in 1 .. made : tenants[k].id \in TenantIDs
  /\ \A id \in TenantIDs : tenantRegistry[id] # Default =>
       tenantRegistry[id] \in 1 .. made /\ tenants[tenantRegistry[id]].id = id

(* There is room for what is still to be registered.                        *)
Pending == {w \in Workers : workers[w].pc \in Unregistered}
Room == made + Cardinality(Pending) <= MaxTenants

Creates(w, id) == workers[w].id = id /\ workers[w].pc \in Unregistered \cup {"activate"}
Deletes(w, id) == workers[w].id = id /\ workers[w].pc \in {"kill", "remove"}
Saves(w, id) == workers[w].id = id /\ workers[w].pc \in {"apply", "write"}

(* Unless creations met others or deletions, there is one of either at a    *)
(* time, and the name is free while it is created or deleted.               *)
Turns(id) ==
  id \notin met =>
    /\ \A v, w \in Workers : Creates(v, id) /\ Creates(w, id) => v = w
    /\ \A v, w \in Workers : Creates(v, id) => ~Deletes(w, id)
    /\ \A w \in Workers :
         Deletes(w, id) \/ (Creates(w, id) /\ workers[w].pc # "activate") => tenantRegistry[id] = Default

(* How far a creation has come can be seen on the disk.                     *)
CreatedSoFar(id) ==
  \A w \in Workers : id \notin met /\ Creates(w, id) =>
    /\ workers[w].pc \in {"meta", "seed", "read", "register"} => dirs[id].there
    /\ workers[w].pc \in {"seed", "read", "register"} => dirs[id].meta = workers[w].token
    /\ workers[w].pc \in {"read", "register"} /\ id \notin crossed => dirs[id].policy = Root
    /\ workers[w].pc = "register" /\ id \notin crossed => workers[w].text = Root

OnDisk(id) ==
  id \notin met /\ tenantRegistry[id] # Default =>
    dirs[id].there /\ dirs[id].meta = tenants[tenantRegistry[id]].token

(* Unless saves met others or creations, there is one at a time, of the     *)
(* object that is registered, and policies differ only until it writes.     *)
SavesFollow(id) ==
  id \notin met \cup crossed =>
    /\ \A v, w \in Workers : Saves(v, id) /\ Saves(w, id) => v = w
    /\ \A v, w \in Workers : Saves(v, id) => ~Creates(w, id)
    /\ tenantRegistry[id] # Default =>
         LET policy == tenants[tenantRegistry[id]].policy IN
         /\ \A w \in Workers : Saves(w, id) =>
              /\ workers[w].obj = tenantRegistry[id]
              /\ workers[w].pc = "write" => policy = workers[w].text
         /\ \/ \E w \in Workers : Saves(w, id) /\ workers[w].pc = "write"
            \/ dirs[id].policy = policy
            \/ dirs[id].policy = None /\ policy = Root

GoneIsGone(id) ==
  id \in gone \ met =>
    ~dirs[id].there /\ tenantRegistry[id] = Default /\ \A w \in Workers : ~Creates(w, id)

NameInv(id) == Turns(id) /\ CreatedSoFar(id) /\ OnDisk(id) /\ SavesFollow(id) /\ GoneIsGone(id)

(* A token that was not given twice is on the disk, in the registry and on  *)
(* its way there under one name each, the same.                             *)
HasToken(id, t) == tenantRegistry[id] # Default /\ tenants[tenantRegistry[id]].token = t
Brings(w, t) == workers[w].pc \in Unregistered /\ workers[w].token = t

OneOwner(t) ==
  t \notin shared =>
    /\ \A i, j \in TenantIDs : dirs[i].meta = t /\ dirs[j].meta = t => i = j
    /\ \A i, j \in TenantIDs : HasToken(i, t) /\ HasToken(j, t) => i = j
    /\ \A w \in Workers : Brings(w, t) =>
         /\ \A v \in Workers : workers[v].token = t => v = w
         /\ \A i \in TenantIDs : ~HasToken(i, t)
         /\ \A i \in TenantIDs : dirs[i].meta = t => i = workers[w].id

Indexed(t) ==
  t \notin shared =>
    /\ \A id \in TenantIDs \ met : HasToken(id, t) =>
         /\ tenantTokenIndex[t] = id
         /\ multiTenancyActive \/ \E w \in Workers : Creates(w, id)
    /\ tenantTokenIndex[t] \notin met \cup {None} => HasToken(tenantTokenIndex[t], t)

TenantsInv ==
  /\ TenantsTyped /\ Employed /\ Room
  /\ \A id \in TenantIDs : NameInv(id)
  /\ \A t \in Tokens : OneOwner(t) /\ Indexed(t)

-----------------------------------------------------------------------------
(* The invariant of single sign-on *)

Runs(n) == reinits[n].pc \notin {"none", "done"}
Installs(n) == reinits[n].pc \in {"verifier", "oauth2"}

(* Loads are numbered as they begin; one that began alone and met no other  *)
(* is the last, and the only one under way.                                 *)
Numbered ==
  /\ \A n \in Loads : reinits[n].pc = "none" <=> n > loads
  /\ \A n \in Loads : Runs(n) /\ (reinits[n].alone \/ (loads > 0 /\ reinits[loads].alone)) => n = loads

(* How far a load alone has come can be seen in the settings.               *)
Progress ==
  /\ \A n \in Loads : reinits[n].pc \in {"cfg", "verifier", "oauth2"} => reinits[n].policy.on
  /\ loads > 0 /\ reinits[loads].alone =>
       LET r == reinits[loads] IN
       /\ r.pc \in {"verifier", "oauth2"} => oidcCfg = r.policy.config
       /\ r.pc = "oauth2" => oidcVerifier = r.policy.config
       /\ r.pc = "done" /\ r.ok =>
            /\ oidcEnabled = r.policy.on
            /\ r.policy.on => /\ oidcCfg = r.policy.config /\ oidcVerifier = r.policy.config
                              /\ oauth2Config = r.policy.config

(* Settings that are not tangled are one load's, but for the one that is    *)
(* replacing them.                                                          *)
Untangled ==
  ~tangled =>
    /\ (\A n \in Loads : ~Installs(n)) => oidcCfg = oidcVerifier /\ oidcVerifier = oauth2Config
    /\ \A n \in Loads : Installs(n) =>
         /\ \A m \in Loads : Installs(m) => m = n
         /\ oidcCfg = reinits[n].policy.config
         /\ reinits[n].pc = "oauth2" => oidcVerifier = reinits[n].policy.config

(* A callback that saw no setting change sees what it was begun with.       *)
Undisturbed ==
  \A l \in Logins : logins[l].pc \in {"exchange", "verify", "verified"} /\ ~logins[l].crossed =>
    /\ \A n \in Loads : ~Installs(n)
    /\ logins[l].pc = "verified" => oidcVerifier = logins[l].with

RolesFit ==
  \A l \in Logins : oidcSessions[l].role # "none" /\ ~oidcSessions[l].loose =>
    /\ oidcCfg = oidcSessions[l].by
    /\ oidcSessions[l].role = ResolveRole(oidcSessions[l].by, oidcSessions[l].by)

LoginInv == LoginTyped /\ Numbered /\ Progress /\ Untangled /\ Undisturbed /\ RolesFit

-----------------------------------------------------------------------------
(* The invariant of what lies between *)

(* Requests hold objects that were made, and no session is with one that    *)
(* was not.                                                                 *)
Held ==
  /\ \A c \in Clients : requests[c].obj <= made
  /\ \A k \in Objects : k > made => sessions[k] = {}

(* Once an object is out of the registry and killed no request finds it.    *)
Killed(k) ==
  /\ tenants[k].id \notin met /\ tenantRegistry[tenants[k].id] # k
  /\ \A w \in Workers : workers[w].pc = "kill" => workers[w].obj # k

OnlyLate ==
  \A k \in 1 .. made : Killed(k) =>
    /\ sessions[k] \subseteq late[k]
    /\ \A c \in Clients : requests[c].obj = k => c \in late[k]

DoorInv == DoorTyped /\ Held /\ OnlyLate

FrontDoorInv == TenantsInv /\ LoginInv /\ DoorInv

-----------------------------------------------------------------------------
(* Steps of the tenants' workers *)

LEMMA NoWorkType == NoWork \in Worker /\ NoWork.pc = "idle" /\ NoWork.token = None
BY TenantsAssumption DEF NoWork, Worker, Default, SavedPolicies

LEMMA GoMoves ==
  ASSUME TenantsTyped, NEW w \in Workers, NEW pc, Go(w, pc),
         pc \in Unregistered \cup {"activate", "remove", "write"}
  PROVE  /\ workers' \in [Workers -> Worker]
         /\ \A v \in Workers : v # w => workers'[v] = workers[v]
         /\ workers'[w].pc = pc /\ workers'[w].id = workers[w].id
         /\ workers'[w].token = workers[w].token /\ workers'[w].text = workers[w].text
         /\ workers'[w].obj = workers[w].obj
<1>1. workers \in [Workers -> Worker] /\ workers[w] \in Worker
  BY DEF TenantsTyped
<1>2. workers' = [workers EXCEPT ![w].pc = pc]
  BY DEF Go
<1>3. [workers[w] EXCEPT !.pc = pc] \in Worker
  BY <1>1 DEF Worker, Unregistered
<1> QED BY <1>1, <1>2, <1>3 DEF Worker

LEMMA AnswerMoves ==
  ASSUME TenantsTyped, NEW w \in Workers, Answered(w)
  PROVE  /\ workers' \in [Workers -> Worker]
         /\ \A v \in Workers : v # w => workers'[v] = workers[v]
         /\ workers'[w] = NoWork /\ workers'[w].pc = "idle" /\ workers'[w].token = None
BY NoWorkType DEF Answered, TenantsTyped

LEMMA TokensDiffer == None \notin Tokens /\ Torn \notin Tokens
BY TenantsAssumption

(* What a step does to other names than its own matters to none of them.    *)
LEMMA OtherName ==
  ASSUME NEW id \in TenantIDs, NameInv(id),
         tenantRegistry'[id] = tenantRegistry[id], dirs'[id] = dirs[id],
         \A w \in Workers : \/ workers'[w] = workers[w]
                            \/ /\ workers[w].pc = "idle" \/ workers[w].id # id
                               /\ workers'[w].pc = "idle" \/ workers'[w].id # id,
         tenantRegistry[id] # Default =>
           /\ tenants'[tenantRegistry[id]].token = tenants[tenantRegistry[id]].token
           /\ tenants'[tenantRegistry[id]].policy = tenants[tenantRegistry[id]].policy,
         id \in met => id \in met', id \in crossed => id \in crossed', id \in gone' => id \in gone
  PROVE  NameInv(id)'
<1>1. \A w \in Workers : /\ (Creates(w, id)' <=> Creates(w, id))
                         /\ (Deletes(w, id)' <=> Deletes(w, id))
                         /\ (Saves(w, id)' <=> Saves(w, id))
                         /\ Creates(w, id) \/ Saves(w, id) => workers'[w] = workers[w]
  BY DEF Creates, Deletes, Saves, Unregistered
<1>2. Turns(id)'
  BY <1>1 DEF NameInv, Turns
<1>3. CreatedSoFar(id)'
  BY <1>1 DEF NameInv, CreatedSoFar
<1>4. OnDisk(id)'
  BY DEF NameInv, OnDisk
<1>5. SavesFollow(id)'
  BY <1>1 DEF NameInv, SavesFollow
<1>6. GoneIsGone(id)'
  BY <1>1 DEF NameInv, GoneIsGone
<1> QED BY <1>2, <1>3, <1>4, <1>5, <1>6 DEF NameInv

(* Who goes on does so under the same name, with the same token and object. *)
Stays(w) ==
  /\ workers'[w].id = workers[w].id /\ workers'[w].token = workers[w].token
  /\ workers'[w].obj = workers[w].obj /\ workers[w].pc # "idle"
  /\ workers'[w].pc \in Unregistered => workers[w].pc \in Unregistered
  /\ workers'[w].pc = "activate" => workers[w].pc \in Unregistered \cup {"activate"}
  /\ workers'[w].pc \in {"kill", "remove", "apply", "write"} <=>
       workers[w].pc \in {"kill", "remove", "apply", "write"}

LEMMA EmployedStays ==
  ASSUME TenantsTyped, Employed, Room,
         \A w \in Workers : workers'[w] = workers[w] \/ workers'[w] = NoWork \/ Stays(w),
         tenantRegistry' = tenantRegistry, made' = made,
         \A k \in 1 .. made : tenants'[k].id = tenants[k].id
  PROVE  Employed' /\ Room'
<1>1. \A w \in Workers : workers'[w] = workers[w] \/ workers'[w].pc = "idle" \/ Stays(w)
  BY NoWorkType
<1>2. Employed'
  <2>1. \A w \in Workers : workers'[w].pc # "idle" => workers'[w].id \in TenantIDs
    BY <1>1 DEF Employed, Stays
  <2>2. \A w \in Workers : workers'[w].pc \in Unregistered \cup {"activate"} => workers'[w].token \in Tokens
    BY <1>1 DEF Employed, Stays, Unregistered
  <2>3. \A w \in Workers : workers'[w].pc \in {"kill", "remove", "apply", "write"} =>
          workers'[w].obj \in 1 .. made /\ tenants'[workers'[w].obj].id = workers'[w].id
    BY <1>1 DEF Employed, Stays
  <2>4. \A k \in 1 .. made : tenants'[k].id \in TenantIDs
    BY DEF Employed
  <2>5. \A id \in TenantIDs : tenantRegistry[id] # Default =>
          tenantRegistry[id] \in 1 .. made /\ tenants'[tenantRegistry[id]].id = id
    BY DEF Employed
  <2> QED BY <2>1, <2>2, <2>3, <2>4, <2>5 DEF Employed
<1>3. Room'
  <2>1. Pending' \subseteq Pending
    BY <1>1 DEF Pending, Stays, Unregistered
  <2>2. IsFiniteSet(Pending)
    BY TenantsAssumption, FS_Subset DEF Pending
  <2>3. /\ Cardinality(Pending') <= Cardinality(Pending)
        /\ Cardinality(Pending') \in Nat /\ Cardinality(Pending) \in Nat
    BY <2>1, <2>2, FS_Subset, FS_CardinalityType
  <2> QED BY <2>3, TenantsAssumption DEF Room, TenantsTyped
<1> QED BY <1>2, <1>3

(* Where no token comes to a file or an object, or to a worker, each has    *)
(* the owner it had.                                                        *)
LEMMA OwnersStay ==
  ASSUME TenantsTyped, NEW t \in Tokens, OneOwner(t), shared \subseteq shared',
         \A i \in TenantIDs : dirs'[i].meta = t => dirs[i].meta = t,
         \A i \in TenantIDs : HasToken(i, t)' => HasToken(i, t),
         \A w \in Workers : workers'[w] = workers[w] \/ workers'[w].token # t \/ Stays(w)
  PROVE  OneOwner(t)'
<1>1. \A w \in Workers : workers'[w].token = t => workers[w].token = t
  BY DEF Stays
<1>2. \A w \in Workers : Brings(w, t)' => Brings(w, t) /\ workers'[w].id = workers[w].id
  BY DEF Stays, Brings
<1> QED BY <1>1, <1>2 DEF OneOwner

LEMMA IndexStays ==
  ASSUME NEW t \in Tokens, Indexed(t), shared \subseteq shared', met \subseteq met',
         tenantTokenIndex'[t] = tenantTokenIndex[t],
         tenantTokenIndex[t] \in TenantIDs \cup {None}, None \notin TenantIDs,
         \A i \in TenantIDs : HasToken(i, t)' <=> HasToken(i, t),
         \/ multiTenancyActive'
         \/ /\ multiTenancyActive' = multiTenancyActive
            /\ \A i \in TenantIDs \ met, w \in Workers :
                 HasToken(i, t) /\ Creates(w, i) => Creates(w, i)'
  PROVE  Indexed(t)'
<1>1. \A i \in TenantIDs \ met' : HasToken(i, t)' => HasToken(i, t) /\ i \in TenantIDs \ met
  OBVIOUS
<1>2. t \notin shared => \A i \in TenantIDs \ met' : HasToken(i, t)' =>
        tenantTokenIndex'[t] = i
  BY <1>1 DEF Indexed
<1>3. t \notin shared => \A i \in TenantIDs \ met' : HasToken(i, t)' =>
        multiTenancyActive' \/ \E w \in Workers : Creates(w, i)'
  BY <1>1 DEF Indexed
<1>4. (t \notin shared /\ tenantTokenIndex[t] \notin met \cup {None} => HasToken(tenantTokenIndex[t], t))'
  BY DEF Indexed, HasToken
<1> QED BY <1>2, <1>3, <1>4 DEF Indexed

LEMMA TokenStays ==
  ASSUME TenantsTyped, Employed, tenantRegistry' = tenantRegistry,
         \A k \in 1 .. made : tenants'[k].token = tenants[k].token,
         NEW id \in TenantIDs, NEW t
  PROVE  HasToken(id, t)' <=> HasToken(id, t)
BY DEF Employed, HasToken

-----------------------------------------------------------------------------
(* Creating a tenant, up to the registry *)

LEMMA AtWork ==
  ASSUME TenantsInv, NEW w \in Workers, workers[w].pc # "idle"
  PROVE  /\ workers[w] \in Worker /\ workers[w].id \in TenantIDs
         /\ workers[w].pc \in Unregistered \cup {"activate"} => workers[w].token \in Tokens
BY DEF TenantsInv, TenantsTyped, Employed

LEMMA MkdirKeeps == ASSUME TenantsInv, NEW w \in Workers, Mkdir(w) PROVE TenantsInv'
<1>1. PICK id \in TenantIDs : workers[w].id = id
  BY AtWork DEF Mkdir
<1>2. /\ TenantsTyped /\ Employed /\ Room /\ NameInv(id) /\ workers[w].pc = "mkdir"
      /\ Creates(w, id)
  BY <1>1 DEF TenantsInv, Mkdir, Creates, Unregistered
<1>3. /\ workers' \in [Workers -> Worker]
      /\ \A v \in Workers : v # w => workers'[v] = workers[v]
      /\ workers'[w].pc = "meta" /\ workers'[w].id = id /\ workers'[w].obj = workers[w].obj
      /\ workers'[w].token = workers[w].token
  BY <1>1, <1>2, GoMoves DEF Mkdir, Unregistered
<1>4. /\ dirs' \in [TenantIDs -> Dir]
      /\ \A i \in TenantIDs : dirs'[i].meta = dirs[i].meta
      /\ \A i \in TenantIDs : i # id => dirs'[i] = dirs[i]
      /\ dirs'[id].there /\ dirs'[id].policy = dirs[id].policy
  BY <1>1, <1>2 DEF Mkdir, TenantsTyped, Dir
<1>5. UNCHANGED <<tenantRegistry, tenantTokenIndex, multiTenancyActive, tenants, made,
                  met, crossed, shared, gone>>
  BY DEF Mkdir, memory
<1>6. \A v \in Workers : workers'[v] = workers[v] \/ (v = w /\ Stays(v))
  BY <1>1, <1>2, <1>3 DEF Stays, Unregistered
<1>7. TenantsTyped' /\ Employed' /\ Room'
  <2>1. TenantsTyped'
    BY <1>2, <1>3, <1>4, <1>5 DEF TenantsTyped
  <2> QED BY <2>1, <1>2, <1>5, <1>6, EmployedStays
<1>8. \A v \in Workers : /\ (Creates(v, id)' <=> Creates(v, id))
                         /\ (Deletes(v, id)' <=> Deletes(v, id))
                         /\ (Saves(v, id)' <=> Saves(v, id)) /\ (Saves(v, id) => v # w)
  BY <1>1, <1>2, <1>3 DEF Creates, Deletes, Saves, Unregistered
<1>9. \A i \in TenantIDs : NameInv(i)'
  <2>1. Turns(id)'
    BY <1>2, <1>3, <1>5, <1>8 DEF NameInv, Turns
  <2>2. CreatedSoFar(id)'
    BY <1>2, <1>3, <1>4, <1>5, <1>8 DEF NameInv, Turns, CreatedSoFar
  <2>3. OnDisk(id)'
    BY <1>2, <1>4, <1>5 DEF NameInv, OnDisk
  <2>4. SavesFollow(id)'
    BY <1>2, <1>3, <1>4, <1>5, <1>8 DEF NameInv, SavesFollow
  <2>5. GoneIsGone(id)'
    BY <1>2, <1>5, <1>8 DEF NameInv, GoneIsGone
  <2>6. \A i \in TenantIDs : i # id => NameInv(i)'
    BY <1>1, <1>3, <1>4, <1>5, OtherName DEF TenantsInv
  <2> QED BY <2>1, <2>2, <2>3, <2>4, <2>5, <2>6 DEF NameInv
<1>10. \A t \in Tokens : OneOwner(t)' /\ Indexed(t)'
  <2> SUFFICES ASSUME NEW t \in Tokens PROVE OneOwner(t)' /\ Indexed(t)'
    OBVIOUS
  <2>1. \A i \in TenantIDs : HasToken(i, t)' <=> HasToken(i, t)
    BY <1>2, <1>5, TokenStays
  <2>2. OneOwner(t)'
    BY <1>2, <1>4, <1>5, <1>6, <2>1, OwnersStay DEF TenantsInv
  <2>3. \A i \in TenantIDs, v \in Workers : Creates(v, i) => Creates(v, i)'
    BY <1>2, <1>3, <1>1 DEF Creates, Unregistered
  <2> QED BY <1>2, <1>5, <2>1, <2>2, <2>3, IndexStays, TenantsAssumption DEF TenantsInv, TenantsTyped
<1> QED BY <1>7, <1>9, <1>10 DEF TenantsInv

LEMMA WriteMetaKeeps == ASSUME TenantsInv, NEW w \in Workers, WriteMeta(w) PROVE TenantsInv'
<1>1. PICK id \in TenantIDs : workers[w].id = id
  BY AtWork DEF WriteMeta
<1>2. PICK t \in Tokens : workers[w].token = t
  BY AtWork DEF WriteMeta, Unregistered
<1>3. /\ TenantsTyped /\ Employed /\ Room /\ NameInv(id) /\ workers[w].pc = "meta"
      /\ Creates(w, id) /\ Brings(w, t)
  BY <1>1, <1>2 DEF TenantsInv, WriteMeta, Creates, Brings, Unregistered
<1>4. UNCHANGED <<tenantRegistry, tenantTokenIndex, multiTenancyActive, tenants, made,
                  met, crossed, shared, gone>>
  BY DEF WriteMeta, memory
<1>5. /\ workers' \in [Workers -> Worker]
      /\ \A v \in Workers : v # w => workers'[v] = workers[v]
  BY <1>3, GoMoves, AnswerMoves DEF WriteMeta, Unregistered
<1>6. \/ /\ workers'[w] = NoWork /\ workers'[w].pc = "idle" /\ workers'[w].token = None
         /\ dirs' = dirs /\ ~dirs[id].there
      \/ /\ workers'[w].pc = "seed" /\ workers'[w].id = id /\ workers'[w].obj = workers[w].obj
         /\ workers'[w].token = t
         /\ dirs'[id].meta = t /\ dirs[id].there /\ dirs'[id].there
         /\ \A i \in TenantIDs : i # id => dirs'[i] = dirs[i]
  BY <1>1, <1>2, <1>3, GoMoves, AnswerMoves DEF WriteMeta, Unregistered, TenantsTyped, Dir
<1>7. /\ dirs' \in [TenantIDs -> Dir] /\ dirs'[id].policy = dirs[id].policy
      /\ \A i \in TenantIDs : i # id => dirs'[i] = dirs[i]
  BY <1>1, <1>2, <1>3 DEF WriteMeta, TenantsTyped, Dir, Metas
<1>8. \A v \in Workers : workers'[v] = workers[v] \/ (v = w /\ (Stays(v) \/ workers'[v] = NoWork))
  BY <1>1, <1>2, <1>3, <1>5, <1>6 DEF Stays, Unregistered
<1>9. TenantsTyped' /\ Employed' /\ Room'
  <2>1. TenantsTyped'
    BY <1>3, <1>4, <1>5, <1>7 DEF TenantsTyped
  <2> QED BY <2>1, <1>3, <1>4, <1>8, EmployedStays
<1>10. \A v \in Workers : /\ (Creates(v, id)' => Creates(v, id))
                          /\ (Deletes(v, id)' <=> Deletes(v, id))
                          /\ (Saves(v, id)' <=> Saves(v, id)) /\ (Saves(v, id) => v # w)
  BY <1>1, <1>3, <1>5, <1>6 DEF Creates, Deletes, Saves, Unregistered
<1>11. id \notin met => tenantRegistry[id] = Default
  BY <1>3 DEF NameInv, Turns
<1>12. \A i \in TenantIDs : NameInv(i)'
  <2>1. Turns(id)'
    BY <1>3, <1>4, <1>5, <1>6, <1>10, <1>11 DEF NameInv, Turns
  <2>2. CreatedSoFar(id)'
    BY <1>3, <1>4, <1>5, <1>6, <1>7, <1>10 DEF NameInv, Turns, CreatedSoFar
  <2>3. OnDisk(id)'
    BY <1>4, <1>11 DEF OnDisk
  <2>4. SavesFollow(id)'
    BY <1>3, <1>4, <1>5, <1>10, <1>11 DEF NameInv, SavesFollow
  <2>5. GoneIsGone(id)'
    BY <1>3, <1>4, <1>10 DEF NameInv, GoneIsGone
  <2>6. \A i \in TenantIDs : i # id => NameInv(i)'
    <3>1. workers'[w].id # id => workers'[w] = NoWork
      BY <1>6
    <3>2. \A i \in TenantIDs : i # id => workers'[w].id # i
      BY <1>6, TenantsAssumption DEF NoWork
    <3> QED BY <1>1, <1>4, <1>5, <1>7, <3>2, OtherName DEF TenantsInv
  <2> QED BY <2>1, <2>2, <2>3, <2>4, <2>5, <2>6 DEF NameInv
<1>13. \A x \in Tokens : OneOwner(x)' /\ Indexed(x)'
  <2> SUFFICES ASSUME NEW x \in Tokens PROVE OneOwner(x)' /\ Indexed(x)'
    OBVIOUS
  <2>1. \A i \in TenantIDs : HasToken(i, x)' <=> HasToken(i, x)
    BY <1>3, <1>4, TokenStays
  <2>2. \A v \in Workers : workers'[v] = workers[v] \/ workers'[v].token # x \/ Stays(v)
    BY <1>8, NoWorkType, TokensDiffer
  <2>3. OneOwner(x)'
    <3>1. CASE x = t /\ dirs' # dirs
      <4>1. \A v \in Workers : workers'[v].token = x => workers[v].token = x
        BY <2>2 DEF Stays
      <4>2. \A v \in Workers : Brings(v, x)' => Brings(v, x) /\ workers'[v].id = workers[v].id
        BY <2>2 DEF Stays, Brings
      <4> QED BY <1>1, <1>3, <1>4, <1>6, <2>1, <3>1, <4>1, <4>2 DEF TenantsInv, OneOwner, Brings
    <3>2. CASE x # t \/ dirs' = dirs
      <4>1. \A i \in TenantIDs : dirs'[i].meta = x => dirs[i].meta = x
        BY <1>6, <3>2
      <4> QED BY <1>3, <1>4, <2>1, <2>2, <4>1, OwnersStay DEF TenantsInv
    <3> QED BY <3>1, <3>2
  <2>4. \A i \in TenantIDs \ met, v \in Workers : HasToken(i, x) /\ Creates(v, i) => Creates(v, i)'
    <3>1. \A i \in TenantIDs \ met : HasToken(i, x) => ~Creates(w, i)
      BY <1>1, <1>11 DEF HasToken, Creates
    <3> QED BY <1>5, <3>1 DEF Creates
  <2> QED BY <1>3, <1>4, <2>1, <2>3, <2>4, IndexStays, TenantsAssumption DEF TenantsInv, TenantsTyped
<1> QED BY <1>9, <1>12, <1>13 DEF TenantsInv

LEMMA SeedKeeps == ASSUME TenantsInv, NEW w \in Workers, Seed(w) PROVE TenantsInv'
<1>1. PICK id \in TenantIDs : workers[w].id = id
  BY AtWork DEF Seed
<1>2. /\ TenantsTyped /\ Employed /\ Room /\ NameInv(id) /\ workers[w].pc = "seed"
      /\ Creates(w, id)
  BY <1>1 DEF TenantsInv, Seed, Creates, Unregistered
<1>3. /\ workers' \in [Workers -> Worker]
      /\ \A v \in Workers : v # w => workers'[v] = workers[v]
      /\ workers'[w].pc = "read" /\ workers'[w].id = id /\ workers'[w].obj = workers[w].obj
      /\ workers'[w].token = workers[w].token
  BY <1>1, <1>2, GoMoves DEF Seed, Unregistered
<1>4. /\ dirs' \in [TenantIDs -> Dir]
      /\ \A i \in TenantIDs : dirs'[i].meta = dirs[i].meta /\ dirs'[i].there = dirs[i].there
      /\ \A i \in TenantIDs : i # id => dirs'[i] = dirs[i]
      /\ dirs[id].there => dirs'[id].policy = Root
  BY <1>1, <1>2 DEF Seed, TenantsTyped, Dir, SavedPolicies
<1>5. UNCHANGED <<tenantRegistry, tenantTokenIndex, multiTenancyActive, tenants, made,
                  met, crossed, shared, gone>>
  BY DEF Seed, memory
<1>6. \A v \in Workers : workers'[v] = workers[v] \/ (v = w /\ Stays(v))
  BY <1>1, <1>2, <1>3 DEF Stays, Unregistered
<1>7. TenantsTyped' /\ Employed' /\ Room'
  <2>1. TenantsTyped'
    BY <1>2, <1>3, <1>4, <1>5 DEF TenantsTyped
  <2> QED BY <2>1, <1>2, <1>5, <1>6, EmployedStays
<1>8. \A v \in Workers : /\ (Creates(v, id)' <=> Creates(v, id))
                         /\ (Deletes(v, id)' <=> Deletes(v, id))
                         /\ (Saves(v, id)' <=> Saves(v, id)) /\ (Saves(v, id) => v # w)
  BY <1>1, <1>2, <1>3 DEF Creates, Deletes, Saves, Unregistered
<1>9. id \notin met => tenantRegistry[id] = Default
  BY <1>2 DEF NameInv, Turns
<1>10. \A i \in TenantIDs : NameInv(i)'
  <2>1. Turns(id)'
    BY <1>2, <1>3, <1>5, <1>8, <1>9 DEF NameInv, Turns
  <2>2. CreatedSoFar(id)'
    BY <1>2, <1>3, <1>4, <1>5, <1>8 DEF NameInv, Turns, CreatedSoFar
  <2>3. OnDisk(id)'
    BY <1>5, <1>9 DEF OnDisk
  <2>4. SavesFollow(id)'
    BY <1>2, <1>3, <1>5, <1>8, <1>9 DEF NameInv, SavesFollow
  <2>5. GoneIsGone(id)'
    BY <1>2, <1>4, <1>5, <1>8 DEF NameInv, GoneIsGone
  <2>6. \A i \in TenantIDs : i # id => NameInv(i)'
    BY <1>1, <1>3, <1>4, <1>5, OtherName DEF TenantsInv
  <2> QED BY <2>1, <2>2, <2>3, <2>4, <2>5, <2>6 DEF NameInv
<1>11. \A t \in Tokens : OneOwner(t)' /\ Indexed(t)'
  <2> SUFFICES ASSUME NEW t \in Tokens PROVE OneOwner(t)' /\ Indexed(t)'
    OBVIOUS
  <2>1. \A i \in TenantIDs : HasToken(i, t)' <=> HasToken(i, t)
    BY <1>2, <1>5, TokenStays
  <2>2. OneOwner(t)'
    BY <1>2, <1>4, <1>5, <1>6, <2>1, OwnersStay DEF TenantsInv
  <2>3. \A i \in TenantIDs, v \in Workers : Creates(v, i) => Creates(v, i)'
    BY <1>1, <1>2, <1>3 DEF Creates, Unregistered
  <2> QED BY <1>2, <1>5, <2>1, <2>2, <2>3, IndexStays, TenantsAssumption DEF TenantsInv, TenantsTyped
<1> QED BY <1>7, <1>10, <1>11 DEF TenantsInv

LEMMA ReadKeeps == ASSUME TenantsInv, NEW w \in Workers, Read(w) PROVE TenantsInv'
<1>1. PICK id \in TenantIDs : workers[w].id = id
  BY AtWork DEF Read
<1>2. /\ TenantsTyped /\ Employed /\ Room /\ NameInv(id) /\ workers[w].pc = "read"
      /\ Creates(w, id) /\ workers[w] \in Worker /\ dirs[id] \in Dir
  BY <1>1 DEF TenantsInv, TenantsTyped, Read, Creates, Unregistered
<1>3. /\ workers' \in [Workers -> Worker]
      /\ \A v \in Workers : v # w => workers'[v] = workers[v]
      /\ workers'[w].pc = "register" /\ workers'[w].id = id /\ workers'[w].obj = workers[w].obj
      /\ workers'[w].token = workers[w].token
      /\ workers'[w].text = IF dirs[id].policy = None THEN Torn ELSE dirs[id].policy
  <2>1. PICK text \in SavedPolicies : text = IF dirs[id].policy = None THEN Torn ELSE dirs[id].policy
    BY <1>2 DEF Dir, SavedPolicies
  <2>2. workers' = [workers EXCEPT ![w] = [workers[w] EXCEPT !.pc = "register", !.text = text]]
    BY <1>1, <2>1 DEF Read
  <2>3. [workers[w] EXCEPT !.pc = "register", !.text = text] \in Worker
    BY <1>2 DEF Worker, Unregistered
  <2> QED BY <1>1, <1>2, <2>1, <2>2, <2>3 DEF TenantsTyped, Worker
<1>4. dirs' = dirs
  BY DEF Read
<1>5. UNCHANGED <<tenantRegistry, tenantTokenIndex, multiTenancyActive, tenants, made,
                  met, crossed, shared, gone>>
  BY DEF Read, memory
<1>6. \A v \in Workers : workers'[v] = workers[v] \/ (v = w /\ Stays(v))
  BY <1>1, <1>2, <1>3 DEF Stays, Unregistered
<1>7. TenantsTyped' /\ Employed' /\ Room'
  <2>1. TenantsTyped'
    BY <1>2, <1>3, <1>4, <1>5 DEF TenantsTyped
  <2> QED BY <2>1, <1>2, <1>5, <1>6, EmployedStays
<1>8. \A v \in Workers : /\ (Creates(v, id)' <=> Creates(v, id))
                         /\ (Deletes(v, id)' <=> Deletes(v, id))
                         /\ (Saves(v, id)' <=> Saves(v, id)) /\ (Saves(v, id) => v # w)
  BY <1>1, <1>2, <1>3 DEF Creates, Deletes, Saves, Unregistered
<1>9. id \notin met => tenantRegistry[id] = Default
  BY <1>2 DEF NameInv, Turns
<1>10. \A i \in TenantIDs : NameInv(i)'
  <2>1. Turns(id)'
    BY <1>2, <1>3, <1>5, <1>8, <1>9 DEF NameInv, Turns
  <2>2. CreatedSoFar(id)'
    BY <1>2, <1>3, <1>4, <1>5, <1>8, TenantsAssumption DEF NameInv, Turns, CreatedSoFar
  <2>3. OnDisk(id)'
    BY <1>5, <1>9 DEF OnDisk
  <2>4. SavesFollow(id)'
    BY <1>2, <1>3, <1>5, <1>8, <1>9 DEF NameInv, SavesFollow
  <2>5. GoneIsGone(id)'
    BY <1>2, <1>4, <1>5, <1>8 DEF NameInv, GoneIsGone
  <2>6. \A i \in TenantIDs : i # id => NameInv(i)'
    BY <1>1, <1>3, <1>4, <1>5, OtherName DEF TenantsInv
  <2> QED BY <2>1, <2>2, <2>3, <2>4, <2>5, <2>6 DEF NameInv
<1>11. \A t \in Tokens : OneOwner(t)' /\ Indexed(t)'
  <2> SUFFICES ASSUME NEW t \in Tokens PROVE OneOwner(t)' /\ Indexed(t)'
    OBVIOUS
  <2>1. \A i \in TenantIDs : HasToken(i, t)' <=> HasToken(i, t)
    BY <1>2, <1>5, TokenStays
  <2>2. OneOwner(t)'
    BY <1>2, <1>4, <1>5, <1>6, <2>1, OwnersStay DEF TenantsInv
  <2>3. \A i \in TenantIDs, v \in Workers : Creates(v, i) => Creates(v, i)'
    BY <1>1, <1>2, <1>3 DEF Creates, Unregistered
  <2> QED BY <1>2, <1>5, <2>1, <2>2, <2>3, IndexStays, TenantsAssumption DEF TenantsInv, TenantsTyped
<1> QED BY <1>7, <1>10, <1>11 DEF TenantsInv

(* The object is a new one, and its token had no owner unless it is shared. *)
LEMMA RegisterKeeps == ASSUME TenantsInv, NEW w \in Workers, Register(w) PROVE TenantsInv'
<1>1. PICK id \in TenantIDs : workers[w].id = id
  BY AtWork DEF Register
<1>2. PICK t \in Tokens : workers[w].token = t
  BY AtWork DEF Register, Unregistered
<1>3. /\ TenantsTyped /\ Employed /\ Room /\ NameInv(id) /\ workers[w].pc = "register"
      /\ Creates(w, id) /\ Brings(w, t) /\ workers[w] \in Worker
  BY <1>1, <1>2 DEF TenantsInv, TenantsTyped, Register, Creates, Brings, Unregistered
<1>4. /\ workers' \in [Workers -> Worker]
      /\ \A v \in Workers : v # w => workers'[v] = workers[v]
      /\ workers'[w].pc = "activate" /\ workers'[w].id = id /\ workers'[w].obj = workers[w].obj
      /\ workers'[w].token = t
  BY <1>1, <1>2, <1>3, GoMoves DEF Register
<1>5. UNCHANGED <<multiTenancyActive, dirs, met, crossed, shared, gone>>
  BY DEF Register
<1>6. /\ made' = made + 1 /\ made \in Nat /\ made' \in Objects /\ Room'
  <2>1. Pending' = Pending \ {w} /\ w \in Pending
    BY <1>3, <1>4 DEF Pending, Unregistered
  <2>2. IsFiniteSet(Pending)
    BY TenantsAssumption, FS_Subset DEF Pending
  <2>3. /\ Cardinality(Pending') = Cardinality(Pending) - 1
        /\ Cardinality(Pending') \in Nat /\ Cardinality(Pending) \in Nat
    BY <2>1, <2>2, FS_RemoveElement, FS_CardinalityType
  <2>4. made' = made + 1 /\ made \in Nat
    BY <1>3 DEF Register, TenantsTyped
  <2> QED BY <1>3, <2>3, <2>4, TenantsAssumption DEF Room, Objects
<1>7. PICK k \in Objects : k = made'
  BY <1>6
<1>8. /\ tenantRegistry' = [tenantRegistry EXCEPT ![id] = k]
      /\ tenantTokenIndex' = [tenantTokenIndex EXCEPT ![t] = id]
      /\ tenants' = [tenants EXCEPT ![k] = [id |-> id, token |-> t, policy |-> workers[w].text]]
  BY <1>1, <1>2, <1>7 DEF Register
<1>9. /\ tenantRegistry'[id] = k /\ k # Default
      /\ \A i \in TenantIDs : i # id => tenantRegistry'[i] = tenantRegistry[i]
      /\ tenants'[k].id = id /\ tenants'[k].token = t /\ tenants'[k].policy = workers[w].text
      /\ \A j \in 1 .. made : tenants'[j] = tenants[j] /\ j # k
  BY <1>3, <1>6, <1>7, <1>8, TenantsAssumption DEF TenantsTyped, Objects, Default
<1>10. \A i \in TenantIDs : tenantRegistry[i] # Default => tenantRegistry[i] \in 1 .. made
  BY <1>3 DEF Employed
<1>11. TenantsTyped' /\ Employed'
  <2>1. [id |-> id, token |-> t, policy |-> workers[w].text] \in Tenant
    BY <1>3 DEF Tenant, Worker, Metas
  <2>2. k \in 0 .. MaxTenants
    BY DEF Objects
  <2>3. TenantsTyped'
    BY <1>3, <1>4, <1>5, <1>7, <1>8, <2>1, <2>2 DEF TenantsTyped
  <2>4. /\ \A v \in Workers : workers'[v].pc # "idle" => workers'[v].id \in TenantIDs
        /\ \A v \in Workers : workers'[v].pc \in Unregistered \cup {"activate"} => workers'[v].token \in Tokens
    BY <1>3, <1>4 DEF Employed
  <2>5. \A v \in Workers : workers'[v].pc \in {"kill", "remove", "apply", "write"} =>
          workers'[v].obj \in 1 .. made' /\ tenants'[workers'[v].obj].id = workers'[v].id
    BY <1>3, <1>4, <1>6, <1>9 DEF Employed
  <2>6. \A j \in 1 .. made' : tenants'[j].id \in TenantIDs
    BY <1>3, <1>6, <1>7, <1>9 DEF Employed
  <2>7. \A i \in TenantIDs : tenantRegistry'[i] # Default =>
          tenantRegistry'[i] \in 1 .. made' /\ tenants'[tenantRegistry'[i]].id = i
    BY <1>3, <1>6, <1>7, <1>9 DEF Employed, Objects
  <2> QED BY <2>3, <2>4, <2>5, <2>6, <2>7 DEF Employed
<1>12. \A v \in Workers : /\ (Creates(v, id)' <=> Creates(v, id))
                          /\ (Deletes(v, id)' <=> Deletes(v, id))
                          /\ (Saves(v, id)' <=> Saves(v, id)) /\ (Saves(v, id) => v # w)
  BY <1>1, <1>3, <1>4 DEF Creates, Deletes, Saves, Unregistered
<1>13. \A i \in TenantIDs : NameInv(i)'
  <2>1. Turns(id)'
    BY <1>3, <1>4, <1>5, <1>12 DEF NameInv, Turns
  <2>2. CreatedSoFar(id)'
    BY <1>3, <1>4, <1>5, <1>12 DEF NameInv, Turns, CreatedSoFar
  <2>3. OnDisk(id)'
    BY <1>2, <1>3, <1>5, <1>9 DEF NameInv, OnDisk, CreatedSoFar
  <2>4. SavesFollow(id)'
    <3>1. id \notin met \cup crossed => workers[w].text = Root /\ dirs[id].policy = Root
      BY <1>3 DEF NameInv, CreatedSoFar
    <3> QED BY <1>3, <1>5, <1>9, <1>12, <3>1 DEF NameInv, SavesFollow
  <2>5. GoneIsGone(id)'
    BY <1>3, <1>5 DEF NameInv, GoneIsGone
  <2>6. \A i \in TenantIDs : i # id => NameInv(i)'
    BY <1>1, <1>4, <1>5, <1>9, <1>10, OtherName DEF TenantsInv
  <2> QED BY <2>1, <2>2, <2>3, <2>4, <2>5, <2>6 DEF NameInv
<1>14. /\ \A x \in Tokens : HasToken(id, x)' <=> x = t
       /\ \A x \in Tokens, i \in TenantIDs : i # id => (HasToken(i, x)' <=> HasToken(i, x))
  BY <1>9, <1>10 DEF HasToken
<1>15. \A v \in Workers, i \in TenantIDs : Creates(v, i)' <=> Creates(v, i)
  BY <1>1, <1>3, <1>4 DEF Creates, Unregistered
<1>16. OneOwner(t)' /\ Indexed(t)'
  <2> SUFFICES ASSUME t \notin shared PROVE OneOwner(t)' /\ Indexed(t)'
    BY <1>5 DEF OneOwner, Indexed
  <2>1. /\ \A v \in Workers : workers[v].token = t => v = w
        /\ \A i \in TenantIDs : ~HasToken(i, t)
        /\ \A i, j \in TenantIDs : dirs[i].meta = t /\ dirs[j].meta = t => i = j
    BY <1>3 DEF TenantsInv, OneOwner
  <2>2. \A v \in Workers : ~Brings(v, t)'
    BY <1>4, <2>1 DEF Brings, Unregistered
  <2>3. \A i \in TenantIDs : HasToken(i, t)' => i = id
    BY <1>14, <2>1
  <2>4. OneOwner(t)'
    BY <1>5, <2>1, <2>2, <2>3 DEF OneOwner
  <2>5. tenantTokenIndex'[t] = id
    BY <1>3, <1>8 DEF TenantsTyped
  <2>6. (\A i \in TenantIDs \ met : HasToken(i, t) =>
           /\ tenantTokenIndex[t] = i
           /\ multiTenancyActive \/ \E v \in Workers : Creates(v, i))'
    BY <1>3, <1>15, <2>3, <2>5
  <2>7. HasToken(tenantTokenIndex[t], t)'
    BY <1>9, <2>5 DEF HasToken
  <2> QED BY <2>4, <2>6, <2>7 DEF Indexed
<1>17. \A x \in Tokens : x # t => OneOwner(x)' /\ Indexed(x)'
  <2> SUFFICES ASSUME NEW x \in Tokens, x # t PROVE OneOwner(x)' /\ Indexed(x)'
    OBVIOUS
  <2>1. \A i \in TenantIDs : HasToken(i, x)' => HasToken(i, x) /\ i # id
    BY <1>14
  <2>2. \A v \in Workers : workers'[v] = workers[v] \/ workers'[v].token # x
    BY <1>4
  <2>3. OneOwner(x)'
    BY <1>3, <1>5, <2>1, <2>2, OwnersStay DEF TenantsInv
  <2>4. tenantTokenIndex'[x] = tenantTokenIndex[x] /\ tenantTokenIndex[x] \in TenantIDs \cup {None}
    BY <1>3, <1>8 DEF TenantsTyped
  <2>5. id \notin met => ~HasToken(id, x)
    BY <1>3 DEF NameInv, Turns, HasToken
  <2>6. x \notin shared => (tenantTokenIndex[x] \notin met \cup {None} => HasToken(tenantTokenIndex[x], x))'
    <3>1. x \notin shared /\ tenantTokenIndex[x] \notin met \cup {None} =>
            HasToken(tenantTokenIndex[x], x) /\ tenantTokenIndex[x] # id
      BY <2>5 DEF TenantsInv, Indexed
    <3> QED BY <1>9, <1>10, <1>5, <2>4, <3>1 DEF HasToken
  <2>7. x \notin shared => (\A i \in TenantIDs \ met : HasToken(i, x) =>
           /\ tenantTokenIndex[x] = i
           /\ multiTenancyActive \/ \E v \in Workers : Creates(v, i))'
    BY <1>5, <1>15, <2>1, <2>4 DEF TenantsInv, Indexed
  <2> QED BY <1>5, <2>3, <2>6, <2>7 DEF Indexed
<1> QED BY <1>6, <1>11, <1>13, <1>16, <1>17 DEF TenantsInv

LEMMA ActivateKeeps == ASSUME TenantsInv, NEW w \in Workers, Activate(w) PROVE TenantsInv'
<1>1. PICK id \in TenantIDs : workers[w].id = id
  BY AtWork DEF Activate
<1>2. /\ TenantsTyped /\ Employed /\ Room /\ NameInv(id) /\ workers[w].pc = "activate"
  BY <1>1 DEF TenantsInv, Activate
<1>3. /\ workers' \in [Workers -> Worker]
      /\ \A v \in Workers : v # w => workers'[v] = workers[v]
      /\ workers'[w] = NoWork /\ workers'[w].pc = "idle" /\ workers'[w].token = None
  BY <1>2, AnswerMoves DEF Activate
<1>4. /\ UNCHANGED <<tenantRegistry, tenantTokenIndex, tenants, made, dirs,
                     met, crossed, shared, gone>>
      /\ multiTenancyActive' = TRUE
  BY DEF Activate
<1>5. TenantsTyped' /\ Employed' /\ Room'
  <2>1. TenantsTyped'
    BY <1>2, <1>3, <1>4 DEF TenantsTyped
  <2> QED BY <2>1, <1>2, <1>3, <1>4, EmployedStays
<1>6. \A v \in Workers : /\ (Creates(v, id)' <=> v # w /\ Creates(v, id))
                         /\ (Deletes(v, id)' <=> Deletes(v, id))
                         /\ (Saves(v, id)' <=> Saves(v, id)) /\ (Saves(v, id) => v # w)
  BY <1>1, <1>2, <1>3 DEF Creates, Deletes, Saves, Unregistered
<1>7. \A i \in TenantIDs : NameInv(i)'
  <2>1. Turns(id)'
    BY <1>2, <1>3, <1>4, <1>6 DEF NameInv, Turns
  <2>2. CreatedSoFar(id)'
    BY <1>2, <1>3, <1>4, <1>6 DEF NameInv, CreatedSoFar
  <2>3. OnDisk(id)'
    BY <1>2, <1>4 DEF NameInv, OnDisk
  <2>4. SavesFollow(id)'
    BY <1>2, <1>3, <1>4, <1>6 DEF NameInv, SavesFollow
  <2>5. GoneIsGone(id)'
    BY <1>2, <1>4, <1>6 DEF NameInv, GoneIsGone
  <2>6. \A i \in TenantIDs : i # id => NameInv(i)'
    <3>1. \A i \in TenantIDs : workers'[w].id # i
      BY <1>3, TenantsAssumption DEF NoWork
    <3> QED BY <1>1, <1>3, <1>4, <3>1, OtherName DEF TenantsInv
  <2> QED BY <2>1, <2>2, <2>3, <2>4, <2>5, <2>6 DEF NameInv
<1>8. \A t \in Tokens : OneOwner(t)' /\ Indexed(t)'
  <2> SUFFICES ASSUME NEW t \in Tokens PROVE OneOwner(t)' /\ Indexed(t)'
    OBVIOUS
  <2>1. \A i \in TenantIDs : HasToken(i, t)' <=> HasToken(i, t)
    BY <1>2, <1>4, TokenStays
  <2>2. OneOwner(t)'
    BY <1>2, <1>3, <1>4, <2>1, TokensDiffer, OwnersStay DEF TenantsInv
  <2> QED BY <1>2, <1>4, <2>1, <2>2, IndexStays, TenantsAssumption DEF TenantsInv, TenantsTyped
<1> QED BY <1>5, <1>7, <1>8 DEF TenantsInv

-----------------------------------------------------------------------------
(* Deleting a tenant *)

LEMMA UnregisterKeeps ==
  ASSUME TenantsInv, NEW w \in Workers, NEW id \in TenantIDs, Unregister(w, id)
  PROVE  TenantsInv'
<1> DEFINE k == tenantRegistry[id]
           t == tenants[k].token
<1>1. /\ TenantsTyped /\ Employed /\ Room /\ NameInv(id) /\ workers[w].pc = "idle"
      /\ k # Default /\ k \in 1 .. made /\ tenants[k].id = id
      /\ k \in 0 .. MaxTenants
  BY DEF TenantsInv, TenantsTyped, Unregister, Employed
<1>2. /\ workers' \in [Workers -> Worker]
      /\ \A v \in Workers : v # w => workers'[v] = workers[v]
      /\ workers'[w].pc = "kill" /\ workers'[w].id = id /\ workers'[w].obj = k
      /\ workers'[w].token = None
  <2>1. workers' = [workers EXCEPT ![w] = [NoWork EXCEPT !.pc = "kill", !.id = id, !.obj = k]]
    BY DEF Unregister
  <2>2. [NoWork EXCEPT !.pc = "kill", !.id = id, !.obj = k] \in Worker
    BY <1>1, NoWorkType DEF Worker
  <2> QED BY <1>1, <2>1, <2>2, NoWorkType DEF TenantsTyped, Worker
<1>3. /\ UNCHANGED <<multiTenancyActive, tenants, made, dirs, crossed, shared, gone>>
      /\ tenantRegistry' = [tenantRegistry EXCEPT ![id] = Default]
      /\ tenantTokenIndex' = [x \in Tokens |-> IF x = t THEN None ELSE tenantTokenIndex[x]]
  BY DEF Unregister
<1>4. /\ tenantRegistry'[id] = Default
      /\ \A i \in TenantIDs : i # id => tenantRegistry'[i] = tenantRegistry[i]
  BY <1>1, <1>3 DEF TenantsTyped
<1>5. /\ met' = met \/ met' = met \cup {id}
      /\ id \notin met' => \A v \in Workers : ~Creates(v, id)
      /\ met \subseteq met' /\ \A i \in TenantIDs : i # id => (i \in met' <=> i \in met)
  <2>1. met' = IF Creating(id) = {} THEN met ELSE met \cup {id}
    BY DEF Unregister
  <2>2. Creating(id) = {} => \A v \in Workers : ~Creates(v, id)
    BY DEF Creating, Creates, Unregistered
  <2> QED BY <2>1, <2>2
<1>6. TenantsTyped' /\ Employed' /\ Room'
  <2>1. TenantsTyped'
    BY <1>1, <1>2, <1>3, <1>5, TenantsAssumption DEF TenantsTyped, Default
  <2>2. /\ \A v \in Workers : workers'[v].pc # "idle" => workers'[v].id \in TenantIDs
        /\ \A v \in Workers : workers'[v].pc \in Unregistered \cup {"activate"} => workers'[v].token \in Tokens
    BY <1>1, <1>2 DEF Employed, Unregistered
  <2>3. \A v \in Workers : workers'[v].pc \in {"kill", "remove", "apply", "write"} =>
          workers'[v].obj \in 1 .. made' /\ tenants'[workers'[v].obj].id = workers'[v].id
    BY <1>1, <1>2, <1>3 DEF Employed
  <2>4. Employed'
    BY <1>1, <1>3, <1>4, <2>2, <2>3 DEF Employed
  <2>5. Pending' = Pending
    BY <1>1, <1>2 DEF Pending, Unregistered
  <2> QED BY <1>1, <1>3, <2>1, <2>4, <2>5 DEF Room
<1>7. \A v \in Workers : /\ (Creates(v, id)' <=> Creates(v, id)) /\ (Creates(v, id) => v # w)
                         /\ (Deletes(v, id)' <=> v = w \/ Deletes(v, id))
                         /\ (Saves(v, id)' <=> Saves(v, id)) /\ (Saves(v, id) => v # w)
  BY <1>1, <1>2 DEF Creates, Deletes, Saves, Unregistered
<1>8. \A i \in TenantIDs : NameInv(i)'
  <2>1. Turns(id)'
    BY <1>1, <1>2, <1>3, <1>4, <1>5, <1>7 DEF NameInv, Turns
  <2>2. CreatedSoFar(id)'
    BY <1>1, <1>2, <1>3, <1>5, <1>7 DEF NameInv, CreatedSoFar
  <2>3. OnDisk(id)'
    BY <1>4 DEF OnDisk
  <2>4. SavesFollow(id)'
    BY <1>1, <1>2, <1>3, <1>4, <1>5, <1>7 DEF NameInv, SavesFollow
  <2>5. GoneIsGone(id)'
    BY <1>1, <1>3, <1>4, <1>5, <1>7 DEF NameInv, GoneIsGone
  <2>6. \A i \in TenantIDs : i # id => NameInv(i)'
    BY <1>1, <1>2, <1>3, <1>4, <1>5, OtherName DEF TenantsInv
  <2> QED BY <2>1, <2>2, <2>3, <2>4, <2>5, <2>6 DEF NameInv
<1>9. \A x \in Tokens : OneOwner(x)' /\ Indexed(x)'
  <2> SUFFICES ASSUME NEW x \in Tokens PROVE OneOwner(x)' /\ Indexed(x)'
    OBVIOUS
  <2>1. \A i \in TenantIDs : HasToken(i, x)' <=> HasToken(i, x) /\ i # id
    BY <1>3, <1>4 DEF HasToken
  <2>2. OneOwner(x)'
    BY <1>1, <1>2, <1>3, <2>1, TokensDiffer, OwnersStay DEF TenantsInv
  <2>3. \A i \in TenantIDs, v \in Workers : Creates(v, i) => Creates(v, i)'
    BY <1>1, <1>2 DEF Creates, Unregistered
  <2>4. x \notin shared => \A i \in TenantIDs \ met' : HasToken(i, x)' =>
          /\ tenantTokenIndex'[x] = i
          /\ multiTenancyActive' \/ \E v \in Workers : Creates(v, i)'
    <3> SUFFICES ASSUME x \notin shared, NEW i \in TenantIDs \ met', HasToken(i, x), i # id
                 PROVE  /\ tenantTokenIndex'[x] = i
                        /\ multiTenancyActive' \/ \E v \in Workers : Creates(v, i)'
      BY <2>1
    <3>1. /\ tenantTokenIndex[x] = i
          /\ multiTenancyActive \/ \E v \in Workers : Creates(v, i)
      BY <1>5 DEF TenantsInv, Indexed
    <3>2. x # t
      BY <1>1 DEF TenantsInv, OneOwner, HasToken
    <3> QED BY <1>3, <2>3, <3>1, <3>2
  <2>5. x \notin shared => (tenantTokenIndex[x] \notin met \cup {None} => HasToken(tenantTokenIndex[x], x))'
    <3> SUFFICES ASSUME x \notin shared, tenantTokenIndex'[x] \notin met' \cup {None}
                 PROVE  HasToken(tenantTokenIndex[x], x)'
      BY <1>3
    <3>1. PICK i \in TenantIDs : i = tenantTokenIndex[x] /\ tenantTokenIndex'[x] = i /\ x # t
      BY <1>1, <1>3 DEF TenantsTyped
    <3>2. HasToken(i, x) /\ i # id
      BY <1>5, <3>1 DEF TenantsInv, Indexed, HasToken
    <3> QED BY <2>1, <3>1, <3>2 DEF HasToken
  <2> QED BY <1>3, <2>2, <2>4, <2>5 DEF Indexed
<1> QED BY <1>6, <1>8, <1>9 DEF TenantsInv

LEMMA KillKeeps == ASSUME TenantsInv, NEW w \in Workers, Kill(w) PROVE TenantsInv'
<1>1. PICK id \in TenantIDs : workers[w].id = id
  BY AtWork DEF Kill
<1>2. TenantsTyped /\ Employed /\ Room /\ NameInv(id) /\ workers[w].pc = "kill"
  BY <1>1 DEF TenantsInv, Kill
<1>3. /\ workers' \in [Workers -> Worker]
      /\ \A v \in Workers : v # w => workers'[v] = workers[v]
      /\ workers'[w].pc = "remove" /\ workers'[w].id = id /\ workers'[w].obj = workers[w].obj
      /\ workers'[w].token = workers[w].token
  BY <1>1, <1>2, GoMoves DEF Kill
<1>4. UNCHANGED <<tenantRegistry, tenantTokenIndex, multiTenancyActive, tenants, made, dirs,
                  met, crossed, shared, gone>>
  BY DEF Kill, memory
<1>5. \A v \in Workers : workers'[v] = workers[v] \/ Stays(v)
  BY <1>1, <1>2, <1>3 DEF Stays, Unregistered
<1>6. TenantsTyped' /\ Employed' /\ Room'
  <2>1. TenantsTyped'
    BY <1>2, <1>3, <1>4 DEF TenantsTyped
  <2> QED BY <2>1, <1>2, <1>4, <1>5, EmployedStays
<1>7. \A v \in Workers : /\ (Creates(v, id)' <=> Creates(v, id)) /\ (Creates(v, id) => v # w)
                         /\ (Deletes(v, id)' <=> Deletes(v, id))
                         /\ (Saves(v, id)' <=> Saves(v, id)) /\ (Saves(v, id) => v # w)
  BY <1>1, <1>2, <1>3 DEF Creates, Deletes, Saves, Unregistered
<1>8. \A i \in TenantIDs : NameInv(i)'
  <2>1. Turns(id)'
    BY <1>2, <1>3, <1>4, <1>7 DEF NameInv, Turns
  <2>2. CreatedSoFar(id)'
    BY <1>2, <1>3, <1>4, <1>7 DEF NameInv, CreatedSoFar
  <2>3. OnDisk(id)'
    BY <1>2, <1>4 DEF NameInv, OnDisk
  <2>4. SavesFollow(id)'
    BY <1>2, <1>3, <1>4, <1>7 DEF NameInv, SavesFollow
  <2>5. GoneIsGone(id)'
    BY <1>2, <1>4, <1>7 DEF NameInv, GoneIsGone
  <2>6. \A i \in TenantIDs : i # id => NameInv(i)'
    BY <1>1, <1>3, <1>4, OtherName DEF TenantsInv
  <2> QED BY <2>1, <2>2, <2>3, <2>4, <2>5, <2>6 DEF NameInv
<1>9. \A t \in Tokens : OneOwner(t)' /\ Indexed(t)'
  <2> SUFFICES ASSUME NEW t \in Tokens PROVE OneOwner(t)' /\ Indexed(t)'
    OBVIOUS
  <2>1. \A i \in TenantIDs : HasToken(i, t)' <=> HasToken(i, t)
    BY <1>2, <1>4, TokenStays
  <2>2. OneOwner(t)'
    BY <1>2, <1>4, <1>5, <2>1, OwnersStay DEF TenantsInv
  <2>3. \A i \in TenantIDs, v \in Workers : Creates(v, i) => Creates(v, i)'
    BY <1>1, <1>2, <1>3 DEF Creates, Unregistered
  <2> QED BY <1>2, <1>4, <2>1, <2>2, <2>3, IndexStays, TenantsAssumption DEF TenantsInv, TenantsTyped
<1> QED BY <1>6, <1>8, <1>9 DEF TenantsInv

LEMMA RemoveKeeps == ASSUME TenantsInv, NEW w \in Workers, Remove(w) PROVE TenantsInv'
<1>1. PICK id \in TenantIDs : workers[w].id = id
  BY AtWork DEF Remove
<1>2. /\ TenantsTyped /\ Employed /\ Room /\ NameInv(id) /\ workers[w].pc = "remove"
      /\ Deletes(w, id)
  BY <1>1 DEF TenantsInv, Remove, Deletes
<1>3. /\ workers' \in [Workers -> Worker]
      /\ \A v \in Workers : v # w => workers'[v] = workers[v]
      /\ workers'[w] = NoWork /\ workers'[w].pc = "idle" /\ workers'[w].token = None
  BY <1>2, AnswerMoves DEF Remove
<1>4. UNCHANGED <<tenantRegistry, tenantTokenIndex, multiTenancyActive, tenants, made,
                  met, crossed, shared>>
  BY DEF Remove, memory
<1>5. /\ dirs' \in [TenantIDs -> Dir]
      /\ dirs'[id].meta = None /\ dirs'[id].policy = None /\ ~dirs'[id].there
      /\ \A i \in TenantIDs : i # id => dirs'[i] = dirs[i]
  <2>1. NoDir \in Dir
    BY DEF NoDir, Dir, Metas, SavedPolicies
  <2>2. NoDir.meta = None /\ NoDir.policy = None /\ ~NoDir.there
    BY DEF NoDir
  <2> QED BY <1>1, <1>2, <2>1, <2>2 DEF Remove, TenantsTyped
<1>6. /\ gone' = gone \/ gone' = gone \cup {id}
      /\ gone' # gone => \A v \in Workers : ~Creates(v, id)
  <2>1. gone' = IF Creating(id) = {} THEN gone \cup {id} ELSE gone
    BY <1>1 DEF Remove
  <2>2. Creating(id) = {} => \A v \in Workers : ~Creates(v, id)
    BY DEF Creating, Creates, Unregistered
  <2> QED BY <2>1, <2>2
<1>7. TenantsTyped' /\ Employed' /\ Room'
  <2>1. TenantsTyped'
    BY <1>2, <1>3, <1>4, <1>5, <1>6 DEF TenantsTyped
  <2> QED BY <2>1, <1>2, <1>3, <1>4, EmployedStays
<1>8. \A v \in Workers : /\ (Creates(v, id)' <=> Creates(v, id)) /\ (Creates(v, id) => v # w)
                         /\ (Deletes(v, id)' => Deletes(v, id))
                         /\ (Saves(v, id)' <=> Saves(v, id)) /\ (Saves(v, id) => v # w)
  BY <1>1, <1>2, <1>3 DEF Creates, Deletes, Saves, Unregistered
<1>9. id \notin met => tenantRegistry[id] = Default /\ \A v \in Workers : ~Creates(v, id)
  BY <1>2 DEF NameInv, Turns
<1>10. \A i \in TenantIDs : NameInv(i)'
  <2>1. Turns(id)'
    BY <1>4, <1>8, <1>9 DEF Turns
  <2>2. CreatedSoFar(id)'
    BY <1>4, <1>8, <1>9 DEF CreatedSoFar
  <2>3. OnDisk(id)'
    BY <1>4, <1>9 DEF OnDisk
  <2>4. SavesFollow(id)'
    BY <1>2, <1>3, <1>4, <1>8, <1>9 DEF NameInv, SavesFollow
  <2>5. GoneIsGone(id)'
    BY <1>4, <1>5, <1>8, <1>9 DEF GoneIsGone
  <2>6. \A i \in TenantIDs : i # id => NameInv(i)'
    BY <1>1, <1>3, <1>4, <1>5, <1>6, OtherName DEF TenantsInv
  <2> QED BY <2>1, <2>2, <2>3, <2>4, <2>5, <2>6 DEF NameInv
<1>11. \A t \in Tokens : OneOwner(t)' /\ Indexed(t)'
  <2> SUFFICES ASSUME NEW t \in Tokens PROVE OneOwner(t)' /\ Indexed(t)'
    OBVIOUS
  <2>1. \A i \in TenantIDs : HasToken(i, t)' <=> HasToken(i, t)
    BY <1>2, <1>4, TokenStays
  <2>2. \A i \in TenantIDs : dirs'[i].meta = t => dirs[i].meta = t
    BY <1>5, TokensDiffer
  <2>3. OneOwner(t)'
    BY <1>2, <1>3, <1>4, <2>1, <2>2, TokensDiffer, OwnersStay DEF TenantsInv
  <2>4. \A i \in TenantIDs, v \in Workers : Creates(v, i) => Creates(v, i)'
    BY <1>2, <1>3 DEF Creates, Unregistered
  <2> QED BY <1>2, <1>4, <2>1, <2>3, <2>4, IndexStays, TenantsAssumption DEF TenantsInv, TenantsTyped
<1> QED BY <1>7, <1>10, <1>11 DEF TenantsInv

-----------------------------------------------------------------------------
(* Saving a tenant's policy *)

LEMMA LookKeeps ==
  ASSUME TenantsInv, NEW w \in Workers, NEW id \in TenantIDs, NEW text \in Texts, Look(w, id, text)
  PROVE  TenantsInv'
<1> DEFINE k == tenantRegistry[id]
<1>1. /\ TenantsTyped /\ Employed /\ Room /\ NameInv(id) /\ workers[w].pc = "idle"
      /\ k # Default /\ k \in 1 .. made /\ tenants[k].id = id
      /\ k \in 0 .. MaxTenants
  BY DEF TenantsInv, TenantsTyped, Look, Employed
<1>2. /\ workers' \in [Workers -> Worker]
      /\ \A v \in Workers : v # w => workers'[v] = workers[v]
      /\ workers'[w].pc = "apply" /\ workers'[w].id = id /\ workers'[w].obj = k
      /\ workers'[w].token = None
  <2>1. workers' = [workers EXCEPT ![w] = [NoWork EXCEPT !.pc = "apply", !.id = id, !.text = text, !.obj = k]]
    BY DEF Look
  <2>2. [NoWork EXCEPT !.pc = "apply", !.id = id, !.text = text, !.obj = k] \in Worker
    BY <1>1, NoWorkType DEF Worker, SavedPolicies
  <2> QED BY <1>1, <2>1, <2>2, NoWorkType DEF TenantsTyped, Worker
<1>3. UNCHANGED <<tenantRegistry, tenantTokenIndex, multiTenancyActive, tenants, made, dirs,
                  met, shared, gone>>
  BY DEF Look, memory
<1>4. /\ crossed' = crossed \/ crossed' = crossed \cup {id}
      /\ id \notin crossed' => \A v \in Workers : ~Creates(v, id) /\ ~Saves(v, id)
  <2>1. crossed' = IF Saving(id) \cup Creating(id) = {} THEN crossed ELSE crossed \cup {id}
    BY DEF Look
  <2>2. Saving(id) \cup Creating(id) = {} => \A v \in Workers : ~Creates(v, id) /\ ~Saves(v, id)
    BY DEF Creating, Saving, Creates, Saves, Unregistered
  <2> QED BY <2>1, <2>2
<1>5. TenantsTyped' /\ Employed' /\ Room'
  <2>1. TenantsTyped'
    BY <1>1, <1>2, <1>3, <1>4 DEF TenantsTyped
  <2>2. /\ \A v \in Workers : workers'[v].pc # "idle" => workers'[v].id \in TenantIDs
        /\ \A v \in Workers : workers'[v].pc \in Unregistered \cup {"activate"} => workers'[v].token \in Tokens
    BY <1>1, <1>2 DEF Employed, Unregistered
  <2>3. \A v \in Workers : workers'[v].pc \in {"kill", "remove", "apply", "write"} =>
          workers'[v].obj \in 1 .. made' /\ tenants'[workers'[v].obj].id = workers'[v].id
    BY <1>1, <1>2, <1>3 DEF Employed
  <2>4. Employed'
    BY <1>1, <1>3, <2>2, <2>3 DEF Employed
  <2>5. Pending' = Pending
    BY <1>1, <1>2 DEF Pending, Unregistered
  <2> QED BY <1>1, <1>3, <2>1, <2>4, <2>5 DEF Room
<1> HIDE DEF k
<1>6. \A v \in Workers : /\ (Creates(v, id)' <=> Creates(v, id)) /\ (Creates(v, id) => v # w)
                         /\ (Deletes(v, id)' <=> Deletes(v, id)) /\ (Deletes(v, id) => v # w)
                         /\ (Saves(v, id)' <=> v = w \/ Saves(v, id)) /\ (Saves(v, id) => v # w)
  BY <1>1, <1>2 DEF Creates, Deletes, Saves, Unregistered
<1>7. \A i \in TenantIDs : NameInv(i)'
  <2>1. Turns(id)'
    BY <1>1, <1>2, <1>3, <1>6 DEF NameInv, Turns
  <2>2. CreatedSoFar(id)'
    BY <1>1, <1>2, <1>3, <1>4, <1>6 DEF NameInv, CreatedSoFar
  <2>3. OnDisk(id)'
    BY <1>1, <1>3 DEF NameInv, OnDisk
  <2>4. SavesFollow(id)'
    BY <1>1, <1>2, <1>3, <1>4, <1>6 DEF NameInv, SavesFollow, k
  <2>5. GoneIsGone(id)'
    BY <1>1, <1>3, <1>6 DEF NameInv, GoneIsGone
  <2>6. \A i \in TenantIDs : i # id => NameInv(i)'
    BY <1>1, <1>2, <1>3, <1>4, OtherName DEF TenantsInv
  <2> QED BY <2>1, <2>2, <2>3, <2>4, <2>5, <2>6 DEF NameInv
<1>8. \A t \in Tokens : OneOwner(t)' /\ Indexed(t)'
  <2> SUFFICES ASSUME NEW t \in Tokens PROVE OneOwner(t)' /\ Indexed(t)'
    OBVIOUS
  <2>1. \A i \in TenantIDs : HasToken(i, t)' <=> HasToken(i, t)
    BY <1>1, <1>3, TokenStays
  <2>2. OneOwner(t)'
    BY <1>1, <1>2, <1>3, <2>1, TokensDiffer, OwnersStay DEF TenantsInv
  <2>3. \A i \in TenantIDs, v \in Workers : Creates(v, i) => Creates(v, i)'
    BY <1>1, <1>2 DEF Creates, Unregistered
  <2> QED BY <1>1, <1>3, <2>1, <2>2, <2>3, IndexStays, TenantsAssumption DEF TenantsInv, TenantsTyped
<1> QED BY <1>5, <1>7, <1>8 DEF TenantsInv

(* Of the objects only the registered one of its name follows the file.     *)
LEMMA ApplyKeeps == ASSUME TenantsInv, NEW w \in Workers, Apply(w) PROVE TenantsInv'
<1>1. PICK id \in TenantIDs : workers[w].id = id
  BY AtWork DEF Apply
<1>2. PICK k \in Objects : workers[w].obj = k /\ tenants[k].id = id
  BY <1>1, TenantsAssumption DEF TenantsInv, TenantsTyped, Apply, Employed, Objects
<1>3. /\ TenantsTyped /\ Employed /\ Room /\ NameInv(id) /\ workers[w].pc = "apply"
      /\ Saves(w, id) /\ workers[w] \in Worker
  BY <1>1 DEF TenantsInv, TenantsTyped, Apply, Saves
<1>4. /\ workers' \in [Workers -> Worker]
      /\ \A v \in Workers : v # w => workers'[v] = workers[v]
      /\ workers'[w].pc = "write" /\ workers'[w].id = id /\ workers'[w].obj = k
      /\ workers'[w].token = workers[w].token /\ workers'[w].text = workers[w].text
  BY <1>1, <1>2, <1>3, GoMoves DEF Apply
<1>5. UNCHANGED <<tenantRegistry, tenantTokenIndex, multiTenancyActive, made, dirs,
                  met, crossed, shared, gone>>
  BY DEF Apply
<1>6. /\ tenants' \in [Objects -> Tenant] /\ tenants'[k].policy = workers[w].text
      /\ \A j \in Objects : tenants'[j].id = tenants[j].id /\ tenants'[j].token = tenants[j].token
      /\ \A j \in Objects : j # k => tenants'[j] = tenants[j]
  BY <1>2, <1>3 DEF Apply, TenantsTyped, Tenant, Worker
<1>7. 1 .. made \subseteq Objects
  BY <1>3, TenantsAssumption DEF TenantsTyped, Objects
<1>8. \A v \in Workers : workers'[v] = workers[v] \/ Stays(v)
  BY <1>1, <1>2, <1>3, <1>4 DEF Stays, Unregistered
<1>9. TenantsTyped' /\ Employed' /\ Room'
  <2>1. TenantsTyped'
    BY <1>3, <1>4, <1>5, <1>6 DEF TenantsTyped
  <2> QED BY <2>1, <1>3, <1>5, <1>6, <1>7, <1>8, EmployedStays
<1>10. \A v \in Workers : /\ (Creates(v, id)' <=> Creates(v, id)) /\ (Creates(v, id) => v # w)
                          /\ (Deletes(v, id)' <=> Deletes(v, id)) /\ (Deletes(v, id) => v # w)
                          /\ (Saves(v, id)' <=> Saves(v, id))
  BY <1>1, <1>3, <1>4 DEF Creates, Deletes, Saves, Unregistered
<1>11. \A i \in TenantIDs : tenantRegistry[i] # Default =>
         /\ tenantRegistry[i] \in Objects
         /\ i # id => tenantRegistry[i] # k
  BY <1>2, <1>3, <1>7 DEF Employed
<1>12. \A i \in TenantIDs : NameInv(i)'
  <2>1. Turns(id)'
    BY <1>3, <1>4, <1>5, <1>10 DEF NameInv, Turns
  <2>2. CreatedSoFar(id)'
    BY <1>3, <1>4, <1>5, <1>10 DEF NameInv, CreatedSoFar
  <2>3. OnDisk(id)'
    BY <1>3, <1>5, <1>6, <1>11 DEF NameInv, OnDisk
  <2>4. SavesFollow(id)'
    <3> SUFFICES ASSUME id \notin met \cup crossed PROVE SavesFollow(id)'
      BY <1>5 DEF SavesFollow
    <3>1. /\ \A v \in Workers : Saves(v, id) => v = w
          /\ \A v \in Workers : ~Creates(v, id)
          /\ tenantRegistry[id] # Default => tenantRegistry[id] = k
      BY <1>2, <1>3 DEF NameInv, SavesFollow
    <3> QED BY <1>3, <1>4, <1>5, <1>6, <1>10, <3>1 DEF SavesFollow
  <2>5. GoneIsGone(id)'
    BY <1>3, <1>5, <1>10 DEF NameInv, GoneIsGone
  <2>6. \A i \in TenantIDs : i # id => NameInv(i)'
    BY <1>1, <1>4, <1>5, <1>6, <1>11, OtherName DEF TenantsInv
  <2> QED BY <2>1, <2>2, <2>3, <2>4, <2>5, <2>6 DEF NameInv
<1>13. \A t \in Tokens : OneOwner(t)' /\ Indexed(t)'
  <2> SUFFICES ASSUME NEW t \in Tokens PROVE OneOwner(t)' /\ Indexed(t)'
    OBVIOUS
  <2>1. \A i \in TenantIDs : HasToken(i, t)' <=> HasToken(i, t)
    BY <1>3, <1>5, <1>6, <1>7, TokenStays
  <2>2. OneOwner(t)'
    BY <1>3, <1>5, <1>8, <2>1, OwnersStay DEF TenantsInv
  <2>3. \A i \in TenantIDs, v \in Workers : Creates(v, i) => Creates(v, i)'
    BY <1>1, <1>3, <1>4 DEF Creates, Unregistered
  <2> QED BY <1>3, <1>5, <2>1, <2>2, <2>3, IndexStays, TenantsAssumption DEF TenantsInv, TenantsTyped
<1> QED BY <1>9, <1>12, <1>13 DEF TenantsInv

LEMMA WriteKeeps == ASSUME TenantsInv, NEW w \in Workers, Write(w) PROVE TenantsInv'
<1>1. PICK id \in TenantIDs : workers[w].id = id
  BY AtWork DEF Write
<1>2. /\ TenantsTyped /\ Employed /\ Room /\ NameInv(id) /\ workers[w].pc = "write"
      /\ Saves(w, id) /\ workers[w] \in Worker
  BY <1>1 DEF TenantsInv, TenantsTyped, Write, Saves
<1>3. /\ workers' \in [Workers -> Worker]
      /\ \A v \in Workers : v # w => workers'[v] = workers[v]
      /\ workers'[w] = NoWork /\ workers'[w].pc = "idle" /\ workers'[w].token = None
  BY <1>2, AnswerMoves DEF Write
<1>4. UNCHANGED <<tenantRegistry, tenantTokenIndex, multiTenancyActive, tenants, made,
                  met, crossed, shared, gone>>
  BY DEF Write, memory
<1>5. /\ dirs' \in [TenantIDs -> Dir]
      /\ \A i \in TenantIDs : dirs'[i].meta = dirs[i].meta /\ dirs'[i].there = dirs[i].there
      /\ \A i \in TenantIDs : i # id => dirs'[i] = dirs[i]
      /\ dirs[id].there => dirs'[id].policy = workers[w].text
  BY <1>1, <1>2 DEF Write, TenantsTyped, Dir, Worker
<1>6. TenantsTyped' /\ Employed' /\ Room'
  <2>1. TenantsTyped'
    BY <1>2, <1>3, <1>4, <1>5 DEF TenantsTyped
  <2> QED BY <2>1, <1>2, <1>3, <1>4, EmployedStays
<1>7. \A v \in Workers : /\ (Creates(v, id)' <=> Creates(v, id)) /\ (Creates(v, id) => v # w)
                         /\ (Deletes(v, id)' <=> Deletes(v, id)) /\ (Deletes(v, id) => v # w)
                         /\ (Saves(v, id)' <=> v # w /\ Saves(v, id))
  BY <1>1, <1>2, <1>3 DEF Creates, Deletes, Saves, Unregistered
<1>8. id \notin met \cup crossed =>
        /\ \A v \in Workers : Saves(v, id) => v = w
        /\ \A v \in Workers : ~Creates(v, id)
        /\ tenantRegistry[id] # Default => tenants[tenantRegistry[id]].policy = workers[w].text
  BY <1>2 DEF NameInv, SavesFollow
<1>9. \A i \in TenantIDs : NameInv(i)'
  <2>1. Turns(id)'
    BY <1>2, <1>3, <1>4, <1>7 DEF NameInv, Turns
  <2>2. CreatedSoFar(id)'
    BY <1>2, <1>3, <1>4, <1>5, <1>7, <1>8 DEF NameInv, CreatedSoFar
  <2>3. OnDisk(id)'
    BY <1>2, <1>4, <1>5 DEF NameInv, OnDisk
  <2>4. SavesFollow(id)'
    BY <1>2, <1>4, <1>5, <1>7, <1>8 DEF NameInv, SavesFollow, OnDisk
  <2>5. GoneIsGone(id)'
    BY <1>2, <1>4, <1>5, <1>7 DEF NameInv, GoneIsGone
  <2>6. \A i \in TenantIDs : i # id => NameInv(i)'
    BY <1>1, <1>3, <1>4, <1>5, OtherName DEF TenantsInv
  <2> QED BY <2>1, <2>2, <2>3, <2>4, <2>5, <2>6 DEF NameInv
<1>10. \A t \in Tokens : OneOwner(t)' /\ Indexed(t)'
  <2> SUFFICES ASSUME NEW t \in Tokens PROVE OneOwner(t)' /\ Indexed(t)'
    OBVIOUS
  <2>1. \A i \in TenantIDs : HasToken(i, t)' <=> HasToken(i, t)
    BY <1>2, <1>4, TokenStays
  <2>2. OneOwner(t)'
    BY <1>2, <1>3, <1>4, <1>5, <2>1, TokensDiffer, OwnersStay DEF TenantsInv
  <2>3. \A i \in TenantIDs, v \in Workers : Creates(v, i) => Creates(v, i)'
    BY <1>2, <1>3 DEF Creates, Unregistered
  <2> QED BY <1>2, <1>4, <2>1, <2>2, <2>3, IndexStays, TenantsAssumption DEF TenantsInv, TenantsTyped
<1> QED BY <1>6, <1>9, <1>10 DEF TenantsInv

-----------------------------------------------------------------------------
(* A creation begins; steps that are none of Tenants; starts *)

LEMMA CheckKeeps ==
  ASSUME TenantsInv, NEW w \in Workers, NEW id \in TenantIDs, NEW t \in Tokens, Check(w, id, t)
  PROVE  TenantsInv'
<1>1. /\ TenantsTyped /\ Employed /\ Room /\ NameInv(id) /\ workers[w].pc = "idle"
      /\ tenantRegistry[id] = Default
  BY DEF TenantsInv, Check
<1>2. /\ workers' \in [Workers -> Worker]
      /\ \A v \in Workers : v # w => workers'[v] = workers[v]
      /\ workers'[w].pc = "mkdir" /\ workers'[w].id = id /\ workers'[w].token = t
  <2>1. workers' = [workers EXCEPT ![w] = [NoWork EXCEPT !.pc = "mkdir", !.id = id, !.token = t]]
    BY DEF Check
  <2>2. [NoWork EXCEPT !.pc = "mkdir", !.id = id, !.token = t] \in Worker
    BY NoWorkType DEF Worker, Unregistered
  <2> QED BY <1>1, <2>1, <2>2, NoWorkType DEF TenantsTyped, Worker
<1>3. UNCHANGED <<tenantRegistry, tenantTokenIndex, multiTenancyActive, tenants, made, dirs>>
  BY DEF Check, memory
<1>4. /\ met' = met \/ met' = met \cup {id}
      /\ id \notin met' => \A v \in Workers : ~Creates(v, id) /\ ~Deletes(v, id)
  <2>1. met' = IF Creating(id) \cup Deleting(id) = {} THEN met ELSE met \cup {id}
    BY DEF Check
  <2>2. Creating(id) \cup Deleting(id) = {} => \A v \in Workers : ~Creates(v, id) /\ ~Deletes(v, id)
    BY DEF Creating, Deleting, Creates, Deletes, Unregistered
  <2> QED BY <2>1, <2>2
<1>5. /\ crossed' = crossed \/ crossed' = crossed \cup {id}
      /\ id \notin crossed' => \A v \in Workers : ~Saves(v, id)
  <2>1. crossed' = IF Saving(id) = {} THEN crossed ELSE crossed \cup {id}
    BY DEF Check
  <2>2. Saving(id) = {} => \A v \in Workers : ~Saves(v, id)
    BY DEF Saving, Saves
  <2> QED BY <2>1, <2>2
<1>6. /\ shared' = shared \/ shared' = shared \cup {t}
      /\ t \notin shared' => /\ \A i \in TenantIDs : dirs[i].meta = t => i = id
                             /\ \A v \in Workers : workers[v].token # t
                             /\ \A i \in TenantIDs : ~HasToken(i, t)
  <2>1. t \notin shared' => /\ \A i \in TenantIDs : dirs[i].meta = t => i = id
                            /\ \A v \in Workers : workers[v].token # t
                            /\ \A k \in Objects : tenants[k].token = t => tenantRegistry[tenants[k].id] # k
    BY DEF Check
  <2>2. \A i \in TenantIDs : tenantRegistry[i] # Default =>
          tenantRegistry[i] \in Objects /\ tenants[tenantRegistry[i]].id = i
    BY <1>1, TenantsAssumption DEF Employed, TenantsTyped, Objects
  <2>3. shared' = shared \/ shared' = shared \cup {t}
    BY DEF Check
  <2> QED BY <2>1, <2>2, <2>3 DEF HasToken
<1>7. gone' = gone \ {id}
  BY DEF Check
<1>8. Room'
  <2> DEFINE All == UNION {Creating(i) : i \in TenantIDs}
  <2>1. Pending' = Pending \cup {w} /\ w \notin Pending
    BY <1>1, <1>2 DEF Pending, Unregistered
  <2>2. Pending \subseteq All
    BY <1>1 DEF Pending, Creating, Employed, Unregistered
  <2>3. All \subseteq Workers
    BY DEF Creating
  <2>4. made + Cardinality(All) < MaxTenants
    BY DEF Check
  <2> HIDE DEF All
  <2>5. IsFiniteSet(All) /\ IsFiniteSet(Pending)
    BY <2>2, <2>3, TenantsAssumption, FS_Subset
  <2>6. /\ Cardinality(Pending') = Cardinality(Pending) + 1
        /\ Cardinality(Pending) <= Cardinality(All)
        /\ Cardinality(Pending) \in Nat /\ Cardinality(All) \in Nat
    BY <2>1, <2>2, <2>5, FS_AddElement, FS_Subset, FS_CardinalityType
  <2>7. made \in Nat /\ made' = made
    BY <1>1, <1>3 DEF TenantsTyped
  <2> QED BY <2>4, <2>6, <2>7, TenantsAssumption DEF Room
<1>9. TenantsTyped' /\ Employed'
  <2>1. TenantsTyped'
    BY <1>1, <1>2, <1>3, <1>4, <1>5, <1>6, <1>7 DEF TenantsTyped
  <2>2. /\ \A v \in Workers : workers'[v].pc # "idle" => workers'[v].id \in TenantIDs
        /\ \A v \in Workers : workers'[v].pc \in Unregistered \cup {"activate"} => workers'[v].token \in Tokens
    BY <1>1, <1>2 DEF Employed, Unregistered
  <2>3. \A v \in Workers : workers'[v].pc \in {"kill", "remove", "apply", "write"} =>
          workers'[v].obj \in 1 .. made' /\ tenants'[workers'[v].obj].id = workers'[v].id
    BY <1>1, <1>2, <1>3 DEF Employed
  <2> QED BY <1>1, <1>3, <2>1, <2>2, <2>3 DEF Employed
<1>10. \A v \in Workers : /\ (Creates(v, id)' <=> v = w \/ Creates(v, id)) /\ (Creates(v, id) => v # w)
                          /\ (Deletes(v, id)' <=> Deletes(v, id)) /\ (Deletes(v, id) => v # w)
                          /\ (Saves(v, id)' <=> Saves(v, id)) /\ (Saves(v, id) => v # w)
  BY <1>1, <1>2 DEF Creates, Deletes, Saves, Unregistered
<1>11. \A i \in TenantIDs : NameInv(i)'
  <2>1. Turns(id)'
    BY <1>1, <1>2, <1>3, <1>4, <1>10 DEF NameInv, Turns
  <2>2. CreatedSoFar(id)'
    BY <1>2, <1>4, <1>10 DEF CreatedSoFar
  <2>3. OnDisk(id)'
    BY <1>1, <1>3 DEF OnDisk
  <2>4. SavesFollow(id)'
    BY <1>1, <1>3, <1>5, <1>10 DEF SavesFollow
  <2>5. GoneIsGone(id)'
    BY <1>7 DEF GoneIsGone
  <2>6. \A i \in TenantIDs : i # id => NameInv(i)'
    BY <1>1, <1>2, <1>3, <1>4, <1>5, <1>7, OtherName DEF TenantsInv
  <2> QED BY <2>1, <2>2, <2>3, <2>4, <2>5, <2>6 DEF NameInv
<1>12. \A x \in Tokens : OneOwner(x)' /\ Indexed(x)'
  <2> SUFFICES ASSUME NEW x \in Tokens PROVE OneOwner(x)' /\ Indexed(x)'
    OBVIOUS
  <2>1. \A i \in TenantIDs, y \in Tokens : HasToken(i, y)' <=> HasToken(i, y)
    BY <1>3 DEF HasToken
  <2>2. OneOwner(t)'
    <3> SUFFICES ASSUME t \notin shared' PROVE OneOwner(t)'
      BY DEF OneOwner
    <3>1. \A v \in Workers : workers'[v].token = t => v = w
      BY <1>2, <1>6
    <3> QED BY <1>2, <1>3, <1>6, <2>1, <3>1 DEF OneOwner, Brings
  <2>3. x # t => OneOwner(x)'
    BY <1>1, <1>2, <1>3, <1>6, <2>1, OwnersStay DEF TenantsInv
  <2>4. \A i \in TenantIDs, v \in Workers : Creates(v, i) => Creates(v, i)'
    BY <1>1, <1>2 DEF Creates, Unregistered
  <2>5. Indexed(x)'
    BY <1>1, <1>3, <1>4, <1>6, <2>1, <2>4, IndexStays, TenantsAssumption DEF TenantsInv, TenantsTyped
  <2> QED BY <2>2, <2>3, <2>5
<1> QED BY <1>8, <1>9, <1>11, <1>12 DEF TenantsInv

LEMMA TenantsApart ==
  ASSUME TenantsInv, UNCHANGED <<memory, dirs, workers, met, crossed, shared, gone>>
  PROVE  TenantsInv'
<1>1. UNCHANGED <<tenantRegistry, tenantTokenIndex, multiTenancyActive, tenants, made>>
  BY DEF memory
<1>2. TenantsTyped' /\ Employed' /\ Room'
  BY <1>1 DEF TenantsInv, TenantsTyped, Employed, Room, Pending
<1>3. \A id \in TenantIDs : NameInv(id)'
  BY <1>1, OtherName DEF TenantsInv
<1>4. \A t \in Tokens : OneOwner(t)' /\ Indexed(t)'
  BY <1>1 DEF TenantsInv, OneOwner, Indexed, HasToken, Brings, Creates
<1> QED BY <1>2, <1>3, <1>4 DEF TenantsInv

LEMMA NobodyWorks ==
  ASSUME workers = [w \in Workers |-> NoWork]
  PROVE  /\ Pending = {}
         /\ \A w \in Workers : /\ workers[w].pc = "idle" /\ workers[w].token = None
                               /\ \A t \in Tokens : ~Brings(w, t)
                               /\ \A id \in TenantIDs : ~Creates(w, id) /\ ~Deletes(w, id) /\ ~Saves(w, id)
BY NoWorkType DEF Pending, Brings, Creates, Deletes, Saves, Unregistered

LEMMA TenantsInit == InitTenants => TenantsInv
<1> SUFFICES ASSUME InitTenants PROVE TenantsInv
  OBVIOUS
<1>1. /\ \A id \in TenantIDs : tenantRegistry[id] = Default /\ dirs[id] = NoDir
      /\ \A t \in Tokens : tenantTokenIndex[t] = None
      /\ workers = [w \in Workers |-> NoWork]
      /\ made = 0 /\ gone = {}
  BY DEF InitTenants
<1>2. NoDir \in Dir /\ NoDir.meta = None
  BY DEF NoDir, Dir, Metas, SavedPolicies
<1>3. TenantsTyped
  <2>1. [id |-> None, token |-> None, policy |-> None] \in Tenant
    BY DEF Tenant, Metas, SavedPolicies
  <2>2. MaxTenants \in Nat
    BY TenantsAssumption
  <2>3. /\ tenantRegistry \in [TenantIDs -> 0 .. MaxTenants]
        /\ tenantTokenIndex \in [Tokens -> TenantIDs \cup {None}]
        /\ made \in 0 .. MaxTenants
    <3>1. /\ tenantRegistry = [id \in TenantIDs |-> Default]
          /\ tenantTokenIndex = [t \in Tokens |-> None]
          /\ made = 0
      BY DEF InitTenants
    <3> QED BY <2>2, <3>1 DEF Default
  <2>4. tenants \in [Objects -> Tenant]
    BY <2>1 DEF InitTenants
  <2>5. dirs \in [TenantIDs -> Dir] /\ workers \in [Workers -> Worker]
    BY <1>2, NoWorkType DEF InitTenants
  <2>6. /\ multiTenancyActive \in BOOLEAN
        /\ met \subseteq TenantIDs /\ crossed \subseteq TenantIDs /\ gone \subseteq TenantIDs
        /\ shared \subseteq Tokens
    BY DEF InitTenants
  <2> QED BY <2>3, <2>4, <2>5, <2>6 DEF TenantsTyped
<1>4. Employed /\ Room
  <2>1. Employed
    BY <1>1, NobodyWorks DEF Employed, Unregistered
  <2> QED BY <2>1, <1>1, NobodyWorks, FS_EmptySet, TenantsAssumption DEF Room
<1>5. \A id \in TenantIDs : NameInv(id)
  BY <1>1, NobodyWorks DEF NameInv, Turns, CreatedSoFar, OnDisk, SavesFollow, GoneIsGone
<1>6. \A t \in Tokens : OneOwner(t) /\ Indexed(t)
  BY <1>1, <1>2, NobodyWorks, TokensDiffer DEF OneOwner, Indexed, HasToken
<1> QED BY <1>3, <1>4, <1>5, <1>6 DEF TenantsInv

(* What InitTenants makes of the directories d.                             *)
LEMMA LoadedAll ==
  ASSUME NEW d \in [TenantIDs -> Dir], LoadAll(d)
  PROVE  /\ \A id \in TenantIDs : tenantRegistry'[id] # Default <=> id \in Loadable(d)
         /\ \A id \in Loadable(d) : /\ tenantRegistry'[id] \in 1 .. made'
                                    /\ tenants'[tenantRegistry'[id]] = Loaded(d, id)
         /\ \A k \in 1 .. made' : tenants'[k].id \in TenantIDs
         /\ \A t \in Tokens :
              \/ /\ tenantTokenIndex'[t] \in Loadable(d) /\ d[tenantTokenIndex'[t]].meta = t
              \/ /\ tenantTokenIndex'[t] = None /\ \A id \in Loadable(d) : d[id].meta # t
         /\ multiTenancyActive' = (Loadable(d) # {})
         /\ workers' = [w \in Workers |-> NoWork]
         /\ made' \in Nat /\ made' <= MaxTenants
         /\ tenantRegistry' \in [TenantIDs -> 0 .. MaxTenants]
         /\ tenantTokenIndex' \in [Tokens -> TenantIDs \cup {None}]
         /\ tenants' \in [Objects -> Tenant]
<1> DEFINE ids == Loadable(d)
           n == Cardinality(ids)
           order == CHOOSE f \in Bijection(1 .. n, ids) : TRUE
           Number(id) == CHOOSE k \in 1 .. n : order[k] = id
           Has(t) == {id \in ids : d[id].meta = t}
<1>1. /\ tenants' = [k \in Objects |-> IF k \in 1 .. n THEN Loaded(d, order[k])
                                       ELSE [id |-> None, token |-> None, policy |-> None]]
      /\ made' = n
      /\ tenantRegistry' = [id \in TenantIDs |-> IF id \in ids THEN Number(id) ELSE Default]
      /\ tenantTokenIndex' = [t \in Tokens |-> IF Has(t) = {} THEN None ELSE CHOOSE id \in Has(t) : TRUE]
      /\ multiTenancyActive' = (ids # {})
      /\ workers' = [w \in Workers |-> NoWork]
  BY DEF LoadAll
<1>2. ids \subseteq TenantIDs
  BY DEF Loadable
<1>3. n \in Nat /\ n <= MaxTenants /\ Bijection(1 .. n, ids) # {}
  <2>1. IsFiniteSet(ids) /\ n <= Cardinality(TenantIDs) /\ Cardinality(TenantIDs) \in Nat
    BY <1>2, TenantsAssumption, FS_Subset, FS_CardinalityType
  <2> QED BY <2>1, FS_CardinalityType, TenantsAssumption DEF ExistsBijection
<1>4. /\ \A k \in 1 .. n : order[k] \in ids
      /\ \A id \in ids : \E k \in 1 .. n : order[k] = id
  BY <1>3 DEF Bijection, Injection, Surjection
<1>5. \A id \in ids : Number(id) \in 1 .. n /\ order[Number(id)] = id
  BY <1>4
<1>6. \A id \in ids : Loaded(d, id) \in Tenant /\ Loaded(d, id).id = id
  <2> SUFFICES ASSUME NEW id \in ids PROVE Loaded(d, id) \in Tenant /\ Loaded(d, id).id = id
    OBVIOUS
  <2>1. d[id] \in Dir
    BY <1>2
  <2> QED BY <1>2, <2>1 DEF Loaded, Tenant, Dir, SavedPolicies
<1>7. \A t \in Tokens : Has(t) # {} => (CHOOSE id \in Has(t) : TRUE) \in Has(t)
  OBVIOUS
<1> HIDE DEF order, Number, n
<1>8. 1 .. n \subseteq Objects /\ 1 .. n \subseteq 0 .. MaxTenants /\ 0 \in 0 .. MaxTenants
  BY <1>3, TenantsAssumption DEF Objects
<1>9. /\ \A id \in TenantIDs : tenantRegistry'[id] # Default <=> id \in ids
      /\ \A id \in ids : tenantRegistry'[id] = Number(id)
      /\ tenantRegistry' \in [TenantIDs -> 0 .. MaxTenants]
  <2>1. \A id \in ids : Number(id) # Default
    BY <1>3, <1>5 DEF Default
  <2> HIDE DEF ids
  <2> QED BY <1>1, <1>2, <1>5, <1>8, <2>1 DEF Default
<1>10. /\ \A k \in 1 .. n : tenants'[k] = Loaded(d, order[k])
       /\ tenants' \in [Objects -> Tenant]
  <2>1. [id |-> None, token |-> None, policy |-> None] \in Tenant
    BY DEF Tenant, Metas, SavedPolicies
  <2> HIDE DEF ids
  <2> QED BY <1>1, <1>4, <1>6, <1>8, <2>1
<1>11. /\ \A t \in Tokens : \/ tenantTokenIndex'[t] \in Has(t)
                            \/ tenantTokenIndex'[t] = None /\ Has(t) = {}
       /\ tenantTokenIndex' \in [Tokens -> TenantIDs \cup {None}]
  <2>1. \A t \in Tokens : Has(t) \subseteq TenantIDs
    BY <1>2
  <2> HIDE DEF Has
  <2> QED BY <1>1, <1>7, <2>1
<1>12. \A t \in Tokens :
         \/ tenantTokenIndex'[t] \in ids /\ d[tenantTokenIndex'[t]].meta = t
         \/ tenantTokenIndex'[t] = None /\ \A id \in ids : d[id].meta # t
  BY <1>11
<1>13. \A id \in ids : tenantRegistry'[id] \in 1 .. made' /\ tenants'[tenantRegistry'[id]] = Loaded(d, id)
  BY <1>1, <1>5, <1>9, <1>10
<1>14. \A k \in 1 .. made' : tenants'[k].id \in TenantIDs
  BY <1>1, <1>2, <1>4, <1>6, <1>10
<1>15. /\ multiTenancyActive' = (ids # {}) /\ workers' = [w \in Workers |-> NoWork]
       /\ made' \in Nat /\ made' <= MaxTenants
  BY <1>1, <1>3
<1>16. /\ tenantRegistry' \in [TenantIDs -> 0 .. MaxTenants]
       /\ tenantTokenIndex' \in [Tokens -> TenantIDs \cup {None}]
       /\ tenants' \in [Objects -> Tenant]
       /\ \A id \in TenantIDs : tenantRegistry'[id] # Default <=> id \in ids
  BY <1>9, <1>10, <1>11
<1> QED BY <1>12, <1>13, <1>14, <1>15, <1>16

LEMMA RestartKeeps == ASSUME TenantsInv, RestartTenants PROVE TenantsInv'
<1>1. TenantsTyped
  BY DEF TenantsInv
<1>2. PICK d \in [TenantIDs -> UNION {Left(id) : id \in TenantIDs}] :
        /\ \A id \in TenantIDs : d[id] \in Left(id)
        /\ dirs' = d /\ LoadAll(d) /\ UNCHANGED <<met, crossed, shared, gone>>
  BY DEF RestartTenants
<1>3. \A id \in TenantIDs :
        /\ d[id] \in Dir /\ d[id].there = dirs[id].there
        /\ d[id].meta = dirs[id].meta \/ d[id].meta = Torn
        /\ d[id].policy = dirs[id].policy \/ d[id].policy = Torn
  <2> SUFFICES ASSUME NEW id \in TenantIDs
               PROVE  /\ d[id] \in Dir /\ d[id].there = dirs[id].there
                      /\ d[id].meta = dirs[id].meta \/ d[id].meta = Torn
                      /\ d[id].policy = dirs[id].policy \/ d[id].policy = Torn
    OBVIOUS
  <2>1. d[id] \in Left(id)
    BY <1>2
  <2>2. d[id] \in [there : {dirs[id].there}, meta : {dirs[id].meta, Torn},
                     policy : {dirs[id].policy, Torn}]
    BY <2>1 DEF Left
  <2>3. dirs[id] \in Dir
    BY <1>1 DEF TenantsTyped
  <2> QED BY <2>2, <2>3 DEF Dir, Metas, SavedPolicies
<1>4. d \in [TenantIDs -> Dir]
  BY <1>2, <1>3
<1>5. /\ \A id \in TenantIDs : tenantRegistry'[id] # Default <=> id \in Loadable(d)
      /\ \A id \in Loadable(d) : /\ tenantRegistry'[id] \in 1 .. made'
                                 /\ tenants'[tenantRegistry'[id]] = Loaded(d, id)
      /\ \A k \in 1 .. made' : tenants'[k].id \in TenantIDs
      /\ \A t \in Tokens :
           \/ /\ tenantTokenIndex'[t] \in Loadable(d) /\ d[tenantTokenIndex'[t]].meta = t
           \/ /\ tenantTokenIndex'[t] = None /\ \A id \in Loadable(d) : d[id].meta # t
      /\ multiTenancyActive' = (Loadable(d) # {})
      /\ workers' = [w \in Workers |-> NoWork]
      /\ made' \in Nat /\ made' <= MaxTenants
      /\ tenantRegistry' \in [TenantIDs -> 0 .. MaxTenants]
      /\ tenantTokenIndex' \in [Tokens -> TenantIDs \cup {None}]
      /\ tenants' \in [Objects -> Tenant]
  <2>1. LoadAll(d)
    BY <1>2
  <2> QED BY <1>4, <2>1, LoadedAll
<1>6. \A id \in Loadable(d) : /\ id \in TenantIDs /\ d[id].there
                              /\ tenants'[tenantRegistry'[id]].id = id
                              /\ tenants'[tenantRegistry'[id]].token = d[id].meta
                              /\ tenants'[tenantRegistry'[id]].policy =
                                   IF d[id].policy = None THEN Root ELSE d[id].policy
  <2> SUFFICES ASSUME NEW id \in Loadable(d)
               PROVE  /\ id \in TenantIDs /\ d[id].there
                      /\ Loaded(d, id).id = id /\ Loaded(d, id).token = d[id].meta
                      /\ Loaded(d, id).policy = IF d[id].policy = None THEN Root ELSE d[id].policy
    BY <1>5
  <2> QED BY DEF Loadable, Loaded
<1>7. /\ Pending' = {}
      /\ \A w \in Workers : /\ workers'[w].pc = "idle" /\ workers'[w].token = None
                            /\ \A t \in Tokens : ~Brings(w, t)'
                            /\ \A id \in TenantIDs : ~Creates(w, id)' /\ ~Deletes(w, id)' /\ ~Saves(w, id)'
  BY <1>5, NoWorkType DEF Pending, Brings, Creates, Deletes, Saves, Unregistered
<1>8. TenantsTyped' /\ Employed' /\ Room'
  <2>1. /\ made' \in 0 .. MaxTenants /\ made' <= MaxTenants
        /\ tenantRegistry' \in [TenantIDs -> 0 .. MaxTenants]
        /\ tenantTokenIndex' \in [Tokens -> TenantIDs \cup {None}]
        /\ tenants' \in [Objects -> Tenant]
    BY <1>5, TenantsAssumption
  <2>2. TenantsTyped'
    BY <1>1, <1>2, <1>4, <1>5, <2>1, NoWorkType DEF TenantsTyped
  <2>3. Employed'
    BY <1>5, <1>6, <1>7 DEF Employed, Unregistered
  <2> QED BY <1>7, <2>1, <2>2, <2>3, FS_EmptySet DEF Room
<1>9. \A id \in TenantIDs : NameInv(id)'
  <2> SUFFICES ASSUME NEW id \in TenantIDs PROVE NameInv(id)'
    OBVIOUS
  <2>1. Turns(id)' /\ CreatedSoFar(id)'
    BY <1>7 DEF Turns, CreatedSoFar
  <2>2. OnDisk(id)'
    BY <1>2, <1>5, <1>6 DEF OnDisk
  <2>3. SavesFollow(id)'
    BY <1>2, <1>5, <1>6, <1>7 DEF SavesFollow
  <2>4. GoneIsGone(id)'
    <3>1. id \in gone \ met => ~dirs[id].there
      BY DEF TenantsInv, NameInv, GoneIsGone
    <3> QED BY <1>2, <1>3, <1>5, <1>6, <1>7, <3>1 DEF GoneIsGone
  <2> QED BY <2>1, <2>2, <2>3, <2>4 DEF NameInv
<1>10. \A t \in Tokens : OneOwner(t)' /\ Indexed(t)'
  <2> SUFFICES ASSUME NEW t \in Tokens, t \notin shared PROVE OneOwner(t)' /\ Indexed(t)'
    BY <1>2 DEF OneOwner, Indexed
  <2>1. \A i, j \in TenantIDs : d[i].meta = t /\ d[j].meta = t => i = j
    BY <1>3, TokensDiffer DEF TenantsInv, OneOwner
  <2>2. \A i \in TenantIDs : HasToken(i, t)' <=> i \in Loadable(d) /\ d[i].meta = t
    BY <1>5, <1>6 DEF HasToken
  <2>3. OneOwner(t)'
    BY <1>2, <1>7, <2>1, <2>2 DEF OneOwner
  <2>4. \A i \in TenantIDs : HasToken(i, t)' => tenantTokenIndex'[t] = i /\ multiTenancyActive'
    <3> SUFFICES ASSUME NEW i \in Loadable(d), d[i].meta = t
                 PROVE  tenantTokenIndex'[t] = i /\ multiTenancyActive'
      BY <2>2
    <3>1. multiTenancyActive'
      BY <1>5
    <3>2. tenantTokenIndex'[t] \in Loadable(d) /\ d[tenantTokenIndex'[t]].meta = t
      BY <1>5
    <3> QED BY <1>6, <2>1, <3>1, <3>2
  <2>5. tenantTokenIndex'[t] # None => HasToken(tenantTokenIndex[t], t)'
    BY <1>5, <1>6 DEF HasToken
  <2> QED BY <2>3, <2>4, <2>5 DEF Indexed
<1> QED BY <1>8, <1>9, <1>10 DEF TenantsInv

-----------------------------------------------------------------------------
(* Loads of the policy *)

LEMMA LoginTypes ==
  /\ NoConfig \in Providers /\ NoReinit \in LoadRecord /\ NoLogin \in LoginRecord
  /\ NoSession \in SessionRecord /\ NoReinit.policy \in SSOPolicy
  /\ NoReinit.pc = "none" /\ NoLogin.pc = "none" /\ NoSession.role = "none"
BY DEF NoReinit, NoLogin, NoSession, Providers, LoadRecord, LoginRecord, SessionRecord, SSOPolicy

(* What only logins and sessions change.                                    *)
LEMMA LoadsStay ==
  ASSUME Numbered, Progress, Untangled, UNCHANGED <<loads, reinits, globals, tangled>>
  PROVE  Numbered' /\ Progress' /\ Untangled'
BY DEF Numbered, Progress, Untangled, Runs, Installs, globals

LEMMA LoginsStay ==
  ASSUME Undisturbed, RolesFit, UNCHANGED <<logins, oidcSessions, oidcCfg, oidcVerifier>>,
         \A n \in Loads : Installs(n)' => Installs(n)
  PROVE  Undisturbed' /\ RolesFit'
BY DEF Undisturbed, RolesFit

LEMMA LoadSSOKeeps == ASSUME LoginInv, LoadSSO PROVE LoginInv'
<1>1. LoginTyped /\ Numbered /\ Progress /\ Untangled
  BY DEF LoginInv
<1>2. /\ loads' = loads + 1 /\ loads' \in Loads /\ loads \in Nat
      /\ reinits[loads'].pc = "none"
  BY <1>1, UserLoginAssumption DEF LoadSSO, LoginTyped, Loads, Numbered
<1>3. UNCHANGED <<routes, file, oidcEnabled, oidcCfg, oidcVerifier, oauth2Config, tangled,
                  logins, stateCookie, oidcSessions, chatCookie>>
  BY DEF LoadSSO, globals, browser
<1>4. PICK m \in Loads : m = loads'
  BY <1>2
<1>5. /\ reinits' \in [Loads -> LoadRecord]
      /\ reinits'[m].pc = "begin" /\ reinits'[m].alone = (InFlight = {})
      /\ \A n \in Loads : n # m =>
           /\ reinits'[n].pc = reinits[n].pc /\ reinits'[n].policy = reinits[n].policy
           /\ reinits'[n].ok = reinits[n].ok
           /\ reinits'[n].alone => reinits[n].alone
           /\ Runs(n) => ~reinits'[n].alone
  <2>1. reinits' = [n \in Loads |->
          IF n = m THEN [pc |-> "begin", policy |-> file, alone |-> InFlight = {}, ok |-> FALSE]
          ELSE IF n \in InFlight THEN [reinits[n] EXCEPT !.alone = FALSE] ELSE reinits[n]]
    BY <1>4 DEF LoadSSO
  <2>2. [pc |-> "begin", policy |-> file, alone |-> InFlight = {}, ok |-> FALSE] \in LoadRecord
    BY <1>1 DEF LoginTyped, LoadRecord
  <2>3. \A n \in Loads : n \in InFlight <=> Runs(n)
    BY DEF InFlight, Runs
  <2>4. \A n \in Loads : n # m =>
          /\ reinits'[n] \in LoadRecord
          /\ reinits'[n].pc = reinits[n].pc /\ reinits'[n].policy = reinits[n].policy
          /\ reinits'[n].ok = reinits[n].ok
          /\ reinits'[n].alone => reinits[n].alone
          /\ Runs(n) => ~reinits'[n].alone
    BY <1>1, <2>1, <2>3 DEF LoginTyped, LoadRecord
  <2>5. reinits'[m] = [pc |-> "begin", policy |-> file, alone |-> InFlight = {}, ok |-> FALSE]
    BY <2>1
  <2>6. reinits'[m] \in LoadRecord /\ reinits'[m].pc = "begin" /\ reinits'[m].alone = (InFlight = {})
    BY <2>2, <2>5
  <2> QED BY <2>1, <2>4, <2>6
<1>6. LoginTyped'
  <2>1. main' \in {"load", "routes", "serve"} /\ sso' = file /\ unread' = FALSE
    BY <1>1 DEF LoadSSO, LoginTyped
  <2>2. loads' \in 0 .. MaxLoads
    BY <1>2, UserLoginAssumption DEF Loads
  <2> QED BY <1>1, <1>3, <1>5, <2>1, <2>2 DEF LoginTyped
<1>7. \A n \in Loads : Installs(n)' <=> Installs(n)
  BY <1>2, <1>4, <1>5 DEF Installs
<1>8. Numbered'
  <2>1. \A n \in Loads : reinits'[n].pc = "none" <=> n > loads'
    BY <1>1, <1>2, <1>4, <1>5 DEF Numbered, Loads
  <2>2. \A n \in Loads : Runs(n)' => n = m \/ Runs(n)
    BY <1>5 DEF Runs
  <2>3. \A n \in Loads : n # m /\ Runs(n) => ~reinits'[n].alone /\ ~reinits'[m].alone
    <3>1. \A n \in Loads : Runs(n) => InFlight # {}
      BY DEF Runs, InFlight
    <3> QED BY <1>5, <3>1
  <2> QED BY <1>4, <2>1, <2>2, <2>3 DEF Numbered
<1>9. Progress'
  <2>1. \A n \in Loads : reinits'[n].pc \in {"cfg", "verifier", "oauth2"} => reinits'[n].policy.on
    BY <1>1, <1>5 DEF Progress
  <2>2. reinits'[loads'].pc = "begin"
    BY <1>4, <1>5
  <2> QED BY <2>1, <2>2 DEF Progress
<1>10. Untangled'
  <2>1. \A n \in Loads : Installs(n) => n # m
    BY <1>2, <1>4 DEF Installs
  <2> QED BY <1>1, <1>3, <1>5, <1>7, <2>1 DEF Untangled
<1>11. Undisturbed' /\ RolesFit'
  BY <1>3, <1>7, LoginsStay DEF LoginInv
<1> QED BY <1>6, <1>8, <1>9, <1>10, <1>11 DEF LoginInv

(* Of the load n, as it goes on.                                            *)
Goes(n) ==
  /\ reinits' \in [Loads -> LoadRecord]
  /\ \A m \in Loads : m # n => reinits'[m] = reinits[m]
  /\ reinits'[n].policy = reinits[n].policy /\ reinits'[n].alone = reinits[n].alone
  /\ Runs(n) /\ reinits'[n].pc # "none" /\ loads' = loads

LEMMA NumberedGoes ==
  ASSUME LoginTyped, Numbered, NEW n \in Loads, Goes(n)
  PROVE  /\ Numbered'
         /\ n <= loads /\ loads \in Loads
         /\ reinits[loads].alone \/ reinits[n].alone => n = loads
<1>1. n <= loads /\ loads \in Loads
  BY UserLoginAssumption DEF LoginTyped, Numbered, Goes, Runs, Loads
<1>2. \A m \in Loads : Runs(m)' => Runs(m)
  BY DEF Goes, Runs
<1>3. reinits'[loads].alone = reinits[loads].alone
  BY <1>1 DEF Goes
<1> QED BY <1>1, <1>2, <1>3, UserLoginAssumption DEF Numbered, Goes, Runs, Loads

LEMMA DisableKeeps == ASSUME LoginInv, NEW n \in Loads, Disable(n) PROVE LoginInv'
<1>1. LoginTyped /\ Numbered /\ Progress /\ Untangled /\ reinits[n] \in LoadRecord
  BY DEF LoginInv, LoginTyped
<1>2. /\ oidcEnabled' = FALSE /\ ~reinits[n].policy.on /\ reinits[n].pc = "begin"
      /\ UNCHANGED <<main, routes, sso, file, loads, unread, oidcCfg, oidcVerifier, oauth2Config,
                     tangled, logins, stateCookie, oidcSessions, chatCookie>>
  BY DEF Disable, policies, browser
<1>3. reinits'[n].pc = "done" /\ Goes(n)
  <2>1. reinits' = [reinits EXCEPT ![n] = [reinits[n] EXCEPT !.pc = "done", !.ok = TRUE]]
    BY <1>1 DEF Disable, Finished, LoginTyped
  <2>2. [reinits[n] EXCEPT !.pc = "done", !.ok = TRUE] \in LoadRecord
    BY <1>1 DEF LoadRecord
  <2> QED BY <1>1, <1>2, <2>1, <2>2 DEF LoginTyped, LoadRecord, Goes, Runs
<1>4. LoginTyped'
  BY <1>1, <1>2, <1>3 DEF LoginTyped, Goes
<1>5. \A m \in Loads : Installs(m)' <=> Installs(m) /\ m # n
  BY <1>2, <1>3 DEF Installs, Goes
<1>6. Numbered' /\ loads \in Loads /\ (reinits[loads].alone => n = loads)
  BY <1>1, <1>3, NumberedGoes
<1>7. Progress'
  <2>1. reinits[n].policy.on = FALSE
    BY <1>1, <1>2 DEF LoadRecord, SSOPolicy
  <2> QED BY <1>1, <1>2, <1>3, <1>6, <2>1 DEF Progress, Goes
<1>8. Untangled'
  <2>1. \A m \in Loads : Installs(m)' <=> Installs(m)
    BY <1>2, <1>5 DEF Installs
  <2>2. \A m \in Loads : Installs(m) => reinits'[m] = reinits[m]
    BY <1>2, <1>3 DEF Installs, Goes
  <2> QED BY <1>1, <1>2, <2>1, <2>2 DEF Untangled
<1>9. Undisturbed' /\ RolesFit'
  BY <1>2, <1>5, LoginsStay DEF LoginInv
<1> QED BY <1>4, <1>6, <1>7, <1>8, <1>9 DEF LoginInv

LEMMA DiscoverKeeps == ASSUME LoginInv, NEW n \in Loads, Discover(n) PROVE LoginInv'
<1>1. LoginTyped /\ Numbered /\ Progress /\ Untangled /\ reinits[n] \in LoadRecord
  BY DEF LoginInv, LoginTyped
<1>2. /\ reinits[n].policy.on /\ reinits[n].pc = "begin"
      /\ UNCHANGED <<main, routes, sso, file, loads, unread, oidcEnabled, oidcCfg, oidcVerifier,
                     oauth2Config, tangled, logins, stateCookie, oidcSessions, chatCookie>>
  BY DEF Discover, policies, browser, globals
<1>3. /\ Goes(n)
      /\ reinits'[n].pc = "cfg" \/ (reinits'[n].pc = "done" /\ ~reinits'[n].ok)
  <2>1. CASE Finished(n, FALSE)
    <3>1. reinits' = [reinits EXCEPT ![n] = [reinits[n] EXCEPT !.pc = "done", !.ok = FALSE]]
      BY <1>1, <2>1 DEF Finished, LoginTyped
    <3>2. [reinits[n] EXCEPT !.pc = "done", !.ok = FALSE] \in LoadRecord
      BY <1>1 DEF LoadRecord
    <3> QED BY <1>1, <1>2, <3>1, <3>2 DEF LoginTyped, LoadRecord, Goes, Runs
  <2>2. CASE reinits' = [reinits EXCEPT ![n].pc = "cfg"]
    <3>1. reinits' = [reinits EXCEPT ![n] = [reinits[n] EXCEPT !.pc = "cfg"]]
      BY <2>2
    <3>2. [reinits[n] EXCEPT !.pc = "cfg"] \in LoadRecord
      BY <1>1 DEF LoadRecord
    <3> QED BY <1>1, <1>2, <3>1, <3>2 DEF LoginTyped, LoadRecord, Goes, Runs
  <2> QED BY <2>1, <2>2 DEF Discover
<1>4. LoginTyped'
  BY <1>1, <1>2, <1>3 DEF LoginTyped, Goes
<1>5. \A m \in Loads : Installs(m)' <=> Installs(m) /\ m # n
  BY <1>2, <1>3 DEF Installs, Goes
<1>6. Numbered' /\ loads \in Loads /\ (reinits[loads].alone => n = loads)
  BY <1>1, <1>3, NumberedGoes
<1>7. Progress'
  BY <1>1, <1>2, <1>3, <1>6 DEF Progress, Goes
<1>8. Untangled'
  <2>1. \A m \in Loads : Installs(m)' <=> Installs(m)
    BY <1>2, <1>5 DEF Installs
  <2>2. \A m \in Loads : Installs(m) => reinits'[m] = reinits[m]
    BY <1>2, <1>3 DEF Installs, Goes
  <2> QED BY <1>1, <1>2, <2>1, <2>2 DEF Untangled
<1>9. Undisturbed' /\ RolesFit'
  BY <1>2, <1>5, LoginsStay DEF LoginInv
<1> QED BY <1>4, <1>6, <1>7, <1>8, <1>9 DEF LoginInv

-----------------------------------------------------------------------------
(* The three assignments *)

(* What is common to them.                                                  *)
LEMMA InstallMoves ==
  ASSUME LoginInv, NEW n \in Loads, NEW pc \in {"cfg", "verifier", "oauth2"},
         NEW next \in {"verifier", "oauth2", "done"}, Install(n, pc, next)
  PROVE  /\ Goes(n) /\ Numbered' /\ reinits[n].pc = pc /\ reinits'[n].pc = next
         /\ loads \in Loads /\ (reinits[loads].alone \/ reinits[n].alone => n = loads)
         /\ reinits[n].policy.on = TRUE /\ reinits[n].policy.config \in Providers
         /\ \A m \in Loads : m # n => (Installs(m)' <=> Installs(m))
         /\ Installs(n)' <=> next # "done"
         /\ reinits[n].alone => \A m \in Loads : Installs(m) => m = n
         /\ ~tangled' => /\ ~tangled \/ (next = "done" /\ reinits[n].alone)
                         /\ \A m \in Loads : Installs(m) => m = n
         /\ Undisturbed' /\ RolesFit'
         /\ UNCHANGED <<main, routes, sso, file, loads, unread, stateCookie, chatCookie>>
         /\ tangled' \in BOOLEAN
         /\ logins' \in [Logins -> LoginRecord] /\ oidcSessions' \in [Logins -> SessionRecord]
<1>1. LoginTyped /\ Numbered /\ Progress /\ reinits[n] \in LoadRecord
  BY DEF LoginInv, LoginTyped
<1>2. /\ UNCHANGED <<main, routes, sso, file, loads, unread, stateCookie, chatCookie>>
      /\ reinits[n].pc = pc /\ logins' = Touched /\ oidcSessions' = Older
  BY DEF Install, policies
<1>3. /\ Goes(n) /\ reinits'[n].pc = next
  <2>1. reinits' = [reinits EXCEPT ![n] = [reinits[n] EXCEPT !.pc = next, !.ok = next = "done"]]
    BY <1>1 DEF Install, LoginTyped
  <2>2. [reinits[n] EXCEPT !.pc = next, !.ok = next = "done"] \in LoadRecord
    BY <1>1 DEF LoadRecord
  <2> QED BY <1>1, <1>2, <2>1, <2>2 DEF LoginTyped, LoadRecord, Goes, Runs
<1>4. /\ Numbered' /\ loads \in Loads
      /\ reinits[loads].alone \/ reinits[n].alone => n = loads
  BY <1>1, <1>3, NumberedGoes
<1>5. /\ \A m \in Loads : m # n => (Installs(m)' <=> Installs(m))
      /\ Installs(n)' <=> next # "done"
  BY <1>3 DEF Installs, Goes
<1>6. reinits[n].alone => \A m \in Loads : Installs(m) => m = n
  <2>1. \A m \in Loads : Installs(m) => Runs(m)
    BY DEF Installs, Runs
  <2> QED BY <1>1, <1>4, <2>1 DEF Numbered, Loads
<1>7. ~tangled' => /\ ~tangled \/ (next = "done" /\ reinits[n].alone)
                   /\ \A m \in Loads : Installs(m) => m = n
  <2>1. tangled' = IF next = "done" /\ reinits[n].alone THEN FALSE
                   ELSE tangled \/ Installing \ {n} # {}
    BY DEF Install
  <2>2. Installing \ {n} = {} => \A m \in Loads : Installs(m) => m = n
    BY DEF Installing, Installs
  <2> QED BY <1>6, <2>1, <2>2
<1>8. /\ logins' \in [Logins -> LoginRecord]
      /\ \A l \in Logins : logins'[l].pc \in {"exchange", "verify", "verified"} => logins'[l].crossed
  BY <1>1, <1>2 DEF Touched, LoginTyped, LoginRecord
<1>9. /\ oidcSessions' \in [Logins -> SessionRecord]
      /\ \A l \in Logins : oidcSessions'[l].role # "none" => oidcSessions'[l].loose
  BY <1>1, <1>2, LoginTypes DEF Older, LoginTyped, SessionRecord
<1>10. Undisturbed' /\ RolesFit'
  BY <1>8, <1>9 DEF Undisturbed, RolesFit
<1>11. reinits[n].policy.on = TRUE /\ reinits[n].policy.config \in Providers
  BY <1>1, <1>2 DEF Progress, LoadRecord, SSOPolicy
<1>12. tangled' \in BOOLEAN
  BY <1>1 DEF Install, LoginTyped
<1> QED BY <1>2, <1>3, <1>4, <1>5, <1>6, <1>7, <1>8, <1>9, <1>10, <1>11, <1>12

LEMMA InstallCfgKeeps == ASSUME LoginInv, NEW n \in Loads, InstallCfg(n) PROVE LoginInv'
<1> DEFINE config == reinits[n].policy.config
<1>1. LoginTyped /\ Progress /\ Untangled
  BY DEF LoginInv
<1>2. /\ oidcCfg' = config
      /\ UNCHANGED <<oidcEnabled, oidcVerifier, oauth2Config>> /\ Install(n, "cfg", "verifier")
  BY DEF InstallCfg
<1>3. /\ Goes(n) /\ Numbered' /\ reinits[n].pc = "cfg" /\ reinits'[n].pc = "verifier"
      /\ loads \in Loads /\ (reinits[loads].alone \/ reinits[n].alone => n = loads)
      /\ reinits[n].policy.on = TRUE /\ config \in Providers
      /\ \A m \in Loads : m # n => (Installs(m)' <=> Installs(m))
      /\ Installs(n)'
      /\ ~tangled' => ~tangled /\ \A m \in Loads : Installs(m) => m = n
      /\ Undisturbed' /\ RolesFit'
      /\ UNCHANGED <<main, routes, sso, file, loads, unread, stateCookie, chatCookie>>
      /\ tangled' \in BOOLEAN
      /\ logins' \in [Logins -> LoginRecord] /\ oidcSessions' \in [Logins -> SessionRecord]
  BY <1>2, InstallMoves
<1>4. LoginTyped'
  BY <1>1, <1>2, <1>3 DEF LoginTyped, Goes
<1>5. Progress'
  BY <1>1, <1>2, <1>3 DEF Progress, Goes
<1>6. Untangled'
  BY <1>2, <1>3 DEF Untangled, Goes
<1> QED BY <1>3, <1>4, <1>5, <1>6 DEF LoginInv

LEMMA InstallVerifierKeeps == ASSUME LoginInv, NEW n \in Loads, InstallVerifier(n) PROVE LoginInv'
<1> DEFINE config == reinits[n].policy.config
<1>1. LoginTyped /\ Progress /\ Untangled
  BY DEF LoginInv
<1>2. /\ oidcVerifier' = config
      /\ UNCHANGED <<oidcEnabled, oidcCfg, oauth2Config>> /\ Install(n, "verifier", "oauth2")
  BY DEF InstallVerifier
<1>3. /\ Goes(n) /\ Numbered' /\ reinits[n].pc = "verifier" /\ reinits'[n].pc = "oauth2"
      /\ loads \in Loads /\ (reinits[loads].alone \/ reinits[n].alone => n = loads)
      /\ reinits[n].policy.on = TRUE /\ config \in Providers
      /\ \A m \in Loads : m # n => (Installs(m)' <=> Installs(m))
      /\ Installs(n)'
      /\ ~tangled' => ~tangled /\ \A m \in Loads : Installs(m) => m = n
      /\ Undisturbed' /\ RolesFit'
      /\ UNCHANGED <<main, routes, sso, file, loads, unread, stateCookie, chatCookie>>
      /\ tangled' \in BOOLEAN
      /\ logins' \in [Logins -> LoginRecord] /\ oidcSessions' \in [Logins -> SessionRecord]
  BY <1>2, InstallMoves
<1>4. LoginTyped'
  BY <1>1, <1>2, <1>3 DEF LoginTyped, Goes
<1>5. Progress'
  BY <1>1, <1>2, <1>3 DEF Progress, Goes
<1>6. Untangled'
  <2>1. Installs(n)
    BY <1>3 DEF Installs
  <2>2. ~tangled => oidcCfg = config
    BY <1>1, <2>1 DEF Untangled
  <2> QED BY <1>2, <1>3, <2>2 DEF Untangled, Goes
<1> QED BY <1>3, <1>4, <1>5, <1>6 DEF LoginInv

LEMMA InstallOAuth2Keeps == ASSUME LoginInv, NEW n \in Loads, InstallOAuth2(n) PROVE LoginInv'
<1> DEFINE config == reinits[n].policy.config
<1>1. LoginTyped /\ Progress /\ Untangled
  BY DEF LoginInv
<1>2. /\ oauth2Config' = config /\ oidcEnabled' = TRUE
      /\ UNCHANGED <<oidcCfg, oidcVerifier>> /\ Install(n, "oauth2", "done")
  BY DEF InstallOAuth2
<1>3. /\ Goes(n) /\ Numbered' /\ reinits[n].pc = "oauth2" /\ reinits'[n].pc = "done"
      /\ loads \in Loads /\ (reinits[loads].alone \/ reinits[n].alone => n = loads)
      /\ reinits[n].policy.on = TRUE /\ config \in Providers
      /\ \A m \in Loads : m # n => (Installs(m)' <=> Installs(m))
      /\ ~Installs(n)'
      /\ ~tangled' => /\ ~tangled \/ reinits[n].alone
                      /\ \A m \in Loads : Installs(m) => m = n
      /\ Undisturbed' /\ RolesFit'
      /\ UNCHANGED <<main, routes, sso, file, loads, unread, stateCookie, chatCookie>>
      /\ tangled' \in BOOLEAN
      /\ logins' \in [Logins -> LoginRecord] /\ oidcSessions' \in [Logins -> SessionRecord]
  BY <1>2, InstallMoves
<1>4. LoginTyped'
  BY <1>1, <1>2, <1>3 DEF LoginTyped, Goes
<1>5. reinits[n].alone => oidcCfg = config /\ oidcVerifier = config
  <2>1. loads > 0
    BY <1>3, UserLoginAssumption DEF Loads
  <2> QED BY <1>1, <1>3, <2>1 DEF Progress
<1>6. Progress'
  BY <1>1, <1>2, <1>3, <1>5 DEF Progress, Goes
<1>7. Untangled'
  <2>1. Installs(n)
    BY <1>3 DEF Installs
  <2>2. ~tangled' => oidcCfg = config /\ oidcVerifier = config
    BY <1>1, <1>3, <1>5, <2>1 DEF Untangled
  <2>3. ~tangled' => \A m \in Loads : ~Installs(m)'
    BY <1>3
  <2> QED BY <1>2, <2>2, <2>3 DEF Untangled
<1> QED BY <1>3, <1>4, <1>6, <1>7 DEF LoginInv

-----------------------------------------------------------------------------
(* The routes, the file, logins and starts *)

LEMMA RegisterRoutesKeeps == ASSUME LoginInv, RegisterRoutes PROVE LoginInv'
<1>1. LoginTyped'
  BY DEF LoginInv, LoginTyped, RegisterRoutes, globals, browser
<1>2. Numbered' /\ Progress' /\ Untangled'
  BY LoadsStay DEF LoginInv, RegisterRoutes
<1>3. Undisturbed' /\ RolesFit'
  BY LoginsStay DEF LoginInv, RegisterRoutes, globals, browser, Installs
<1> QED BY <1>1, <1>2, <1>3 DEF LoginInv

LEMMA SaveSSOKeeps == ASSUME LoginInv, NEW p \in Policies, SaveSSO(p) PROVE LoginInv'
<1>1. LoginTyped'
  <2>1. p \in SSOPolicy
    BY UserLoginAssumption DEF SSOPolicy, Providers
  <2> QED BY <2>1 DEF LoginInv, LoginTyped, SaveSSO, globals, browser
<1>2. Numbered' /\ Progress' /\ Untangled'
  BY LoadsStay DEF LoginInv, SaveSSO
<1>3. Undisturbed' /\ RolesFit'
  BY LoginsStay DEF LoginInv, SaveSSO, globals, browser, Installs
<1> QED BY <1>1, <1>2, <1>3 DEF LoginInv

(* One login goes on, nothing else.                                         *)
LEMMA StepMoves ==
  ASSUME LoginTyped, NEW l \in Logins, NEW pc \in {"verify", "verified", "over"}, Step(l, pc)
  PROVE  /\ logins' \in [Logins -> LoginRecord] /\ logins'[l].pc = pc
         /\ logins'[l].with = logins[l].with /\ logins'[l].crossed = logins[l].crossed
         /\ \A k \in Logins : k # l => logins'[k] = logins[k]
<1>1. logins' = [logins EXCEPT ![l] = [logins[l] EXCEPT !.pc = pc]]
  BY DEF Step
<1>2. logins[l] \in LoginRecord /\ [logins[l] EXCEPT !.pc = pc] \in LoginRecord
  BY DEF LoginTyped, LoginRecord
<1> QED BY <1>1, <1>2 DEF LoginTyped, LoginRecord

LEMMA StartLoginKeeps ==
  ASSUME LoginInv, NEW l \in Logins, NEW chat \in BOOLEAN, StartLogin(l, chat) PROVE LoginInv'
<1>1. /\ UNCHANGED <<main, routes, sso, file, loads, unread, reinits, globals, tangled,
                     oidcSessions, chatCookie>>
      /\ stateCookie' = l
  BY DEF StartLogin, policies
<1>2. UNCHANGED <<oidcEnabled, oidcCfg, oidcVerifier, oauth2Config>>
  BY <1>1 DEF globals
<1>3. /\ logins' \in [Logins -> LoginRecord] /\ logins'[l].pc = "provider"
      /\ \A k \in Logins : k # l => logins'[k] = logins[k]
  <2>1. logins' = [logins EXCEPT ![l] =
          [pc |-> "provider", chat |-> chat, with |-> oauth2Config, crossed |-> FALSE]]
    BY DEF StartLogin
  <2>2. [pc |-> "provider", chat |-> chat, with |-> oauth2Config, crossed |-> FALSE] \in LoginRecord
    BY DEF LoginInv, LoginTyped, LoginRecord
  <2> QED BY <2>1, <2>2 DEF LoginInv, LoginTyped
<1>4. LoginTyped'
  <2>1. l \in 0 .. MaxLogins
    BY UserLoginAssumption DEF Logins
  <2> QED BY <1>1, <1>2, <1>3, <2>1 DEF LoginInv, LoginTyped
<1>5. Numbered' /\ Progress' /\ Untangled'
  BY <1>1, LoadsStay DEF LoginInv
<1>6. Undisturbed' /\ RolesFit'
  BY <1>1, <1>2, <1>3 DEF LoginInv, Undisturbed, RolesFit, Installs
<1> QED BY <1>4, <1>5, <1>6 DEF LoginInv

LEMMA CallbackKeeps == ASSUME LoginInv, NEW l \in Logins, Callback(l) PROVE LoginInv'
<1>1. UNCHANGED <<main, routes, sso, file, loads, unread, reinits, globals, tangled,
                  oidcSessions, chatCookie>>
  BY DEF Callback, policies
<1>2. UNCHANGED <<oidcEnabled, oidcCfg, oidcVerifier, oauth2Config>>
  BY <1>1 DEF globals
<1>3. /\ logins' \in [Logins -> LoginRecord]
      /\ \/ logins'[l].pc = "over"
         \/ /\ logins'[l].pc = "exchange"
            /\ ~logins'[l].crossed => \A n \in Loads : ~Installs(n)
      /\ \A k \in Logins : k # l => logins'[k] = logins[k]
      /\ stateCookie' \in 0 .. MaxLogins
  <2>1. CASE stateCookie = l
    <3>1. /\ logins' = [logins EXCEPT ![l] =
                [logins[l] EXCEPT !.pc = "exchange", !.crossed = Installing # {}]]
          /\ stateCookie' = 0
      BY <2>1 DEF Callback, LoginInv, LoginTyped
    <3>2. [logins[l] EXCEPT !.pc = "exchange", !.crossed = Installing # {}] \in LoginRecord
      BY DEF LoginInv, LoginTyped, LoginRecord
    <3>3. Installing = {} => \A n \in Loads : ~Installs(n)
      BY DEF Installing, Installs
    <3>4. /\ logins' \in [Logins -> LoginRecord]
          /\ logins'[l] = [logins[l] EXCEPT !.pc = "exchange", !.crossed = Installing # {}]
          /\ \A k \in Logins : k # l => logins'[k] = logins[k]
      BY <3>1, <3>2 DEF LoginInv, LoginTyped
    <3>5. logins[l] \in LoginRecord
      BY DEF LoginInv, LoginTyped
    <3>6. logins'[l].pc = "exchange" /\ (~logins'[l].crossed => Installing = {})
      BY <3>4, <3>5 DEF LoginRecord
    <3>7. stateCookie' \in 0 .. MaxLogins
      BY <3>1, UserLoginAssumption
    <3> QED BY <3>3, <3>4, <3>6, <3>7
  <2>2. CASE stateCookie # l
    BY <2>2, StepMoves DEF Callback, LoginInv, LoginTyped
  <2> QED BY <2>1, <2>2
<1>4. LoginTyped'
  BY <1>1, <1>2, <1>3 DEF LoginInv, LoginTyped
<1>5. Numbered' /\ Progress' /\ Untangled'
  BY <1>1, LoadsStay DEF LoginInv
<1>6. Undisturbed' /\ RolesFit'
  BY <1>1, <1>2, <1>3 DEF LoginInv, Undisturbed, RolesFit, Installs
<1> QED BY <1>4, <1>5, <1>6 DEF LoginInv

LEMMA ExchangeOrVerifyKeeps ==
  ASSUME LoginInv, NEW l \in Logins, Exchange(l) \/ Verify(l) PROVE LoginInv'
<1>1. UNCHANGED <<main, routes, sso, file, loads, unread, reinits, globals, tangled,
                  stateCookie, oidcSessions, chatCookie>>
  BY DEF Exchange, Verify, policies
<1>2. UNCHANGED <<oidcEnabled, oidcCfg, oidcVerifier, oauth2Config>>
  BY <1>1 DEF globals
<1>3. /\ logins' \in [Logins -> LoginRecord]
      /\ logins[l].pc \in {"exchange", "verify"} /\ logins'[l].crossed = logins[l].crossed
      /\ logins'[l].pc = "verified" => oidcVerifier = logins'[l].with
      /\ \A k \in Logins : k # l => logins'[k] = logins[k]
  BY StepMoves DEF LoginInv, Exchange, Verify
<1>4. LoginTyped'
  BY <1>1, <1>2, <1>3 DEF LoginInv, LoginTyped
<1>5. Numbered' /\ Progress' /\ Untangled'
  BY <1>1, LoadsStay DEF LoginInv
<1>6. Undisturbed' /\ RolesFit'
  BY <1>1, <1>2, <1>3 DEF LoginInv, Undisturbed, RolesFit, Installs
<1> QED BY <1>4, <1>5, <1>6 DEF LoginInv

(* A session that is not loose is of a callback that saw no setting change, *)
(* while the settings were one load's.                                      *)
LEMMA AdmitKeeps == ASSUME LoginInv, NEW l \in Logins, Admit(l) PROVE LoginInv'
<1> DEFINE with == logins[l].with
           role == ResolveRole(with, oidcCfg)
           session == [role |-> role, by |-> with, loose |-> logins[l].crossed \/ tangled]
<1>1. UNCHANGED <<main, routes, sso, file, loads, unread, reinits, globals, tangled, stateCookie>>
  BY DEF Admit, policies
<1>2. UNCHANGED <<oidcEnabled, oidcCfg, oidcVerifier, oauth2Config>>
  BY <1>1 DEF globals
<1>3. /\ logins' \in [Logins -> LoginRecord] /\ logins'[l].pc = "over"
      /\ \A k \in Logins : k # l => logins'[k] = logins[k]
  BY StepMoves DEF LoginInv, Admit
<1>4. role \in {"none", "user", "admin"}
  BY DEF ResolveRole
<1>5. session \in SessionRecord
  BY <1>4 DEF LoginInv, LoginTyped, LoginRecord, SessionRecord
<1>6. \/ oidcSessions' = oidcSessions
      \/ oidcSessions' = [oidcSessions EXCEPT ![l] = session]
  BY DEF Admit
<1>7. ~logins[l].crossed /\ ~tangled => oidcCfg = with
  BY DEF LoginInv, Untangled, Undisturbed, Admit
<1>8. oidcSessions' \in [Logins -> SessionRecord] /\ chatCookie' \in BOOLEAN
  <2>1. chatCookie' \in BOOLEAN
    BY DEF LoginInv, LoginTyped, Admit, IssueUserSession
  <2> HIDE DEF session
  <2> QED BY <1>5, <1>6, <2>1 DEF LoginInv, LoginTyped
<1>9. LoginTyped'
  BY <1>1, <1>2, <1>3, <1>8 DEF LoginInv, LoginTyped
<1>10. Numbered' /\ Progress' /\ Untangled'
  BY <1>1, LoadsStay DEF LoginInv
<1>11. RolesFit'
  <2>1. \A k \in Logins : k # l => oidcSessions'[k] = oidcSessions[k]
    BY <1>6 DEF LoginInv, LoginTyped
  <2>2. oidcSessions'[l] = oidcSessions[l] \/ oidcSessions'[l] = session
    BY <1>6 DEF LoginInv, LoginTyped
  <2>3. ~session.loose => oidcCfg = session.by /\ session.role = ResolveRole(session.by, session.by)
    BY <1>7
  <2> HIDE DEF session
  <2>4. \A k \in Logins : oidcSessions'[k].role # "none" /\ ~oidcSessions'[k].loose =>
          /\ oidcCfg = oidcSessions'[k].by
          /\ oidcSessions'[k].role = ResolveRole(oidcSessions'[k].by, oidcSessions'[k].by)
    BY <2>1, <2>2, <2>3 DEF LoginInv, RolesFit
  <2> QED BY <1>2, <2>4 DEF RolesFit, ResolveRole
<1>12. Undisturbed'
  BY <1>1, <1>2, <1>3 DEF LoginInv, Undisturbed, Installs
<1> QED BY <1>9, <1>10, <1>11, <1>12 DEF LoginInv

LEMMA EndSessionKeeps == ASSUME LoginInv, NEW l \in Logins, EndSession(l) PROVE LoginInv'
<1>1. /\ UNCHANGED <<main, routes, sso, file, loads, unread, reinits, globals, tangled, logins,
                     stateCookie, chatCookie>>
      /\ oidcSessions' = [oidcSessions EXCEPT ![l] = NoSession]
  BY DEF EndSession, policies
<1>2. UNCHANGED <<oidcEnabled, oidcCfg, oidcVerifier, oauth2Config>>
  BY <1>1 DEF globals
<1>3. LoginTyped'
  BY <1>1, <1>2, LoginTypes DEF LoginInv, LoginTyped
<1>4. Numbered' /\ Progress' /\ Untangled'
  BY <1>1, LoadsStay DEF LoginInv
<1>5. Undisturbed'
  BY <1>1, <1>2 DEF LoginInv, Undisturbed, Installs
<1>6. RolesFit'
  BY <1>1, <1>2, LoginTypes DEF LoginInv, LoginTyped, RolesFit, ResolveRole
<1> QED BY <1>3, <1>4, <1>5, <1>6 DEF LoginInv

LEMMA ChatKeeps == ASSUME LoginInv, TokenLogin \/ ChatLogout PROVE LoginInv'
<1>1. /\ UNCHANGED <<main, routes, sso, file, loads, unread, reinits, globals, tangled, logins,
                     stateCookie, oidcSessions>>
      /\ chatCookie' \in BOOLEAN
  BY DEF TokenLogin, ChatLogout, IssueUserSession, policies
<1>2. UNCHANGED <<oidcEnabled, oidcCfg, oidcVerifier, oauth2Config>>
  BY <1>1 DEF globals
<1>3. LoginTyped'
  BY <1>1, <1>2 DEF LoginInv, LoginTyped
<1>4. Numbered' /\ Progress' /\ Untangled' /\ Undisturbed' /\ RolesFit'
  BY <1>1, <1>2, LoadsStay, LoginsStay DEF LoginInv, Installs
<1> QED BY <1>3, <1>4 DEF LoginInv

LEMMA LoginApart == ASSUME LoginInv, UNCHANGED loginVars PROVE LoginInv'
<1>1. UNCHANGED <<main, routes, sso, file, loads, unread, reinits, globals, oidcEnabled, oidcCfg,
                  oidcVerifier, oauth2Config, tangled, logins, stateCookie, oidcSessions, chatCookie>>
  BY DEF loginVars, globals
<1>2. LoginTyped'
  BY <1>1 DEF LoginInv, LoginTyped
<1>3. Numbered' /\ Progress' /\ Untangled' /\ Undisturbed' /\ RolesFit'
  BY <1>1, LoadsStay, LoginsStay DEF LoginInv, Installs
<1> QED BY <1>2, <1>3 DEF LoginInv

(* Nothing under way, and the settings those of the environment.            *)
LEMMA FreshStart ==
  ASSUME loads = 0, reinits = [n \in Loads |-> NoReinit],
         oidcCfg = oidcVerifier, oidcVerifier = oauth2Config,
         logins = [l \in Logins |-> NoLogin], oidcSessions = [l \in Logins |-> NoSession]
  PROVE  Numbered /\ Progress /\ Untangled /\ Undisturbed /\ RolesFit
<1>1. /\ \A n \in Loads : reinits[n].pc = "none" /\ n > loads
      /\ \A l \in Logins : logins[l].pc = "none" /\ oidcSessions[l].role = "none"
  BY LoginTypes, UserLoginAssumption DEF Loads
<1> QED BY <1>1 DEF Numbered, Progress, Untangled, Undisturbed, RolesFit, Runs, Installs

LEMMA LoginInit == ASSUME NEW env \in Envs, InitUserLogin(env) PROVE LoginInv
<1>1. env \in Providers
  BY UserLoginAssumption DEF Providers
<1>2. file \in SSOPolicy
  BY UserLoginAssumption DEF InitUserLogin, SSOPolicy, Providers
<1>3. LoginTyped
  <2>1. /\ main \in {"load", "routes", "serve"} /\ routes \in BOOLEAN /\ unread \in BOOLEAN
        /\ oidcEnabled \in BOOLEAN /\ tangled \in BOOLEAN /\ chatCookie \in BOOLEAN
        /\ sso \in SSOPolicy
        /\ oidcCfg \in Providers /\ oidcVerifier \in Providers /\ oauth2Config \in Providers
    BY <1>1, LoginTypes DEF InitUserLogin
  <2>2. loads \in 0 .. MaxLoads /\ stateCookie \in 0 .. MaxLogins
    BY UserLoginAssumption DEF InitUserLogin
  <2>3. /\ reinits = [n \in Loads |-> NoReinit] /\ logins = [l \in Logins |-> NoLogin]
        /\ oidcSessions = [l \in Logins |-> NoSession]
    BY DEF InitUserLogin
  <2>4. /\ reinits \in [Loads -> LoadRecord] /\ logins \in [Logins -> LoginRecord]
        /\ oidcSessions \in [Logins -> SessionRecord]
    BY <2>3, LoginTypes
  <2> QED BY <1>2, <2>1, <2>2, <2>4 DEF LoginTyped
<1>4. Numbered /\ Progress /\ Untangled /\ Undisturbed /\ RolesFit
  BY FreshStart DEF InitUserLogin
<1> QED BY <1>3, <1>4 DEF LoginInv

LEMMA RestartLoginKeeps == ASSUME LoginInv, NEW env \in Envs, RestartLogin(env) PROVE LoginInv'
<1>1. env \in Providers
  BY UserLoginAssumption DEF Providers
<1>2. /\ main' = "load" /\ routes' = FALSE /\ sso' = NoReinit.policy /\ file' = file
      /\ loads' = 0 /\ unread' = TRUE /\ reinits' = [n \in Loads |-> NoReinit]
      /\ oidcEnabled' \in BOOLEAN /\ oidcCfg' = env /\ oidcVerifier' = env /\ oauth2Config' = env
      /\ tangled' = FALSE /\ logins' = [l \in Logins |-> NoLogin] /\ stateCookie' = 0
      /\ oidcSessions' = [l \in Logins |-> NoSession] /\ chatCookie' \in BOOLEAN
  BY DEF RestartLogin, Started, LoginInv, LoginTyped
<1>3. LoginTyped'
  <2>1. /\ reinits' \in [Loads -> LoadRecord] /\ logins' \in [Logins -> LoginRecord]
        /\ oidcSessions' \in [Logins -> SessionRecord]
    BY <1>2, LoginTypes
  <2>2. loads' \in 0 .. MaxLoads /\ stateCookie' \in 0 .. MaxLogins
    BY <1>2, UserLoginAssumption
  <2>3. file \in SSOPolicy
    BY DEF LoginInv, LoginTyped
  <2> QED BY <1>1, <1>2, <2>1, <2>2, <2>3, LoginTypes DEF LoginTyped
<1>4. /\ \A n \in Loads : reinits'[n].pc = "none" /\ n > loads'
      /\ \A l \in Logins : logins'[l].pc = "none" /\ oidcSessions'[l].role = "none"
  BY <1>2, LoginTypes, UserLoginAssumption DEF Loads
<1>5. (Numbered /\ Progress /\ Untangled /\ Undisturbed /\ RolesFit)'
  BY <1>2, <1>4 DEF Numbered, Progress, Untangled, Undisturbed, RolesFit, Runs, Installs
<1> QED BY <1>3, <1>5 DEF LoginInv

-----------------------------------------------------------------------------
(* Requests, and the sessions they leave *)

LEMMA WorkCounts ==
  ASSUME DoorInv, Begun \/ work' = work
  PROVE  work' \in 0 .. MaxWork
BY FrontDoorAssumption DEF DoorInv, DoorTyped, Begun

(* No object that was made gets killed otherwise than by its worker.        *)
LEMMA OnlyLateStays ==
  ASSUME DoorInv, UNCHANGED <<sessions, requests, late, made>>,
         work' \in 0 .. MaxWork,
         \A k \in 1 .. made : Killed(k)' => Killed(k)
  PROVE  DoorInv'
<1>1. DoorTyped'
  BY DEF DoorInv, DoorTyped
<1>2. Held'
  BY DEF DoorInv, Held
<1>3. OnlyLate'
  BY DEF DoorInv, OnlyLate
<1> QED BY <1>1, <1>2, <1>3 DEF DoorInv

LEMMA KilledStays ==
  ASSUME NEW k, tenantRegistry' = tenantRegistry, met \subseteq met', tenants'[k].id = tenants[k].id,
         \A w \in Workers : workers[w].pc = "kill" => workers'[w] = workers[w]
  PROVE  Killed(k)' => Killed(k)
BY DEF Killed

LEMMA DoorApart ==
  ASSUME DoorInv, UNCHANGED tenantsVars, UNCHANGED <<requests, late>>, work' \in 0 .. MaxWork
  PROVE  DoorInv'
<1>1. UNCHANGED <<tenantRegistry, tenants, made, sessions, workers, met>>
  BY DEF tenantsVars
<1>2. \A k \in 1 .. made : Killed(k)' => Killed(k)
  BY <1>1, KilledStays
<1> QED BY <1>1, <1>2, OnlyLateStays

(* What a request holds next it finds in the registry, or nothing.          *)
Found == [pc : {"idle", "gate", "index", "entry"}, token : Tokens \cup {None},
          id : TenantIDs \cup {None}, obj : {Default} \cup {tenantRegistry[i] : i \in TenantIDs}]

LEMMA RequestGoesOn ==
  ASSUME TenantsInv, DoorInv, NEW c \in Clients, UNCHANGED tenantsVars, late' = late,
         work' \in 0 .. MaxWork,
         NEW r \in Found, requests' = [requests EXCEPT ![c] = r]
  PROVE  DoorInv'
<1>1. UNCHANGED <<tenantRegistry, tenants, made, sessions, workers, met>>
  BY DEF tenantsVars
<1>2. /\ made \in 0 .. MaxTenants /\ made \in Nat /\ MaxTenants \in Nat
      /\ \A id \in TenantIDs : tenantRegistry[id] # Default =>
           tenantRegistry[id] \in 1 .. made /\ tenants[tenantRegistry[id]].id = id
  BY TenantsAssumption DEF TenantsInv, TenantsTyped, Employed
<1>3. /\ r.obj \in 0 .. MaxTenants /\ r.obj <= made
      /\ r \in [pc : {"idle", "gate", "index", "entry"}, token : Tokens \cup {None},
               id : TenantIDs \cup {None}, obj : 0 .. MaxTenants]
      /\ r.obj # Default => \E i \in TenantIDs : r.obj = tenantRegistry[i]
  BY <1>2 DEF Default, Found
<1>4. /\ requests'[c] = r
      /\ \A b \in Clients : b # c => requests'[b] = requests[b]
  BY DEF DoorInv, DoorTyped
<1>5. DoorTyped'
  BY <1>1, <1>3 DEF DoorInv, DoorTyped
<1>6. Held'
  BY <1>1, <1>3, <1>4 DEF DoorInv, Held
<1>7. OnlyLate'
  <2>1. \A k \in 1 .. made : Killed(k) => r.obj # k
    BY <1>2, <1>3 DEF Killed, Default
  <2> QED BY <1>1, <1>4, <2>1 DEF DoorInv, OnlyLate, Killed
<1> QED BY <1>5, <1>6, <1>7 DEF DoorInv

LEMMA ArriveKeeps ==
  ASSUME TenantsInv, DoorInv, NEW c \in Clients, NEW id \in TenantIDs \cup {None},
         NEW t \in Tokens \cup {None}, Arrive(c, id, t)
  PROVE  DoorInv'
<1>1. UNCHANGED tenantsVars /\ late' = late /\ work' \in 0 .. MaxWork
  BY WorkCounts DEF Arrive
<1>2. CASE requests' = [requests EXCEPT ![c] = [NoRequest EXCEPT !.pc = "gate"]]
  <2>1. [NoRequest EXCEPT !.pc = "gate"] \in Found
    BY DEF NoRequest, Found
  <2> QED BY <1>1, <1>2, <2>1, RequestGoesOn
<1>3. CASE /\ ByHeader(id) # Default
           /\ requests' = [requests EXCEPT ![c] = [NoRequest EXCEPT !.pc = "gate", !.obj = ByHeader(id)]]
  <2>1. id \in TenantIDs /\ ByHeader(id) = tenantRegistry[id]
    BY <1>3 DEF ByHeader
  <2>2. [NoRequest EXCEPT !.pc = "gate", !.obj = ByHeader(id)] \in Found
    BY <2>1 DEF NoRequest, Found
  <2> QED BY <1>1, <1>3, <2>2, RequestGoesOn
<1>4. CASE requests' = [requests EXCEPT ![c] = [NoRequest EXCEPT !.pc = "index", !.token = t]]
  <2>1. [NoRequest EXCEPT !.pc = "index", !.token = t] \in Found
    BY DEF NoRequest, Found
  <2> QED BY <1>1, <1>4, <2>1, RequestGoesOn
<1> QED BY <1>2, <1>3, <1>4 DEF Arrive

LEMMA LookIndexKeeps ==
  ASSUME TenantsInv, DoorInv, NEW c \in Clients, LookIndex(c) PROVE DoorInv'
<1> DEFINE id == ByIndex(requests[c].token)
<1>1. UNCHANGED tenantsVars /\ late' = late /\ work' \in 0 .. MaxWork
  BY WorkCounts DEF LookIndex
<1>2. id \in TenantIDs \cup {None}
  BY DEF ByIndex, TenantsInv, TenantsTyped, DoorInv, DoorTyped
<1>3. \/ requests' = [requests EXCEPT ![c] = [NoRequest EXCEPT !.pc = "gate"]]
      \/ requests' = [requests EXCEPT ![c] = [NoRequest EXCEPT !.pc = "entry", !.id = id]]
  BY DEF LookIndex
<1> HIDE DEF id
<1>4. /\ [NoRequest EXCEPT !.pc = "gate"] \in Found
      /\ [NoRequest EXCEPT !.pc = "entry", !.id = id] \in Found
  BY <1>2 DEF NoRequest, Found
<1> QED BY <1>1, <1>3, <1>4, RequestGoesOn

LEMMA LookEntryKeeps ==
  ASSUME TenantsInv, DoorInv, NEW c \in Clients, LookEntry(c) PROVE DoorInv'
<1> DEFINE obj == ByHeader(requests[c].id)
<1>1. UNCHANGED tenantsVars /\ late' = late /\ work' \in 0 .. MaxWork
  BY WorkCounts DEF LookEntry
<1>2. obj = Default \/ \E i \in TenantIDs : obj = tenantRegistry[i]
  BY DEF ByHeader, DoorInv, DoorTyped
<1>3. requests' = [requests EXCEPT ![c] = [NoRequest EXCEPT !.pc = "gate", !.obj = obj]]
  BY DEF LookEntry
<1> HIDE DEF obj
<1>4. [NoRequest EXCEPT !.pc = "gate", !.obj = obj] \in Found
  BY <1>2 DEF NoRequest, Found
<1> QED BY <1>1, <1>3, <1>4, RequestGoesOn

(* Who leaves a session with an object that was killed is late.             *)
LEMMA GateKeeps ==
  ASSUME TenantsInv, DoorInv, NEW c \in Clients, Gate(c) PROVE DoorInv'
<1>1. /\ UNCHANGED <<tenantRegistry, tenants, made, workers, met, late>> /\ work' \in 0 .. MaxWork
      /\ requests' = [requests EXCEPT ![c] = NoRequest]
  BY WorkCounts DEF Gate, memory
<1>2. PICK obj \in 0 .. MaxTenants : obj = requests[c].obj /\ obj <= made
  BY DEF DoorInv, DoorTyped, Held
<1>3. obj \in Objects \cup {Default}
  BY <1>2, TenantsAssumption DEF Objects, Default
<1>4. /\ sessions' \in [Objects \cup {Default} -> SUBSET Clients]
      /\ \A k \in Objects \cup {Default} :
           sessions'[k] = sessions[k] \/ (k = obj /\ sessions'[k] = sessions[k] \cup {c})
  <2>1. sessions \in [Objects \cup {Default} -> SUBSET Clients]
    BY DEF DoorInv, DoorTyped
  <2>2. sessions' = sessions \/ sessions' = [sessions EXCEPT ![obj] = sessions[obj] \cup {c}]
    BY <1>2 DEF Gate, StoreUserSessionScopes
  <2> QED BY <1>3, <2>1, <2>2
<1>5. /\ NoRequest \in [pc : {"idle", "gate", "index", "entry"}, token : Tokens \cup {None},
                        id : TenantIDs \cup {None}, obj : 0 .. MaxTenants]
      /\ NoRequest.obj = 0
  BY TenantsAssumption DEF NoRequest, Default
<1>6. \A b \in Clients : requests'[b] = requests[b] \/ requests'[b].obj = 0
  BY <1>1, <1>5 DEF DoorInv, DoorTyped
<1>7. DoorTyped'
  BY <1>1, <1>4, <1>5 DEF DoorInv, DoorTyped
<1>8. made \in Nat /\ 1 .. made \subseteq Objects
  BY TenantsAssumption DEF TenantsInv, TenantsTyped, Objects
<1>9. Held'
  <2>1. \A b \in Clients : requests'[b].obj <= made
    BY <1>6, <1>8 DEF DoorInv, Held
  <2>2. \A k \in Objects : k > made => sessions'[k] = {}
    BY <1>2, <1>4, <1>8, TenantsAssumption DEF DoorInv, Held, Objects
  <2> QED BY <1>1, <2>1, <2>2 DEF Held
<1>10. OnlyLate'
  <2> SUFFICES ASSUME NEW k \in 1 .. made, Killed(k)
               PROVE  /\ sessions'[k] \subseteq late[k]
                      /\ \A b \in Clients : requests'[b].obj = k => b \in late[k]
    BY <1>1 DEF OnlyLate, Killed
  <2>1. /\ sessions[k] \subseteq late[k]
        /\ \A b \in Clients : requests[b].obj = k => b \in late[k]
    BY DEF DoorInv, OnlyLate
  <2>2. sessions'[k] = sessions[k] \/ (k = obj /\ sessions'[k] = sessions[k] \cup {c})
    BY <1>4, <1>8
  <2> QED BY <1>2, <1>6, <1>8, <2>1, <2>2
<1> QED BY <1>7, <1>9, <1>10 DEF DoorInv

-----------------------------------------------------------------------------
(* The workers, seen from the requests *)

LEMMA OthersStay ==
  ASSUME TenantsTyped, NEW w \in Workers, Begin(w) \/ Continue(w) \/ Kill(w)
  PROVE  \A v \in Workers : v # w => workers'[v] = workers[v]
BY DEF TenantsTyped, Begin, Check, Unregister, Look, Continue, Mkdir, WriteMeta, Seed, Read, Register,
       Activate, Kill, Remove, Apply, Write, Go, Answered

LEMMA BeginDoor ==
  ASSUME TenantsInv, DoorInv, NEW w \in Workers, Begin(w), UNCHANGED <<requests, late>>,
         work' \in 0 .. MaxWork
  PROVE  DoorInv'
<1>1. \A v \in Workers : workers[v].pc = "kill" => workers'[v] = workers[v]
  <2>1. workers[w].pc = "idle"
    BY DEF Begin, Check, Unregister, Look
  <2> QED BY <2>1, OthersStay DEF TenantsInv
<1>2. PICK id \in TenantIDs : (\E t \in Tokens : Check(w, id, t)) \/ Unregister(w, id)
                              \/ (\E text \in Texts : Look(w, id, text))
  BY DEF Begin
<1>3. CASE (\E t \in Tokens : Check(w, id, t)) \/ (\E text \in Texts : Look(w, id, text))
  <2>1. /\ UNCHANGED <<tenantRegistry, tenants, made, sessions>> /\ met \subseteq met'
    BY <1>3 DEF Check, Look, memory
  <2>2. \A k \in 1 .. made : Killed(k)' => Killed(k)
    BY <1>1, <2>1, KilledStays
  <2> QED BY <2>1, <2>2, OnlyLateStays
<1>4. CASE Unregister(w, id)
  <2>1. /\ UNCHANGED <<tenants, made, sessions>> /\ met \subseteq met'
        /\ tenantRegistry' = [tenantRegistry EXCEPT ![id] = Default]
        /\ workers' = [workers EXCEPT ![w] = [NoWork EXCEPT !.pc = "kill", !.id = id, !.obj = tenantRegistry[id]]]
    BY <1>4 DEF Unregister
  <2>2. workers'[w].pc = "kill" /\ workers'[w].obj = tenantRegistry[id]
    <3>1. /\ [NoWork EXCEPT !.pc = "kill", !.id = id, !.obj = tenantRegistry[id]].pc = "kill"
          /\ [NoWork EXCEPT !.pc = "kill", !.id = id, !.obj = tenantRegistry[id]].obj = tenantRegistry[id]
      BY DEF NoWork
    <3> QED BY <2>1, <3>1 DEF TenantsInv, TenantsTyped
  <2>3. ASSUME NEW k \in 1 .. made, Killed(k)' PROVE Killed(k)
    <3>1. tenants[k].id \in TenantIDs
      BY DEF TenantsInv, Employed
    <3>2. k # tenantRegistry[id]
      BY <2>2, <2>3 DEF Killed
    <3>3. tenantRegistry[tenants[k].id] # k
      BY <2>1, <2>3, <3>1, <3>2 DEF Killed, TenantsInv, TenantsTyped
    <3> QED BY <1>1, <2>1, <2>3, <3>3 DEF Killed
  <2> QED BY <2>1, <2>3, OnlyLateStays
<1> QED BY <1>2, <1>3, <1>4

LEMMA RegisterDoor ==
  ASSUME TenantsInv, TenantsInv', DoorInv, NEW w \in Workers, Register(w),
         UNCHANGED <<requests, late, work>>
  PROVE  DoorInv'
<1>1. /\ workers[w].pc = "register" /\ workers[w].id \in TenantIDs
      /\ made \in Nat /\ made' = made + 1 /\ made' \in Objects
      /\ UNCHANGED <<sessions, met>>
  <2>1. made' \in 0 .. MaxTenants /\ made \in Nat
    BY DEF TenantsInv, TenantsTyped
  <2> QED BY <2>1, AtWork, TenantsAssumption DEF Register, Objects
<1>2. PICK k \in Objects : k = made'
  BY <1>1
<1>3. PICK id \in TenantIDs : id = workers[w].id
  BY <1>1
<1>4. /\ tenantRegistry' = [tenantRegistry EXCEPT ![id] = k]
      /\ tenants'[k].id = id
      /\ \A j \in 1 .. made : tenants'[j] = tenants[j]
  <2>1. /\ tenantRegistry' = [tenantRegistry EXCEPT ![id] = k]
        /\ tenants' = [tenants EXCEPT ![k] = [id |-> id, token |-> workers[w].token, policy |-> workers[w].text]]
    BY <1>2, <1>3 DEF Register
  <2> QED BY <1>1, <1>2, <2>1 DEF TenantsInv, TenantsTyped, Objects
<1>5. DoorTyped'
  BY <1>1 DEF DoorInv, DoorTyped
<1>6. Held'
  BY <1>1, TenantsAssumption DEF DoorInv, Held, DoorTyped, Objects
<1>7. OnlyLate'
  <2> SUFFICES ASSUME NEW j \in 1 .. made', Killed(j)'
               PROVE  /\ sessions[j] \subseteq late[j]
                      /\ \A c \in Clients : requests[c].obj = j => c \in late[j]
    BY <1>1 DEF OnlyLate
  <2>1. j # k
    BY <1>4 DEF Killed, TenantsInv, TenantsTyped
  <2>2. j \in 1 .. made
    BY <1>1, <1>2, <2>1
  <2>3. Killed(j)
    <3>1. tenants[j].id \notin met /\ tenants[j].id \in TenantIDs
      BY <1>1, <1>4, <2>2 DEF Killed, TenantsInv, Employed
    <3>2. tenantRegistry[tenants[j].id] # j
      <4>1. CASE tenants[j].id = id
        <5>1. tenantRegistry[id] = Default
          BY <1>1, <1>3, <3>1, <4>1 DEF TenantsInv, NameInv, Turns, Creates, Unregistered
        <5> QED BY <4>1, <5>1 DEF Default
      <4>2. CASE tenants[j].id # id
        BY <1>4, <2>2, <3>1, <4>2 DEF Killed, TenantsInv, TenantsTyped
      <4> QED BY <4>1, <4>2
    <3>3. \A v \in Workers : workers[v].pc = "kill" => workers[v].obj # j
      BY <1>1, OthersStay DEF Killed, TenantsInv, Continue
    <3> QED BY <3>1, <3>2, <3>3 DEF Killed
  <2> QED BY <2>2, <2>3 DEF DoorInv, OnlyLate
<1> QED BY <1>5, <1>6, <1>7 DEF DoorInv

LEMMA ContinueDoor ==
  ASSUME TenantsInv, TenantsInv', DoorInv, NEW w \in Workers, Continue(w),
         UNCHANGED <<requests, late, work>>
  PROVE  DoorInv'
<1>1. CASE Register(w)
  BY <1>1, RegisterDoor
<1>2. CASE ~Register(w)
  <2>1. workers[w].pc # "kill"
    BY <1>2 DEF Continue, Mkdir, WriteMeta, Seed, Read, Activate, Remove, Apply, Write
  <2>2. UNCHANGED <<tenantRegistry, made, met, sessions>>
    BY <1>2 DEF Continue, Mkdir, WriteMeta, Seed, Read, Activate, Remove, Apply, Write, memory
  <2>3. \A k \in 1 .. made : tenants'[k].id = tenants[k].id
    <3>1. 1 .. made \subseteq Objects
      BY TenantsAssumption DEF TenantsInv, TenantsTyped, Objects
    <3>2. CASE Apply(w)
      BY <3>1, <3>2 DEF Apply, TenantsInv, TenantsTyped, Tenant
    <3>3. CASE ~Apply(w)
      BY <1>2, <3>3 DEF Continue, Mkdir, WriteMeta, Seed, Read, Activate, Remove, Write, memory
    <3> QED BY <3>2, <3>3
  <2>4. \A v \in Workers : workers[v].pc = "kill" => workers'[v] = workers[v]
    BY <2>1, OthersStay DEF TenantsInv
  <2>5. \A k \in 1 .. made : Killed(k)' => Killed(k)
    BY <2>2, <2>3, <2>4, KilledStays
  <2>6. work' \in 0 .. MaxWork
    BY WorkCounts
  <2> QED BY <2>2, <2>5, <2>6, OnlyLateStays
<1> QED BY <1>1, <1>2

(* Who holds the object when it is killed is late, nobody else gets it.     *)
LEMMA KillDoor ==
  ASSUME TenantsInv, DoorInv, NEW w \in Workers, KillTenant(w)
  PROVE  DoorInv'
<1>1. /\ UNCHANGED <<tenantRegistry, tenants, made, met, requests, work>>
      /\ workers[w].pc = "kill"
  BY DEF KillTenant, Kill, memory
<1>2. PICK k \in Objects : k = workers[w].obj
  BY <1>1, TenantsAssumption DEF TenantsInv, TenantsTyped, Employed, Objects
<1>3. /\ sessions' = [sessions EXCEPT ![k] = {}]
      /\ late' = [late EXCEPT ![k] = {c \in Clients : requests[c].obj = k}]
  BY <1>2 DEF KillTenant, Kill
<1>4. /\ sessions'[k] = {} /\ late'[k] = {c \in Clients : requests[c].obj = k}
      /\ \A j \in Objects : j # k => sessions'[j] = sessions[j] /\ late'[j] = late[j]
  BY <1>3 DEF DoorInv, DoorTyped
<1>5. DoorTyped'
  BY <1>1, <1>3 DEF DoorInv, DoorTyped
<1>6. Held'
  BY <1>1, <1>4 DEF DoorInv, Held
<1>7. OnlyLate'
  <2> SUFFICES ASSUME NEW j \in 1 .. made, Killed(j)', j # k
               PROVE  /\ sessions[j] \subseteq late[j]
                      /\ \A c \in Clients : requests[c].obj = j => c \in late[j]
    <3>1. 1 .. made \subseteq Objects
      BY TenantsAssumption DEF TenantsInv, TenantsTyped, Objects
    <3> QED BY <1>1, <1>4, <3>1 DEF OnlyLate
  <2>1. Killed(j)
    BY <1>1, <1>2, OthersStay DEF Killed, KillTenant, TenantsInv
  <2> QED BY <2>1 DEF DoorInv, OnlyLate
<1> QED BY <1>5, <1>6, <1>7 DEF DoorInv

LEMMA RestartDoor ==
  ASSUME TenantsInv', Restart, DoorInv PROVE DoorInv'
<1>1. /\ sessions' = [k \in Objects \cup {Default} |-> {}]
      /\ requests' = [c \in Clients |-> NoRequest] /\ late' = [k \in Objects |-> {}]
  BY DEF Restart, RestartTenants, LoadAll
<1>2. /\ NoRequest \in [pc : {"idle", "gate", "index", "entry"}, token : Tokens \cup {None},
                        id : TenantIDs \cup {None}, obj : 0 .. MaxTenants]
      /\ NoRequest.obj = 0
  BY TenantsAssumption DEF NoRequest, Default
<1>3. DoorTyped'
  <2>1. work' \in 0 .. MaxWork
    BY WorkCounts DEF Restart
  <2> QED BY <1>1, <1>2, <2>1 DEF DoorTyped
<1>4. made' \in Nat /\ 1 .. made' \subseteq Objects
  BY TenantsAssumption DEF TenantsInv, TenantsTyped, Objects
<1>5. Held'
  BY <1>1, <1>2, <1>4 DEF Held
<1>6. OnlyLate'
  BY <1>1, <1>2, <1>4 DEF OnlyLate
<1> QED BY <1>3, <1>5, <1>6 DEF DoorInv

-----------------------------------------------------------------------------
(* All of it is an invariant *)

LEMMA DoorInit == Init => FrontDoorInv
<1> SUFFICES ASSUME Init PROVE FrontDoorInv
  OBVIOUS
<1>1. TenantsInv /\ LoginInv
  BY TenantsInit, LoginInit DEF Init
<1>2. /\ sessions = [k \in Objects \cup {Default} |-> {}] /\ made = 0
      /\ requests = [c \in Clients |-> NoRequest] /\ late = [k \in Objects |-> {}] /\ work = 0
  BY DEF Init, InitTenants
<1>3. /\ NoRequest \in [pc : {"idle", "gate", "index", "entry"}, token : Tokens \cup {None},
                        id : TenantIDs \cup {None}, obj : 0 .. MaxTenants]
      /\ NoRequest.obj = 0
  BY TenantsAssumption DEF NoRequest, Default
<1>4. DoorTyped
  BY <1>2, <1>3, FrontDoorAssumption DEF DoorTyped
<1>5. Held /\ OnlyLate
  BY <1>2, <1>3 DEF Held, OnlyLate
<1> QED BY <1>1, <1>4, <1>5 DEF FrontDoorInv, DoorInv

LEMMA WorkKeeps == ASSUME FrontDoorInv, NEW w \in Workers, Work(w) PROVE FrontDoorInv'
<1>1. TenantsInv /\ LoginInv /\ DoorInv
  BY DEF FrontDoorInv
<1>2. UNCHANGED loginVars
  BY DEF Work, KillTenant
<1>3. CASE Begun /\ Begin(w) /\ UNCHANGED <<requests, late>>
  <2>1. TenantsInv'
    BY <1>1, <1>3, CheckKeeps, UnregisterKeeps, LookKeeps DEF Begin
  <2> QED BY <1>1, <1>2, <1>3, <2>1, LoginApart, BeginDoor, WorkCounts DEF FrontDoorInv
<1>4. CASE Continue(w) /\ UNCHANGED <<requests, late, work>>
  <2>1. TenantsInv'
    BY <1>1, <1>4, MkdirKeeps, WriteMetaKeeps, SeedKeeps, ReadKeeps, RegisterKeeps, ActivateKeeps,
       RemoveKeeps, ApplyKeeps, WriteKeeps DEF Continue
  <2> QED BY <1>1, <1>2, <1>4, <2>1, LoginApart, ContinueDoor DEF FrontDoorInv
<1>5. CASE KillTenant(w)
  BY <1>1, <1>2, <1>5, KillKeeps, LoginApart, KillDoor DEF FrontDoorInv, KillTenant
<1> QED BY <1>3, <1>4, <1>5 DEF Work

LEMMA SignOnKeeps == ASSUME LoginInv, SignOn PROVE LoginInv'
<1>1. CASE LoadSSO \/ RegisterRoutes \/ TokenLogin \/ ChatLogout
  BY <1>1, LoadSSOKeeps, RegisterRoutesKeeps, ChatKeeps
<1>2. CASE \E n \in Loads : Reinit(n)
  BY <1>2, DisableKeeps, DiscoverKeeps, InstallCfgKeeps, InstallVerifierKeeps, InstallOAuth2Keeps
     DEF Reinit
<1>3. CASE \E l \in Logins : Login(l) \/ EndSession(l)
  BY <1>3, CallbackKeeps, ExchangeOrVerifyKeeps, AdmitKeeps, EndSessionKeeps DEF Login
<1> QED BY <1>1, <1>2, <1>3 DEF SignOn

LEMMA DoorKept == FrontDoorInv /\ [Next]_vars => FrontDoorInv'
<1> SUFFICES ASSUME FrontDoorInv, [Next]_vars PROVE FrontDoorInv'
  OBVIOUS
<1>1. TenantsInv /\ LoginInv /\ DoorInv
  BY DEF FrontDoorInv
<1>2. UNCHANGED tenantsVars => UNCHANGED <<memory, dirs, workers, met, crossed, shared, gone>>
  BY DEF tenantsVars, memory
<1>3. ASSUME NEW c \in Clients, Request(c) PROVE FrontDoorInv'
  <2>1. UNCHANGED <<memory, dirs, workers, met, crossed, shared, gone>> /\ UNCHANGED loginVars
    BY <1>2, <1>3 DEF Request, Arrive, LookIndex, LookEntry, Gate
  <2>2. DoorInv'
    BY <1>1, <1>3, ArriveKeeps, LookIndexKeeps, LookEntryKeeps, GateKeeps DEF Request
  <2> QED BY <1>1, <2>1, <2>2, TenantsApart, LoginApart DEF FrontDoorInv
<1>4. ASSUME NEW w \in Workers, Work(w) PROVE FrontDoorInv'
  BY <1>4, WorkKeeps
<1>5. CASE SignOn
  <2>1. UNCHANGED tenantsVars /\ UNCHANGED <<requests, late, work>>
    BY <1>5 DEF SignOn
  <2> QED BY <1>1, <1>2, <1>5, <2>1, TenantsApart, SignOnKeeps, DoorApart, WorkCounts DEF FrontDoorInv
<1>6. ASSUME NEW l \in Logins, Start(l) PROVE FrontDoorInv'
  <2>1. UNCHANGED tenantsVars /\ UNCHANGED <<requests, late>> /\ Begun
    BY <1>6 DEF Start
  <2>2. LoginInv'
    BY <1>1, <1>6, StartLoginKeeps DEF Start
  <2> QED BY <1>1, <1>2, <2>1, <2>2, TenantsApart, DoorApart, WorkCounts DEF FrontDoorInv
<1>7. ASSUME NEW p \in Policies, Save(p) PROVE FrontDoorInv'
  <2>1. UNCHANGED tenantsVars /\ UNCHANGED <<requests, late>> /\ Begun
    BY <1>7 DEF Save
  <2>2. LoginInv'
    BY <1>1, <1>7, SaveSSOKeeps DEF Save
  <2> QED BY <1>1, <1>2, <2>1, <2>2, TenantsApart, DoorApart, WorkCounts DEF FrontDoorInv
<1>8. CASE Restart
  <2>1. TenantsInv'
    BY <1>1, <1>8, RestartKeeps DEF Restart
  <2>2. LoginInv'
    BY <1>1, <1>8, RestartLoginKeeps DEF Restart
  <2> QED BY <1>1, <1>8, <2>1, <2>2, RestartDoor DEF FrontDoorInv
<1>9. CASE UNCHANGED vars
  <2>1. UNCHANGED tenantsVars /\ UNCHANGED loginVars /\ UNCHANGED <<requests, late, work>>
    BY <1>9 DEF vars
  <2> QED BY <1>1, <1>2, <2>1, TenantsApart, LoginApart, DoorApart, WorkCounts DEF FrontDoorInv
<1> QED BY <1>3, <1>4, <1>5, <1>6, <1>7, <1>8, <1>9 DEF Next

(* In every behaviour of the front door - tenants created, deleted, saved   *)
(* and loaded again, single sign-on reloaded under logins, requests on their *)
(* way to a tenant - the three invariants above hold together.              *)
THEOREM FrontDoorInvariance == Spec => []FrontDoorInv
BY DoorInit, DoorKept, PTL DEF Spec

(* What is on the disk tells what is registered (CreateTenant, DeleteTenant, *)
(* SaveTenantPolicy, InitTenants): a tenant at rest has its directory, token *)
(* and policy there, and a deleted one is not there to be loaded again.     *)
THEOREM DiskTellsHolds == Spec => []DiskTells
<1>1. FrontDoorInv => RegisteredIsOnDisk
  <2> SUFFICES ASSUME FrontDoorInv, NEW id \in TenantIDs \ met, tenantRegistry[id] # Default, ~Busy(id)
               PROVE  LET tnt == tenants[tenantRegistry[id]] IN
                      /\ dirs[id].there /\ dirs[id].meta = tnt.token
                      /\ \/ id \in crossed
                         \/ dirs[id].policy = tnt.policy
                         \/ dirs[id].policy = None /\ tnt.policy = Root
    BY DEF RegisteredIsOnDisk
  <2>1. OnDisk(id) /\ SavesFollow(id)
    BY DEF FrontDoorInv, TenantsInv, NameInv
  <2>2. \A w \in Workers : ~Saves(w, id)
    BY DEF Busy, Saving, Saves
  <2> QED BY <2>1, <2>2 DEF OnDisk, SavesFollow
<1>2. FrontDoorInv => DeletedStaysAway
  BY DEF FrontDoorInv, TenantsInv, NameInv, GoneIsGone, DeletedStaysAway, Loadable, TenantsTyped
<1> QED BY <1>1, <1>2, FrontDoorInvariance, PTL DEF DiskTells

(* A token leads to the tenant it was given to, and to no other: the index  *)
(* of tokens agrees with the registry (CreateTenant, DeleteTenant,           *)
(* resolveTenant), for any number of admins at work and of restarts.        *)
THEOREM TokensLeadHolds == Spec => []TokensLead
<1>1. FrontDoorInv => TokensLead
  <2> SUFFICES ASSUME FrontDoorInv, NEW t \in Tokens \ shared
               PROVE  /\ \A id \in TenantIDs \ met :
                           /\ tenantRegistry[id] # Default
                           /\ tenants[tenantRegistry[id]].token = t /\ Creating(id) = {}
                           => multiTenancyActive /\ tenantTokenIndex[t] = id
                      /\ tenantTokenIndex[t] \notin met \cup {None} =>
                           LET k == tenantRegistry[tenantTokenIndex[t]] IN
                           k # Default /\ tenants[k].token = t
    BY DEF TokensLead
  <2>1. Indexed(t)
    BY DEF FrontDoorInv, TenantsInv
  <2>2. \A id \in TenantIDs : Creating(id) = {} => \A w \in Workers : ~Creates(w, id)
    BY DEF Creating, Creates, Unregistered
  <2> QED BY <2>1, <2>2 DEF Indexed, HasToken
<1> QED BY <1>1, FrontDoorInvariance, PTL

(* A session opened by a login that met no reload has the role that one     *)
(* configuration, the one in force, gives (resolveRole, HandleOIDCCallback). *)
THEOREM RoleAsConfiguredHolds == Spec => []RoleAsConfigured
<1>1. FrontDoorInv => RoleAsConfigured
  BY DEF FrontDoorInv, LoginInv, RolesFit, RoleAsConfigured, SessionRole
<1> QED BY <1>1, FrontDoorInvariance, PTL

(* Reloads that did not run into each other leave single sign-on as the last *)
(* policy read wants it, all of it (ReinitOIDCFromPolicy).                  *)
THEOREM SettlesOnPolicyHolds == Spec => []SettlesOnPolicy
<1>1. FrontDoorInv => SettlesOnPolicy
  <2> SUFFICES ASSUME FrontDoorInv, loads > 0, InFlight = {}, reinits[loads].alone, reinits[loads].ok
               PROVE  LET p == reinits[loads].policy IN
                      /\ oidcEnabled = p.on
                      /\ p.on => oidcCfg = p.config /\ oidcVerifier = p.config /\ oauth2Config = p.config
    BY DEF SettlesOnPolicy
  <2>1. LoginTyped /\ Numbered /\ Progress
    BY DEF FrontDoorInv, LoginInv
  <2>2. loads \in Loads
    BY <2>1 DEF LoginTyped, Loads
  <2>3. reinits[loads].pc = "done"
    <3>1. reinits[loads].pc # "none"
      BY <2>1, <2>2 DEF Numbered, LoginTyped
    <3> QED BY <2>2, <3>1 DEF InFlight
  <2> QED BY <2>1, <2>3 DEF Progress
<1> QED BY <1>1, FrontDoorInvariance, PTL

(* Killing a tenant's sessions leaves none behind but of requests that were *)
(* on their way to its object at the kill (killAllWS, resolveTenant).       *)
THEOREM ResidueHolds == Spec => []ResidueOnlyIfInFlight
<1>1. FrontDoorInv => ResidueOnlyIfInFlight
  BY DEF FrontDoorInv, DoorInv, OnlyLate, Killed, ResidueOnlyIfInFlight
<1> QED BY <1>1, FrontDoorInvariance, PTL
=============================================================================
