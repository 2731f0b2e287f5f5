------------------------------- MODULE Gateway -------------------------------
(***************************************************************************)
(* The readiness gate and the circuit breaker of the LLM scanner: requests *)
(* enter only while a probe, cached for a while, found the scanner ready;  *)
(* messages ask the scanner unless its breaker is open, and pass unscanned *)
(* when it is or when the scanner does not answer in time (handleRoot,     *)
(* scanWithLLM and warmupLLMScanner of proxy/main.go, scannercheck.go).    *)
(*                                                                         *)
(* Timers count down the ticks that are left; what the code does between   *)
(* two waits takes no time, a probe less than a tick.                      *)
(***************************************************************************)
EXTENDS Naturals

CONSTANTS
  Handlers,        \* goroutines of clients
  TTL,             \* ticks a probe is cached
  Timeout,         \* ticks a message waits for the scanner
  Backoff          \* ticks the breaker stays open

ASSUME GatewayAssumption ==
  /\ TTL \in Nat \ {0} /\ Timeout \in Nat \ {0} /\ Backoff \in Nat \ {0}
  /\ "nobody" \notin Handlers

VARIABLES
  service,         \* the scanner, and for how long it has been so
  circuit,         \* ticks until the breaker closes
  cache,           \* the last probe's verdict and the ticks it stays
  probe,           \* who probes, holding the mutex, and what was seen
  handlers,        \* clients' requests and connections
  warmUp           \* the first inference at startup

gatewayVars == <<service, circuit, cache, probe, handlers, warmUp>>

Long == Timeout + Backoff + TTL      \* bound of the service's clock
NoProbe == [by |-> "nobody", up |-> FALSE]
Ready(up) == up /\ circuit = 0

-----------------------------------------------------------------------------
InitGateway ==
  /\ service \in [is : {"up", "slow", "down"}, for : {0}]
  /\ circuit = 0 /\ cache = [ready |-> FALSE, left |-> 0] /\ probe = NoProbe
  /\ handlers = [h \in Handlers |-> [pc |-> "idle", ws |-> FALSE, left |-> 0, cut |-> FALSE]]
  /\ warmUp = "asking"

(* The scanner comes, goes or gets slow: it answers probes but not in time. *)
(* Calls that wait may then fail, also when it comes back before they end.  *)
ServiceChanges ==
  /\ \E is \in {"up", "slow", "down"} \ {service.is} :
       /\ service' = [is |-> is, for |-> 0]
       /\ handlers' = [h \in Handlers |->
            [handlers[h] EXCEPT !.cut = @ \/ (handlers[h].pc = "asked" /\ is # "up")]]
  /\ UNCHANGED <<circuit, cache, probe, warmUp>>

NewRequest(h) ==
  /\ handlers[h].pc = "idle" /\ ~handlers[h].ws
  /\ handlers' = [handlers EXCEPT ![h].pc = "gate"]
  /\ UNCHANGED <<service, circuit, cache, probe, warmUp>>

(* Messages of a connection do not go through the gate again.               *)
Message(h) ==
  /\ handlers[h].pc = "idle" /\ handlers[h].ws
  /\ handlers' = [handlers EXCEPT ![h].pc = "check"]
  /\ UNCHANGED <<service, circuit, cache, probe, warmUp>>

Hangup(h) ==
  /\ handlers[h].pc = "idle" /\ handlers[h].ws
  /\ handlers' = [handlers EXCEPT ![h].ws = FALSE]
  /\ UNCHANGED <<service, circuit, cache, probe, warmUp>>

(* A chat is refused, or scanned, or upgraded to a connection.              *)
Answer(h, ready) ==
  IF ~ready THEN handlers' = [handlers EXCEPT ![h].pc = "idle"]
  ELSE \/ handlers' = [handlers EXCEPT ![h].pc = "check"]
       \/ handlers' = [handlers EXCEPT ![h].pc = "idle", ![h].ws = TRUE]

-----------------------------------------------------------------------------
(* The gate: getCachedScannerStatus under its mutex *)

(* Changed: a verdict of readiness is kept until a probe is asked for.      *)
FreshOrReady == cache.left > 0 \/ cache.ready

Fresh == cache.left > 0

GateCached(h) ==
  /\ handlers[h].pc = "gate" /\ probe = NoProbe /\ Fresh
  /\ Answer(h, cache.ready)
  /\ UNCHANGED <<service, circuit, cache, probe, warmUp>>

Probe(h) ==
  /\ handlers[h].pc = "gate" /\ probe = NoProbe /\ ~Fresh
  /\ probe' = [by |-> h, up |-> service.is # "down"]
  /\ UNCHANGED <<service, circuit, cache, handlers, warmUp>>

ProbeEnds(h) ==
  /\ probe.by = h
  /\ cache' = [ready |-> Ready(probe.up), left |-> TTL]
  /\ Answer(h, Ready(probe.up))
  /\ probe' = NoProbe
  /\ UNCHANGED <<service, circuit, warmUp>>

-----------------------------------------------------------------------------
(* The breaker: scanWithLLM *)

(* With the breaker open the message passes at once.                        *)
CheckOpen(h) ==
  /\ handlers[h].pc = "check" /\ circuit > 0
  /\ handlers' = [handlers EXCEPT ![h].pc = "idle"]
  /\ UNCHANGED <<service, circuit, cache, probe, warmUp>>

CheckClosed(h) ==
  /\ handlers[h].pc = "check" /\ circuit = 0
  /\ handlers' = [handlers EXCEPT ![h].pc = "asked", ![h].left = Timeout,
                                  ![h].cut = service.is # "up"]
  /\ UNCHANGED <<service, circuit, cache, probe, warmUp>>

Answers(h) ==
  /\ handlers[h].pc = "asked" /\ service.is = "up"
  /\ handlers' = [handlers EXCEPT ![h].pc = "reset"]
  /\ UNCHANGED <<service, circuit, cache, probe, warmUp>>

Reset(h) ==
  /\ handlers[h].pc = "reset"
  /\ circuit' = 0
  /\ handlers' = [handlers EXCEPT ![h].pc = "idle"]
  /\ UNCHANGED <<service, cache, probe, warmUp>>

(* Changed: an answer that cannot be parsed counts as a failure too.        *)
FailsOnAnswer(h) ==
  /\ handlers[h].pc = "asked" /\ (handlers[h].cut \/ service.is = "up")
  /\ handlers' = [handlers EXCEPT ![h].pc = "trip"]
  /\ UNCHANGED <<service, circuit, cache, probe, warmUp>>

Fails(h) ==
  /\ handlers[h].pc = "asked" /\ handlers[h].cut
  /\ handlers' = [handlers EXCEPT ![h].pc = "trip"]
  /\ UNCHANGED <<service, circuit, cache, probe, warmUp>>

(* The message passes unscanned.                                            *)
Trip(h) ==
  /\ handlers[h].pc = "trip"
  /\ circuit' = Backoff
  /\ handlers' = [handlers EXCEPT ![h].pc = "idle"]
  /\ UNCHANGED <<service, cache, probe, warmUp>>

(* One long inference at startup closes the breaker when it is answered,    *)
(* were it by an error.                                                     *)
WarmUpAnswers ==
  /\ warmUp = "asking" /\ warmUp' = "reset"
  /\ UNCHANGED <<service, circuit, cache, probe, handlers>>

WarmUpFails ==
  /\ warmUp = "asking" /\ warmUp' = "done"
  /\ UNCHANGED <<service, circuit, cache, probe, handlers>>

WarmUpResets ==
  /\ warmUp = "reset" /\ warmUp' = "done" /\ circuit' = 0
  /\ UNCHANGED <<service, cache, probe, handlers>>

-----------------------------------------------------------------------------
Less(n) == IF n = 0 THEN 0 ELSE n - 1

(* Calls end by their timeout, and so does what takes no time.              *)
Tick ==
  /\ probe = NoProbe /\ warmUp # "reset"
  /\ \A h \in Handlers : /\ handlers[h].pc \notin {"reset", "trip"}
                         /\ handlers[h].pc = "asked" => handlers[h].left > 0
  /\ service' = [service EXCEPT !.for = IF @ = Long THEN @ ELSE @ + 1]
  /\ circuit' = Less(circuit)
  /\ cache' = [cache EXCEPT !.left = Less(@)]
  /\ handlers' = [h \in Handlers |-> [handlers[h] EXCEPT !.left = Less(@)]]
  /\ UNCHANGED <<probe, warmUp>>

Handle(h) ==
  \/ NewRequest(h) \/ Message(h) \/ Hangup(h) \/ GateCached(h) \/ Probe(h) \/ ProbeEnds(h)
  \/ CheckOpen(h) \/ CheckClosed(h) \/ Answers(h) \/ Reset(h) \/ Fails(h) \/ Trip(h)

NextGateway ==
  \/ Tick \/ ServiceChanges \/ WarmUpAnswers \/ WarmUpFails \/ WarmUpResets
  \/ \E h \in Handlers : Handle(h)

GatewaySpec == InitGateway /\ [][NextGateway]_gatewayVars

-----------------------------------------------------------------------------
(* Properties *)

TypeOK ==
  /\ service \in [is : {"up", "slow", "down"}, for : 0 .. Long]
  /\ circuit \in 0 .. Backoff
  /\ cache \in [ready : BOOLEAN, left : 0 .. TTL]
  /\ probe \in [by : Handlers \cup {"nobody"}, up : BOOLEAN]
  /\ handlers \in [Handlers -> [pc : {"idle", "gate", "check", "asked", "reset", "trip"},
                                ws : BOOLEAN, left : 0 .. Timeout, cut : BOOLEAN]]
  /\ warmUp \in {"asking", "reset", "done"}

(* A message passes unscanned only while the scanner does not answer or for *)
(* one timeout and one backoff after it does again: calls in flight at its  *)
(* return may open the breaker once more, and no others.                    *)
UnscannedOnlyNearOutage ==
  [][\A h \in Handlers :
       handlers[h].pc \in {"check", "trip"} /\ handlers'[h].pc = "idle" =>
         service.is # "up" \/ service.for < Timeout + Backoff]_gatewayVars

(* A request is not admitted once the scanner has been down for as long as  *)
(* a probe is cached, and not refused once it has answered for a timeout, a *)
(* backoff and that long, whatever other requests and messages did.         *)
GateFollowsService ==
  [][\A h \in Handlers :
       handlers[h].pc = "gate" /\ handlers'[h].pc # "gate" =>
         IF handlers'[h].pc = "idle" /\ ~handlers'[h].ws
         THEN service.is # "up" \/ service.for < Long
         ELSE service.is # "down" \/ service.for < TTL]_gatewayVars
=============================================================================
