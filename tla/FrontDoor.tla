------------------------------ MODULE FrontDoor ------------------------------
(***************************************************************************)
(* The way of a client's request to its tenant (resolveTenant, the login   *)
(* gate and requireUserSession, at the head of handleRoot), while          *)
(* dashboards create, delete and reconfigure tenants (Tenants), policies   *)
(* with single sign-on are loaded and people log in (UserLogin), and the   *)
(* process restarts.                                                       *)
(*                                                                         *)
(* The dashboard's operations need the role admin: the token of the        *)
(* environment gives it at any time, so no guard is left of it here.       *)
(***************************************************************************)
EXTENDS Tenants, UserLogin

CONSTANTS
  Clients,         \* who sends requests, each with a session key of its own
  MaxWork          \* bound: what is begun: requests, operations, logins, restarts

ASSUME FrontDoorAssumption == MaxWork \in Nat

VARIABLES
  requests,        \* per client, a request on its way
  late,            \* history: per object killed, the requests that had found it before
  work

vars == <<tenantsVars, loginVars, requests, late, work>>

NoRequest == [pc |-> "idle", token |-> None, id |-> None, obj |-> Default]

Init ==
  /\ InitTenants /\ \E env \in Envs : InitUserLogin(env)
  /\ requests = [c \in Clients |-> NoRequest]
  /\ late = [k \in Objects |-> {}] /\ work = 0

(* One more of what MaxWork bounds.                                         *)
Begun == work < MaxWork /\ work' = work + 1

-----------------------------------------------------------------------------
(* resolveTenant: a header that names a tenant comes first.                 *)
Arrive(c, id, t) ==
  /\ Begun /\ main = "serve" /\ requests[c].pc = "idle"
  /\ requests' = [requests EXCEPT ![c] =
       IF ~multiTenancyActive THEN [NoRequest EXCEPT !.pc = "gate"]
       ELSE IF ByHeader(id) # Default THEN [NoRequest EXCEPT !.pc = "gate", !.obj = ByHeader(id)]
       ELSE IF t = None THEN [NoRequest EXCEPT !.pc = "gate"]
       ELSE [NoRequest EXCEPT !.pc = "index", !.token = t]]
  /\ UNCHANGED <<tenantsVars, loginVars, late>>

LookIndex(c) ==
  /\ requests[c].pc = "index"
  /\ LET id == ByIndex(requests[c].token) IN
       requests' = [requests EXCEPT ![c] =
         IF id = None THEN [NoRequest EXCEPT !.pc = "gate"]
                      ELSE [NoRequest EXCEPT !.pc = "entry", !.id = id]]
  /\ UNCHANGED <<tenantsVars, loginVars, late, work>>

LookEntry(c) ==
  /\ requests[c].pc = "entry"
  /\ requests' = [requests EXCEPT ![c] =
                    [NoRequest EXCEPT !.pc = "gate", !.obj = ByHeader(requests[c].id)]]
  /\ UNCHANGED <<tenantsVars, loginVars, late, work>>

(* Scopes are kept under the request's session key, not the person's.       *)
StoreUserSessionScopes(c) == sessions' = [sessions EXCEPT ![requests[c].obj] = @ \cup {c}]

(* The login gate; who may pass leaves its scopes with the tenant.          *)
Gate(c) ==
  /\ requests[c].pc = "gate"
  /\ requests' = [requests EXCEPT ![c] = NoRequest]
  /\ IF GateOn /\ ValidUserSession THEN StoreUserSessionScopes(c) ELSE UNCHANGED sessions
  /\ UNCHANGED <<memory, dirs, workers, met, crossed, shared, gone, loginVars, late, work>>

Request(c) ==
  \/ \E id \in TenantIDs \cup {None}, t \in Tokens \cup {None} : Arrive(c, id, t)
  \/ LookIndex(c) \/ LookEntry(c) \/ Gate(c)

-----------------------------------------------------------------------------
(* Steps of the two parts *)

(* Changed: the sessions of the tenant stay.                                *)
KillNothing(w) ==
  /\ workers[w].pc = "kill"
  /\ workers' = [workers EXCEPT ![w].pc = "remove"]
  /\ late' = [late EXCEPT ![workers[w].obj] = {c \in Clients : requests[c].obj = workers[w].obj}]
  /\ UNCHANGED <<memory, sessions, dirs, met, crossed, shared, gone, loginVars, requests, work>>

KillTenant(w) ==
  /\ Kill(w)
  /\ late' = [late EXCEPT ![workers[w].obj] = {c \in Clients : requests[c].obj = workers[w].obj}]
  /\ UNCHANGED <<loginVars, requests, work>>

Work(w) ==
  \/ main = "serve" /\ Begun /\ Begin(w) /\ UNCHANGED <<loginVars, requests, late>>
  \/ Continue(w) /\ UNCHANGED <<loginVars, requests, late, work>>
  \/ KillTenant(w)

SignOn ==
  /\ \/ LoadSSO \/ RegisterRoutes \/ TokenLogin \/ ChatLogout
     \/ \E n \in Loads : Reinit(n)
     \/ \E l \in Logins : Login(l) \/ EndSession(l)
  /\ UNCHANGED <<tenantsVars, requests, late, work>>

Start(l) ==
  /\ Begun /\ \E chat \in BOOLEAN : StartLogin(l, chat)
  /\ UNCHANGED <<tenantsVars, requests, late>>

Save(p) ==
  /\ Begun /\ SaveSSO(p)
  /\ UNCHANGED <<tenantsVars, requests, late>>

Restart ==
  /\ Begun /\ main = "serve"
  /\ RestartTenants /\ \E env \in Envs : RestartLogin(env)
  /\ requests' = [c \in Clients |-> NoRequest]
  /\ late' = [k \in Objects |-> {}]

Next ==
  \/ \E c \in Clients : Request(c)
  \/ \E w \in Workers : Work(w)
  \/ SignOn
  \/ \E l \in Logins : Start(l)
  \/ \E p \in Policies : Save(p)
  \/ Restart

Spec == Init /\ [][Next]_vars

-----------------------------------------------------------------------------
(* Properties; those of the parts are DiskTells, TokensLead,                *)
(* RoleAsConfigured and SettlesOnPolicy.                                    *)

(* Nobody's session is left with a tenant that was deleted, but for         *)
(* requests that had found the tenant and were still on their way.          *)
ResidueOnlyIfInFlight ==
  \A k \in 1 .. made :
    /\ tenants[k].id \notin met /\ tenantRegistry[tenants[k].id] # k
    /\ \A w \in Workers : workers[w].pc = "kill" => workers[w].obj # k
    => sessions[k] \subseteq late[k]
=============================================================================
