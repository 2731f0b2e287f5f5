------------------------------ MODULE UserLogin ------------------------------
(***************************************************************************)
(* Single sign-on (proxy/oidc.go, loginhandler.go, usersession.go, getRole *)
(* and the sso endpoint of main.go): the goroutine that every load of the  *)
(* policy starts to set OIDC up again, the logins that meet it half way,   *)
(* and the cookies they leave in one person's browser.                     *)
(*                                                                         *)
(* OIDC's settings are four globals set one after the other without a      *)
(* lock.  A provider is a value of Configs: it vouches for the groups that *)
(* Claims gives the person there, and takes back only its own codes and    *)
(* tokens.                                                                 *)
(***************************************************************************)
EXTENDS Naturals, FiniteSets

CONSTANTS
  Configs,                   \* the providers
  AdminGroups, UserGroups,   \* the groups each configuration names
  Claims,                    \* the person's groups, by provider
  NoConfig,                  \* fields are missing
  Envs,                      \* what InitOIDC can have set up from the environment
  Policies,                  \* policy.SSO: on, config, maps (group_scope_mappings)
  MaxLoads,                  \* bound: loads of the policy, the one at the start included
  MaxLogins                  \* bound: logins begun since the start

Loads == 1 .. MaxLoads
Logins == 1 .. MaxLogins

ASSUME UserLoginAssumption ==
  /\ NoConfig \notin Configs /\ Envs \subseteq Configs \cup {NoConfig}
  /\ Policies \subseteq [on : BOOLEAN, config : Configs \cup {NoConfig}, maps : BOOLEAN]
  /\ MaxLoads \in Nat \ {0} /\ MaxLogins \in Nat

VARIABLES
  main,                    \* the main goroutine: load, routes, serve
  routes,                  \* login, callback and logout are registered
  sso, file,               \* policy.SSO, and what policy.yaml says
  loads, unread,           \* loads begun; the file was written and not read again
  reinits,                 \* ReinitOIDCFromPolicy, per load
  oidcEnabled, oidcCfg, oidcVerifier, oauth2Config,
  tangled,                 \* history: those three may come from two loads, see Install
  logins,                  \* per login begun: its state, its callback
  stateCookie,             \* armor_oauth_state in the browser
  oidcSessions,            \* sessions of the dashboard, per login
  chatCookie               \* aa_user is in the browser

loginVars == <<main, routes, sso, file, loads, unread, reinits, oidcEnabled, oidcCfg,
               oidcVerifier, oauth2Config, tangled, logins, stateCookie, oidcSessions,
               chatCookie>>
globals == <<oidcEnabled, oidcCfg, oidcVerifier, oauth2Config>>
policies == <<main, routes, sso, file, loads, unread>>
browser == <<logins, stateCookie, oidcSessions, chatCookie>>

NoReinit == [pc |-> "none", policy |-> [on |-> FALSE, config |-> NoConfig, maps |-> FALSE],
             alone |-> TRUE, ok |-> FALSE]
NoLogin == [pc |-> "none", chat |-> FALSE, with |-> NoConfig, crossed |-> FALSE]
NoSession == [role |-> "none", by |-> NoConfig, loose |-> FALSE]

Started(env, saved) ==
  /\ main' = "load" /\ routes' = FALSE
  /\ sso' = NoReinit.policy /\ file' = saved /\ loads' = 0 /\ unread' = TRUE
  /\ reinits' = [n \in Loads |-> NoReinit]
  /\ oidcEnabled' = (env # NoConfig) /\ oidcCfg' = env /\ oidcVerifier' = env
  /\ oauth2Config' = env /\ tangled' = FALSE
  /\ logins' = [l \in Logins |-> NoLogin]
  /\ oidcSessions' = [l \in Logins |-> NoSession]

(* Of the cookies in the browser the chat's still counts, if the secret it  *)
(* is signed with could be stored (initJWTSecret).                          *)
RestartLogin(env) ==
  /\ Started(env, file)
  /\ stateCookie' = 0 /\ chatCookie' \in {FALSE, chatCookie}

InitUserLogin(env) ==
  /\ main = "load" /\ routes = FALSE
  /\ sso = NoReinit.policy /\ file \in Policies /\ loads = 0 /\ unread = TRUE
  /\ reinits = [n \in Loads |-> NoReinit]
  /\ oidcEnabled = (env # NoConfig) /\ oidcCfg = env /\ oidcVerifier = env
  /\ oauth2Config = env /\ tangled = FALSE
  /\ logins = [l \in Logins |-> NoLogin] /\ stateCookie = 0
  /\ oidcSessions = [l \in Logins |-> NoSession] /\ chatCookie = FALSE

-----------------------------------------------------------------------------
(* Loads and saves of the policy *)

InFlight == {n \in Loads : reinits[n].pc \notin {"none", "done"}}

(* loadPolicy, at the start and from watchPolicyFile.                       *)
LoadSSO ==
  /\ unread /\ loads < MaxLoads /\ main \in {"load", "serve"}
  /\ main' = IF main = "load" THEN "routes" ELSE main
  /\ sso' = file /\ unread' = FALSE /\ loads' = loads + 1
  /\ reinits' = [n \in Loads |->
       IF n = loads' THEN [pc |-> "begin", policy |-> file, alone |-> InFlight = {}, ok |-> FALSE]
       ELSE IF n \in InFlight THEN [reinits[n] EXCEPT !.alone = FALSE] ELSE reinits[n]]
  /\ UNCHANGED <<routes, file, globals, tangled, browser>>

(* main has come to the routes, once.                                       *)
RegisterRoutes ==
  /\ main = "routes" /\ main' = "serve" /\ routes' = oidcEnabled
  /\ UNCHANGED <<sso, file, loads, unread, reinits, globals, tangled, browser>>

(* POST /armor/api/sso: in force at once, but for what OIDC was set up with *)
(* when the file was last loaded.                                           *)
SaveSSO(p) ==
  /\ main = "serve"
  /\ sso' = p /\ file' = p /\ unread' = TRUE
  /\ UNCHANGED <<main, routes, loads, reinits, globals, tangled, browser>>

-----------------------------------------------------------------------------
(* ReinitOIDCFromPolicy, initOIDCFromConfig *)

Finished(n, ok) == reinits' = [reinits EXCEPT ![n].pc = "done", ![n].ok = ok]

Disable(n) ==
  /\ reinits[n].pc = "begin" /\ ~reinits[n].policy.on
  /\ oidcEnabled' = FALSE
  /\ Finished(n, TRUE)
  /\ UNCHANGED <<policies, oidcCfg, oidcVerifier, oauth2Config, tangled, browser>>

(* Discovery, 15 s at most; with fields missing it is not tried.  Without   *)
(* it everything stays as it was.                                           *)
Discover(n) ==
  /\ reinits[n].pc = "begin" /\ reinits[n].policy.on
  /\ \/ Finished(n, FALSE)
     \/ /\ reinits[n].policy.config # NoConfig
        /\ reinits' = [reinits EXCEPT ![n].pc = "cfg"]
  /\ UNCHANGED <<policies, globals, tangled, browser>>

Installing == {n \in Loads : reinits[n].pc \in {"verifier", "oauth2"}}
Touched == [l \in Logins |-> IF logins[l].pc \in {"exchange", "verify", "verified"}
                             THEN [logins[l] EXCEPT !.crossed = TRUE] ELSE logins[l]]
Older == [l \in Logins |-> IF oidcSessions[l] # NoSession
                           THEN [oidcSessions[l] EXCEPT !.loose = TRUE] ELSE NoSession]

(* One of the assignments.  Remembered: that another goroutine is between   *)
(* its own (until one did them all alone), and that callbacks under way and *)
(* sessions have seen settings change.                                      *)
Install(n, pc, next) ==
  /\ reinits[n].pc = pc
  /\ reinits' = [reinits EXCEPT ![n].pc = next, ![n].ok = next = "done"]
  /\ tangled' = IF next = "done" /\ reinits[n].alone THEN FALSE
                ELSE tangled \/ Installing \ {n} # {}
  /\ logins' = Touched /\ oidcSessions' = Older
  /\ UNCHANGED <<policies, stateCookie, chatCookie>>

(* Changed: the settings of the first configuration are kept.               *)
InstallCfgOnce(n) ==
  /\ Install(n, "cfg", "verifier")
  /\ oidcCfg' = IF oidcCfg = NoConfig THEN reinits[n].policy.config ELSE oidcCfg
  /\ UNCHANGED <<oidcEnabled, oidcVerifier, oauth2Config>>

InstallCfg(n) ==
  /\ Install(n, "cfg", "verifier") /\ oidcCfg' = reinits[n].policy.config
  /\ UNCHANGED <<oidcEnabled, oidcVerifier, oauth2Config>>

(* Changed: the first verifier is kept.                                     *)
InstallVerifierOnce(n) ==
  /\ Install(n, "verifier", "oauth2")
  /\ oidcVerifier' = IF oidcVerifier = NoConfig THEN reinits[n].policy.config ELSE oidcVerifier
  /\ UNCHANGED <<oidcEnabled, oidcCfg, oauth2Config>>

InstallVerifier(n) ==
  /\ Install(n, "verifier", "oauth2") /\ oidcVerifier' = reinits[n].policy.config
  /\ UNCHANGED <<oidcEnabled, oidcCfg, oauth2Config>>

InstallOAuth2(n) ==
  /\ Install(n, "oauth2", "done") /\ oauth2Config' = reinits[n].policy.config
  /\ oidcEnabled' = TRUE
  /\ UNCHANGED <<oidcCfg, oidcVerifier>>

Reinit(n) ==
  Disable(n) \/ Discover(n) \/ InstallCfg(n) \/ InstallVerifier(n) \/ InstallOAuth2(n)

-----------------------------------------------------------------------------
(* Logins *)

(* resolveRole, of the groups that the provider by vouches for.             *)
ResolveRole(by, cfg) ==
  CASE AdminGroups[cfg] \cup UserGroups[cfg] = {} -> "user"
    [] Claims[by] \cap AdminGroups[cfg] # {} -> "admin"
    [] Claims[by] \cap (AdminGroups[cfg] \cup UserGroups[cfg]) = {} -> "none"
    [] OTHER -> "user"

(* HandleOIDCLogin, and handleUserOIDCAuth for the chat; one cookie holds   *)
(* the state of either, the later login's.                                  *)
StartLogin(l, chat) ==
  /\ main = "serve" /\ IF chat THEN oidcEnabled ELSE routes
  /\ logins[l].pc = "none" /\ \A k \in 1 .. l - 1 : logins[k].pc # "none"
  /\ logins' = [logins EXCEPT ![l] =
       [pc |-> "provider", chat |-> chat, with |-> oauth2Config, crossed |-> FALSE]]
  /\ stateCookie' = l
  /\ UNCHANGED <<policies, reinits, globals, tangled, oidcSessions, chatCookie>>

(* issueUserSession: the cookie aa_user, signed.                            *)
IssueUserSession == chatCookie' = TRUE

Step(l, pc) == logins' = [logins EXCEPT ![l].pc = pc]

(* The provider sends the browser back: HandleOIDCCallback.                 *)
Callback(l) ==
  /\ logins[l].pc = "provider" /\ main = "serve" /\ routes
  /\ IF stateCookie = l
     THEN /\ stateCookie' = 0
          /\ logins' = [logins EXCEPT ![l].pc = "exchange", ![l].crossed = Installing # {}]
     ELSE UNCHANGED stateCookie /\ Step(l, "over")
  /\ UNCHANGED <<policies, reinits, globals, tangled, oidcSessions, chatCookie>>

Exchange(l) ==
  /\ logins[l].pc = "exchange"
  /\ \/ oauth2Config = logins[l].with /\ Step(l, "verify")
     \/ Step(l, "over")
  /\ UNCHANGED <<policies, reinits, globals, tangled, stateCookie, oidcSessions, chatCookie>>

Verify(l) ==
  /\ logins[l].pc = "verify"
  /\ Step(l, IF oidcVerifier = logins[l].with THEN "verified" ELSE "over")
  /\ UNCHANGED <<policies, reinits, globals, tangled, stateCookie, oidcSessions, chatCookie>>

(* The chat gets its cookie, the dashboard a session if a group allows it.  *)
Admit(l) ==
  LET role == ResolveRole(logins[l].with, oidcCfg) IN
  /\ logins[l].pc = "verified"
  /\ Step(l, "over")
  /\ IF logins[l].chat
     THEN IssueUserSession /\ UNCHANGED oidcSessions
     ELSE /\ oidcSessions' = IF role = "none" THEN oidcSessions
                             ELSE [oidcSessions EXCEPT ![l] =
                                     [role |-> role, by |-> logins[l].with,
                                      loose |-> logins[l].crossed \/ tangled]]
          /\ UNCHANGED chatCookie
  /\ UNCHANGED <<policies, reinits, globals, tangled, stateCookie>>

(* HandleOIDCLogout, or eight hours.                                        *)
EndSession(l) ==
  /\ oidcSessions[l] # NoSession
  /\ oidcSessions' = [oidcSessions EXCEPT ![l] = NoSession]
  /\ UNCHANGED <<policies, reinits, globals, tangled, logins, stateCookie, chatCookie>>

(* handleUserLoginPost with one of the two tokens; handleUserLogout or      *)
(* eight hours.                                                             *)
TokenLogin ==
  /\ main = "serve" /\ ~chatCookie /\ IssueUserSession
  /\ UNCHANGED <<policies, reinits, globals, tangled, logins, stateCookie, oidcSessions>>

ChatLogout ==
  /\ chatCookie /\ chatCookie' = FALSE
  /\ UNCHANGED <<policies, reinits, globals, tangled, logins, stateCookie, oidcSessions>>

Login(l) == Callback(l) \/ Exchange(l) \/ Verify(l) \/ Admit(l)

(* getRole: by a session while OIDC is on; the tokens of the environment    *)
(* always do.                                                               *)
SessionRole(l) == IF oidcEnabled THEN oidcSessions[l].role ELSE "none"

(* validateUserSession: of a cookie that is there.                          *)
ValidUserSession == chatCookie

(* isUserLoginEnabled without ARMOR_USER_LOGIN.                             *)
GateOn == oidcEnabled /\ sso.maps

-----------------------------------------------------------------------------
(* Properties *)

(* A session of the dashboard has the role that the configuration in force  *)
(* gives the person by the groups its own provider vouched for, and never   *)
(* that of another provider's groups, unless it is older than the           *)
(* configuration, or its callback or two loads met while one was set up.    *)
RoleAsConfigured ==
  \A l \in Logins : SessionRole(l) # "none" /\ ~oidcSessions[l].loose =>
    /\ oidcCfg = oidcSessions[l].by
    /\ SessionRole(l) = ResolveRole(oidcSessions[l].by, oidcSessions[l].by)

(* Once the goroutines of all loads are done OIDC is what the last load     *)
(* asked for, unless that one met another or its provider was not there.    *)
(* A slow discovery that ends after a later load is the case left out.      *)
SettlesOnPolicy ==
  loads > 0 /\ InFlight = {} /\ reinits[loads].alone /\ reinits[loads].ok =>
    LET p == reinits[loads].policy IN
    /\ oidcEnabled = p.on
    /\ p.on => oidcCfg = p.config /\ oidcVerifier = p.config /\ oauth2Config = p.config
=============================================================================
