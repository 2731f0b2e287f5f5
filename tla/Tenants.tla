------------------------------- MODULE Tenants -------------------------------
(***************************************************************************)
(* The tenants (proxy/tenants.go and the tenants endpoints of main.go):    *)
(* the registry and the index of tokens in memory, a directory per tenant  *)
(* on the disk, and the requests of the dashboard that create, delete and  *)
(* reconfigure tenants, any number of them at a time.                      *)
(*                                                                         *)
(* A step is one critical section of tenantRegistryLock or one operation   *)
(* on the disk.  A tenant's two tokens are found and lost together, and    *)
(* are one here.  An object of type Tenant outlives its entry in the       *)
(* registry: those who found it there go on with it.                       *)
(***************************************************************************)
EXTENDS Naturals, FiniteSets, Functions

CONSTANTS
  TenantIDs, Tokens,
  Texts, Root,     \* the policies that are saved; ./policy.yaml
  None,            \* no file
  Torn,            \* a file emptied and not written: no token, the zero policy
  Workers,         \* requests of the dashboard
  MaxTenants       \* bound: objects made between two starts

Objects == 1 .. MaxTenants
Default == 0

ASSUME TenantsAssumption ==
  /\ {None, Torn} \cap (TenantIDs \cup Tokens \cup Texts \cup {Root}) = {}
  /\ Root \notin Texts
  /\ IsFiniteSet(TenantIDs) /\ IsFiniteSet(Workers)
  /\ MaxTenants \in Nat /\ Cardinality(TenantIDs) <= MaxTenants

VARIABLES
  tenantRegistry,      \* the object of each identifier, or Default
  tenantTokenIndex,
  multiTenancyActive,
  tenants,             \* the objects: id, token, policy
  made,                \* how many of them there are
  sessions,            \* per object, whose session it keeps
  dirs,                \* ./tenants/<id>: there, meta, policy
  workers,
  met, crossed, shared, gone     \* history, see Check, Look and Remove

tenantsVars == <<tenantRegistry, tenantTokenIndex, multiTenancyActive, tenants, made, sessions,
                 dirs, workers, met, crossed, shared, gone>>
memory == <<tenantRegistry, tenantTokenIndex, multiTenancyActive, tenants, made>>

NoDir == [there |-> FALSE, meta |-> None, policy |-> None]
NoWork == [pc |-> "idle", id |-> None, token |-> None, text |-> None, obj |-> Default]

Creating(id) == {w \in Workers : workers[w].id = id /\ workers[w].pc \in
                   {"mkdir", "meta", "seed", "read", "register", "activate"}}
Deleting(id) == {w \in Workers : workers[w].id = id /\ workers[w].pc \in {"kill", "remove"}}
Saving(id) == {w \in Workers : workers[w].id = id /\ workers[w].pc \in {"apply", "write"}}

Go(w, pc) == workers' = [workers EXCEPT ![w].pc = pc]
Answered(w) == workers' = [workers EXCEPT ![w] = NoWork]

-----------------------------------------------------------------------------
(* InitTenants and loadTenant, over what a crash may have left: a file that *)
(* was being written can be empty.                                          *)

Loadable(d) == {id \in TenantIDs : d[id].there /\ d[id].meta # None}

Loaded(d, id) ==
  [id |-> id, token |-> d[id].meta,
   policy |-> IF d[id].policy = None THEN Root ELSE d[id].policy]

LoadAll(d) ==
  LET ids == Loadable(d)
      order == CHOOSE f \in Bijection(1 .. Cardinality(ids), ids) : TRUE
      Number(id) == CHOOSE k \in 1 .. Cardinality(ids) : order[k] = id
      Has(t) == {id \in ids : d[id].meta = t}
  IN /\ tenants' = [k \in Objects |-> IF k \in 1 .. Cardinality(ids) THEN Loaded(d, order[k])
                                      ELSE [id |-> None, token |-> None, policy |-> None]]
     /\ made' = Cardinality(ids)
     /\ tenantRegistry' = [id \in TenantIDs |-> IF id \in ids THEN Number(id) ELSE Default]
     /\ tenantTokenIndex' = [t \in Tokens |-> IF Has(t) = {} THEN None ELSE CHOOSE id \in Has(t) : TRUE]
     /\ multiTenancyActive' = (ids # {})
     /\ sessions' = [k \in Objects \cup {Default} |-> {}]
     /\ workers' = [w \in Workers |-> NoWork]

TearsMeta(id) == \E w \in Workers : workers[w].pc = "meta" /\ workers[w].id = id /\ dirs[id].there
TearsPolicy(id) ==
  \E w \in Workers : workers[w].pc \in {"seed", "write"} /\ workers[w].id = id /\ dirs[id].there

Left(id) == [there : {dirs[id].there},
             meta : {dirs[id].meta} \cup (IF TearsMeta(id) THEN {Torn} ELSE {}),
             policy : {dirs[id].policy} \cup (IF TearsPolicy(id) THEN {Torn} ELSE {})]

RestartTenants ==
  \E d \in [TenantIDs -> UNION {Left(id) : id \in TenantIDs}] :
    /\ \A id \in TenantIDs : d[id] \in Left(id)
    /\ dirs' = d /\ LoadAll(d)
    /\ UNCHANGED <<met, crossed, shared, gone>>

InitTenants ==
  /\ tenantRegistry = [id \in TenantIDs |-> Default]
  /\ tenantTokenIndex = [t \in Tokens |-> None]
  /\ multiTenancyActive = FALSE
  /\ tenants = [k \in Objects |-> [id |-> None, token |-> None, policy |-> None]] /\ made = 0
  /\ sessions = [k \in Objects \cup {Default} |-> {}]
  /\ dirs = [id \in TenantIDs |-> NoDir]
  /\ workers = [w \in Workers |-> NoWork]
  /\ met = {} /\ crossed = {} /\ shared = {} /\ gone = {}

-----------------------------------------------------------------------------
(* POST /armor/api/tenants: CreateTenant *)

(* The only look at the registry before it is written.  Remembered: the     *)
(* identifiers with two creations or a creation and a deletion at a time,   *)
(* those with a creation during a save, tokens given to two tenants.        *)
Check(w, id, t) ==
  /\ workers[w].pc = "idle" /\ tenantRegistry[id] = Default
  /\ made + Cardinality(UNION {Creating(i) : i \in TenantIDs}) < MaxTenants
  /\ workers' = [workers EXCEPT ![w] = [NoWork EXCEPT !.pc = "mkdir", !.id = id, !.token = t]]
  /\ met' = IF Creating(id) \cup Deleting(id) = {} THEN met ELSE met \cup {id}
  /\ crossed' = IF Saving(id) = {} THEN crossed ELSE crossed \cup {id}
  /\ shared' = IF \/ \E i \in TenantIDs \ {id} : dirs[i].meta = t
                  \/ \E v \in Workers : workers[v].token = t
                  \/ \E k \in Objects : tenants[k].token = t /\ tenantRegistry[tenants[k].id] = k
               THEN shared \cup {t} ELSE shared
  /\ gone' = gone \ {id}
  /\ UNCHANGED <<memory, sessions, dirs>>

Mkdir(w) ==
  /\ workers[w].pc = "mkdir"
  /\ dirs' = [dirs EXCEPT ![workers[w].id].there = TRUE]
  /\ Go(w, "meta")
  /\ UNCHANGED <<memory, sessions, met, crossed, shared, gone>>

WriteMeta(w) ==
  LET id == workers[w].id IN
  /\ workers[w].pc = "meta"
  /\ IF dirs[id].there
     THEN dirs' = [dirs EXCEPT ![id].meta = workers[w].token] /\ Go(w, "seed")
     ELSE UNCHANGED dirs /\ Answered(w)
  /\ UNCHANGED <<memory, sessions, met, crossed, shared, gone>>

(* An error of this write is not looked at.                                 *)
Seed(w) ==
  LET id == workers[w].id IN
  /\ workers[w].pc = "seed"
  /\ dirs' = IF dirs[id].there THEN [dirs EXCEPT ![id].policy = Root] ELSE dirs
  /\ Go(w, "read")
  /\ UNCHANGED <<memory, sessions, met, crossed, shared, gone>>

Read(w) ==
  LET id == workers[w].id IN
  /\ workers[w].pc = "read"
  /\ workers' = [workers EXCEPT ![w].pc = "register",
                   ![w].text = IF dirs[id].policy = None THEN Torn ELSE dirs[id].policy]
  /\ UNCHANGED <<memory, sessions, dirs, met, crossed, shared, gone>>

Register(w) ==
  LET me == workers[w]
  IN /\ me.pc = "register"
     /\ made' = made + 1
     /\ tenants' = [tenants EXCEPT ![made'] = [id |-> me.id, token |-> me.token, policy |-> me.text]]
     /\ tenantRegistry' = [tenantRegistry EXCEPT ![me.id] = made']
     /\ tenantTokenIndex' = [tenantTokenIndex EXCEPT ![me.token] = me.id]
     /\ Go(w, "activate")
     /\ UNCHANGED <<multiTenancyActive, sessions, dirs, met, crossed, shared, gone>>

Activate(w) ==
  /\ workers[w].pc = "activate"
  /\ multiTenancyActive' = TRUE
  /\ Answered(w)
  /\ UNCHANGED <<tenantRegistry, tenantTokenIndex, tenants, made, sessions, dirs,
                 met, crossed, shared, gone>>

-----------------------------------------------------------------------------
(* DELETE /armor/api/tenants/<id>: DeleteTenant *)

(* Changed: the tokens stay in the index.                                   *)
UnregisterOnly(w, id) ==
  /\ workers[w].pc = "idle" /\ tenantRegistry[id] # Default
  /\ tenantRegistry' = [tenantRegistry EXCEPT ![id] = Default]
  /\ workers' = [workers EXCEPT ![w] =
                   [NoWork EXCEPT !.pc = "kill", !.id = id, !.obj = tenantRegistry[id]]]
  /\ met' = IF Creating(id) = {} THEN met ELSE met \cup {id}
  /\ UNCHANGED <<tenantTokenIndex, multiTenancyActive, tenants, made, sessions, dirs,
                 crossed, shared, gone>>

Unregister(w, id) ==
  LET t == tenants[tenantRegistry[id]].token
  IN /\ workers[w].pc = "idle" /\ tenantRegistry[id] # Default
     /\ tenantRegistry' = [tenantRegistry EXCEPT ![id] = Default]
     /\ tenantTokenIndex' = [x \in Tokens |-> IF x = t THEN None ELSE tenantTokenIndex[x]]
     /\ workers' = [workers EXCEPT ![w] =
                      [NoWork EXCEPT !.pc = "kill", !.id = id, !.obj = tenantRegistry[id]]]
     /\ met' = IF Creating(id) = {} THEN met ELSE met \cup {id}
     /\ UNCHANGED <<multiTenancyActive, tenants, made, sessions, dirs, crossed, shared, gone>>

(* killAllWS of the object: nobody ever registered a connection with it,    *)
(* what it has are sessions.                                                *)
Kill(w) ==
  /\ workers[w].pc = "kill"
  /\ sessions' = [sessions EXCEPT ![workers[w].obj] = {}]
  /\ Go(w, "remove")
  /\ UNCHANGED <<memory, dirs, met, crossed, shared, gone>>

(* RemoveAll; remembered: deleted, and not created since.                   *)
Remove(w) ==
  LET id == workers[w].id IN
  /\ workers[w].pc = "remove"
  /\ dirs' = [dirs EXCEPT ![id] = NoDir]
  /\ Answered(w)
  /\ gone' = IF Creating(id) = {} THEN gone \cup {id} ELSE gone
  /\ UNCHANGED <<memory, sessions, met, crossed, shared>>

-----------------------------------------------------------------------------
(* POST /armor/api/tenants/<id>/policy: SaveTenantPolicy *)

(* Remembered: the identifiers with two saves or a save and a creation.     *)
Look(w, id, text) ==
  /\ workers[w].pc = "idle" /\ tenantRegistry[id] # Default
  /\ workers' = [workers EXCEPT ![w] =
       [NoWork EXCEPT !.pc = "apply", !.id = id, !.text = text, !.obj = tenantRegistry[id]]]
  /\ crossed' = IF Saving(id) \cup Creating(id) = {} THEN crossed ELSE crossed \cup {id}
  /\ UNCHANGED <<memory, sessions, dirs, met, shared, gone>>

(* loadPolicyBytes; text that does not parse is answered before.            *)
Apply(w) ==
  /\ workers[w].pc = "apply"
  /\ tenants' = [tenants EXCEPT ![workers[w].obj].policy = workers[w].text]
  /\ Go(w, "write")
  /\ UNCHANGED <<tenantRegistry, tenantTokenIndex, multiTenancyActive, made, sessions, dirs,
                 met, crossed, shared, gone>>

(* Changed: the file is left alone.                                         *)
WriteNothing(w) ==
  /\ workers[w].pc = "write"
  /\ Answered(w)
  /\ UNCHANGED <<memory, sessions, dirs, met, crossed, shared, gone>>

Write(w) ==
  LET id == workers[w].id IN
  /\ workers[w].pc = "write"
  /\ dirs' = IF dirs[id].there THEN [dirs EXCEPT ![id].policy = workers[w].text] ELSE dirs
  /\ Answered(w)
  /\ UNCHANGED <<memory, sessions, met, crossed, shared, gone>>

Begin(w) ==
  \E id \in TenantIDs :
    \/ \E t \in Tokens : Check(w, id, t)
    \/ Unregister(w, id)
    \/ \E text \in Texts : Look(w, id, text)

Continue(w) ==
  \/ Mkdir(w) \/ WriteMeta(w) \/ Seed(w) \/ Read(w) \/ Register(w) \/ Activate(w)
  \/ Remove(w) \/ Apply(w) \/ Write(w)

-----------------------------------------------------------------------------
(* resolveTenant: the header, then the token through the index *)

ByHeader(id) == IF id # None THEN tenantRegistry[id] ELSE Default
ByIndex(t) == IF t # None THEN tenantTokenIndex[t] ELSE None

-----------------------------------------------------------------------------
(* Properties *)

Busy(id) == Creating(id) \cup Deleting(id) \cup Saving(id) # {}

(* What is in memory is on the disk, and so outlives a crash at any moment: *)
(* a registered tenant nobody works on has its directory, token and policy  *)
(* there, unless it was created while it was created or deleted (the policy *)
(* is another one if two saves, or a save and a creation, met) ...          *)
RegisteredIsOnDisk ==
  \A id \in TenantIDs \ met :
    tenantRegistry[id] # Default /\ ~Busy(id) =>
      LET tnt == tenants[tenantRegistry[id]] IN
      /\ dirs[id].there /\ dirs[id].meta = tnt.token
      /\ \/ id \in crossed
         \/ dirs[id].policy = tnt.policy
         \/ dirs[id].policy = None /\ tnt.policy = Root

(* ... and a tenant whose deletion was answered, and not created since,     *)
(* does not come back: with a restart, or with a policy that was being      *)
(* saved.                                                                   *)
DeletedStaysAway ==
  \A id \in gone \ met : tenantRegistry[id] = Default /\ id \notin Loadable(dirs)

DiskTells == RegisteredIsOnDisk /\ DeletedStaysAway

(* A tenant's token leads to it from the moment its creation was answered,  *)
(* whatever was created and deleted since, and after a restart, unless the  *)
(* administrator gave the token to two tenants or two creations met; and a  *)
(* token that leads somewhere is that tenant's: one of a tenant that was    *)
(* deleted does not lead to the next of the same name.                      *)
TokensLead ==
  \A t \in Tokens \ shared :
    /\ \A id \in TenantIDs \ met :
         tenantRegistry[id] # Default /\ tenants[tenantRegistry[id]].token = t /\ Creating(id) = {} =>
           multiTenancyActive /\ tenantTokenIndex[t] = id
    /\ tenantTokenIndex[t] \notin met \cup {None} =>
         LET k == tenantRegistry[tenantTokenIndex[t]] IN k # Default /\ tenants[k].token = t
=============================================================================
