----------------------------- MODULE TenantPool -----------------------------
(***************************************************************************)
(* TenantDBManager (pkg/database/tenant_manager.go): one gorm handle per   *)
(* tenant database, shared by the requests in progress and counted by      *)
(* them.  A missing handle is opened outside the mutex, through a          *)
(* singleflight group; a handle nobody uses may be closed, to make room or *)
(* for being idle; Remove closes it in any case after 30 seconds.          *)
(*                                                                         *)
(* A step is one critical section of the mutex or one call of the          *)
(* singleflight group.  lastUsed is left out: any handle that nobody uses  *)
(* may be the oldest one, or idle for long enough.                         *)
(***************************************************************************)
EXTENDS Integers, FiniteSets

CONSTANTS
  Tenants,   \* names of tenant databases
  Clients,   \* goroutines that use tenant databases
  Conns,     \* handles that can be opened: the bound of the opens in a behaviour
  MaxPools,  \* TENANT_POOL_MAX_ACTIVE, 0 for no limit
  MaxPins,   \* bound: how many uses per tenant are never released
  None

ASSUME PoolAssumption ==
  /\ MaxPools \in Nat /\ MaxPins \in Nat
  /\ IsFiniteSet(Clients)
  /\ None \notin Tenants \cup Conns

VARIABLES
  pool,      \* m.pools: the handle of each tenant, None if it has no entry
  inUse,     \* the counter of the entry, 0 if there is no entry
  open,      \* the handles that are open
  owner,     \* the database each handle was opened on, None before that
  flight,    \* the goroutines waiting on the singleflight call of a tenant
  shared,    \* ghost: handles a call handed to several goroutines
  removing,  \* tenants with a Remove in progress
  forced,    \* ghost: tenants whose handle was closed while in use
  pins,      \* ghost: uses of the current entry that nobody will release
  down,      \* ShutdownTenantDBManager has run
  phase, tenant, conn

handles == <<pool, inUse, open, owner>>
local   == <<phase, tenant, conn>>
poolVars == <<pool, inUse, open, owner, flight, shared, removing, forced, pins, down,
              phase, tenant, conn>>

PoolInit ==
  /\ pool = [t \in Tenants |-> None] /\ inUse = [t \in Tenants |-> 0]
  /\ open = {} /\ owner = [k \in Conns |-> None]
  /\ flight = [t \in Tenants |-> {}] /\ shared = {}
  /\ removing = {} /\ forced = {} /\ pins = [t \in Tenants |-> 0] /\ down = FALSE
  /\ phase = [c \in Clients |-> "idle"]
  /\ tenant = [c \in Clients |-> None] /\ conn = [c \in Clients |-> None]

Pooled == {t \in Tenants : pool[t] # None}

(* An entry eviction may take.                                             *)
EvictableAny(t) == pool[t] # None    \* does not look at the counter
Evictable(t)    == pool[t] # None /\ inUse[t] = 0

-----------------------------------------------------------------------------
UncountedUse(t) == UNCHANGED inUse   \* inUse.Add(1) forgotten
AddUse(t)       == inUse' = [inUse EXCEPT ![t] = @ + 1]

(* acquire: found in the map.                                              *)
Hit(c, t) ==
  /\ phase[c] = "idle" /\ ~down /\ pool[t] # None
  /\ AddUse(t)
  /\ phase' = [phase EXCEPT ![c] = "using"]
  /\ tenant' = [tenant EXCEPT ![c] = t] /\ conn' = [conn EXCEPT ![c] = pool[t]]
  /\ UNCHANGED <<pool, open, owner, flight, shared, removing, forced, pins, down>>

Miss(c, t) ==
  /\ phase[c] = "idle" /\ ~down /\ pool[t] = None
  /\ phase' = [phase EXCEPT ![c] = "miss"] /\ tenant' = [tenant EXCEPT ![c] = t]
  /\ UNCHANGED <<handles, flight, shared, removing, forced, pins, down, conn>>

(* sf.Do under one key for all the tenants.                                *)
JoinAny(c) ==
  /\ phase[c] = "miss"
  /\ \E t \in Tenants :
       /\ t = tenant[c] \/ flight[t] # {}
       /\ flight' = [flight EXCEPT ![t] = @ \cup {c}]
  /\ phase' = [phase EXCEPT ![c] = "flight"]
  /\ UNCHANGED <<handles, shared, removing, forced, pins, down, tenant, conn>>

(* sf.Do: start the call for this name, or wait for the one under way.     *)
Join(c) ==
  /\ phase[c] = "miss"
  /\ flight' = [flight EXCEPT ![tenant[c]] = @ \cup {c}]
  /\ phase' = [phase EXCEPT ![c] = "flight"]
  /\ UNCHANGED <<handles, shared, removing, forced, pins, down, tenant, conn>>

(* openTenantDB returned: every goroutine of the call gets the handle, and *)
(* "shared" when there was more than one; or every one gets the error.     *)
Opened(t) ==
  /\ flight[t] # {}
  /\ \E k \in Conns :
       /\ owner[k] = None
       /\ owner' = [owner EXCEPT ![k] = t] /\ open' = open \cup {k}
       /\ shared' = IF Cardinality(flight[t]) > 1 THEN shared \cup {k} ELSE shared
       /\ phase' = [c \in Clients |-> IF c \in flight[t] THEN "install" ELSE phase[c]]
       /\ conn' = [c \in Clients |-> IF c \in flight[t] THEN k ELSE conn[c]]
  /\ flight' = [flight EXCEPT ![t] = {}]
  /\ UNCHANGED <<pool, inUse, removing, forced, pins, down, tenant>>

OpenFailed(t) ==
  /\ flight[t] # {}
  /\ phase' = [c \in Clients |-> IF c \in flight[t] THEN "idle" ELSE phase[c]]
  /\ tenant' = [c \in Clients |-> IF c \in flight[t] THEN None ELSE tenant[c]]
  /\ flight' = [flight EXCEPT ![t] = {}]
  /\ UNCHANGED <<handles, shared, removing, forced, pins, down, conn>>

KeepSpare(c)  == UNCHANGED open      \* never closes the handle that lost
CloseSpare(c) == open' = IF conn[c] \in shared THEN open ELSE open \ {conn[c]}

(* acquire, second critical section.  Somebody else put an entry: use it,  *)
(* and close the own handle unless the call was shared.                    *)
InstallLost(c) ==
  LET t == tenant[c]
  IN  /\ phase[c] = "install" /\ pool[t] # None
      /\ CloseSpare(c) /\ AddUse(t)
      /\ conn' = [conn EXCEPT ![c] = pool[t]]
      /\ phase' = [phase EXCEPT ![c] = "using"]
      /\ UNCHANGED <<pool, owner, flight, shared, removing, forced, pins, down, tenant>>

Full == MaxPools > 0 /\ Cardinality(Pooled) >= MaxPools

(* No entry: put one; when the map is full, first close the oldest handle  *)
(* that nobody uses, if there is one.                                      *)
Install(c) ==
  LET t == tenant[c]
      enter(p, n) == /\ pool' = [p EXCEPT ![t] = conn[c]]
                     /\ inUse' = [n EXCEPT ![t] = 1]
  IN  /\ phase[c] = "install" /\ pool[t] = None
      /\ \/ /\ ~Full \/ \A u \in Tenants : ~Evictable(u)
            /\ enter(pool, inUse) /\ UNCHANGED <<open, pins>>
         \/ \E u \in Tenants :
              /\ Full /\ Evictable(u)
              /\ open' = open \ {pool[u]}
              /\ pins' = [pins EXCEPT ![u] = 0]
              /\ enter([pool EXCEPT ![u] = None], [inUse EXCEPT ![u] = 0])
      /\ phase' = [phase EXCEPT ![c] = "using"]
      /\ UNCHANGED <<owner, flight, shared, removing, forced, down, tenant, conn>>

Leave(c) == /\ phase' = [phase EXCEPT ![c] = "idle"]
            /\ tenant' = [tenant EXCEPT ![c] = None] /\ conn' = [conn EXCEPT ![c] = None]

(* The counter without its guard against underflow.                        *)
ReleaseUnguarded(c) ==
  /\ phase[c] = "using" /\ Leave(c)
  /\ inUse' = IF down THEN inUse ELSE [inUse EXCEPT ![tenant[c]] = @ - 1]
  /\ UNCHANGED <<pool, open, owner, flight, shared, removing, forced, pins, down>>

(* ReleaseTenantDB finds the entry by name: after a forced Remove it may   *)
(* be the entry of somebody else's handle.                                 *)
ReleaseTenantDB(c) ==
  /\ phase[c] = "using" /\ Leave(c)
  /\ inUse' = IF down \/ pool[tenant[c]] = None \/ inUse[tenant[c]] = 0
                THEN inUse ELSE [inUse EXCEPT ![tenant[c]] = @ - 1]
  /\ UNCHANGED <<pool, open, owner, flight, shared, removing, forced, pins, down>>

(* A caller that returns without ReleaseTenantDB, as PostStatus does.      *)
Abandon(c) ==
  /\ phase[c] = "using" /\ pins[tenant[c]] < MaxPins /\ Leave(c)
  /\ pins' = [pins EXCEPT ![tenant[c]] = @ + 1]
  /\ UNCHANGED <<handles, flight, shared, removing, forced, down>>

-----------------------------------------------------------------------------
CloseEntry(t) ==
  /\ open' = open \ {pool[t]}
  /\ pool' = [pool EXCEPT ![t] = None] /\ inUse' = [inUse EXCEPT ![t] = 0]
  /\ pins' = [pins EXCEPT ![t] = 0]

EvictIdle(t) ==
  /\ ~down /\ Evictable(t) /\ CloseEntry(t)
  /\ UNCHANGED <<owner, flight, shared, removing, forced, down, local>>

StartRemove(t) ==
  /\ ~down /\ t \notin removing
  /\ removing' = removing \cup {t}
  /\ UNCHANGED <<handles, flight, shared, forced, pins, down, local>>

(* One round of the loop of Remove that ends it.                           *)
RemoveDone(t) ==
  /\ t \in removing /\ removing' = removing \ {t}
  /\ IF pool[t] = None THEN UNCHANGED <<pool, inUse, open, pins>>
                       ELSE inUse[t] = 0 /\ CloseEntry(t)
  /\ UNCHANGED <<owner, flight, shared, forced, down, local>>

(* The 30 seconds are over.                                                *)
RemoveForced(t) ==
  /\ t \in removing /\ pool[t] # None /\ inUse[t] > 0
  /\ removing' = removing \ {t} /\ forced' = forced \cup {t}
  /\ CloseEntry(t)
  /\ UNCHANGED <<owner, flight, shared, down, local>>

Shutdown ==
  /\ ~down /\ down' = TRUE
  /\ open' = open \ {pool[t] : t \in Tenants}
  /\ pool' = [t \in Tenants |-> None] /\ inUse' = [t \in Tenants |-> 0]
  /\ pins' = [t \in Tenants |-> 0] /\ forced' = Tenants
  /\ UNCHANGED <<owner, flight, shared, removing, local>>

-----------------------------------------------------------------------------
ClientStep(c) ==
  \/ \E t \in Tenants : Hit(c, t) \/ Miss(c, t)
  \/ Join(c) \/ InstallLost(c) \/ Install(c) \/ ReleaseTenantDB(c) \/ Abandon(c)

ManagerStep(t) ==
  \/ Opened(t) \/ OpenFailed(t)
  \/ EvictIdle(t) \/ StartRemove(t) \/ RemoveDone(t) \/ RemoveForced(t)

PoolNext ==
  \/ \E c \in Clients : ClientStep(c)
  \/ \E t \in Tenants : ManagerStep(t)
  \/ Shutdown

PoolSpec == PoolInit /\ [][PoolNext]_poolVars

-----------------------------------------------------------------------------
(* Types of every variable.                                                *)
PoolTypeOK ==
  /\ pool \in [Tenants -> Conns \cup {None}] /\ inUse \in [Tenants -> Nat]
  /\ open \subseteq Conns /\ owner \in [Conns -> Tenants \cup {None}]
  /\ flight \in [Tenants -> SUBSET Clients] /\ shared \subseteq Conns
  /\ removing \subseteq Tenants /\ forced \subseteq Tenants
  /\ pins \in [Tenants -> Nat] /\ down \in BOOLEAN
  /\ phase \in [Clients -> {"idle", "miss", "flight", "install", "using"}]
  /\ tenant \in [Clients -> Tenants \cup {None}]
  /\ conn \in [Clients -> Conns \cup {None}]

Users(t) == {c \in Clients : phase[c] = "using" /\ tenant[c] = t}

(* A request runs on the database of its own tenant, whatever openings and *)
(* evictions crossed (acquire: the map and the flights are by name).       *)
Isolation ==
  \A c \in Clients : phase[c] \in {"install", "using"} => owner[conn[c]] = tenant[c]

(* The counter of an entry is the number of its users, and those who will  *)
(* never release it; so release never underflows and eviction never takes  *)
(* a handle in use.  Only closing by force (Remove after 30 seconds,       *)
(* Shutdown) breaks this, because release goes by name.                    *)
CountedUse ==
  \A t \in Tenants \ forced : inUse[t] = Cardinality(Users(t)) + pins[t]

(* A request never works on a closed handle, unless its pool was closed by *)
(* force, or the handle came from a shared opening: then one of those who  *)
(* got it can put it in the map after another one has seen it evicted.     *)
ClosedUseOnlyShared ==
  \A c \in Clients :
    phase[c] = "using" => conn[c] \in open \cup shared \/ tenant[c] \in forced

(* Every open handle is in the map or about to be put there, so that it    *)
(* will be closed, unless it came from a shared opening: when all of those *)
(* who got it find another entry, nobody closes it.                        *)
LeakOnlyShared ==
  \A k \in open \ shared :
    \/ \E t \in Tenants : pool[t] = k
    \/ \E c \in Clients : phase[c] = "install" /\ conn[c] = k
=============================================================================
