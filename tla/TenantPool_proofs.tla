-------------------------- MODULE TenantPool_proofs --------------------------
(***************************************************************************)
(* Proofs about TenantPool, for every set of tenants, goroutines and       *)
(* handles and for every limit.  The inductive invariant IInv joins the    *)
(* four properties of TenantPool to what they rest on: who waits for a     *)
(* handle, whose a handle is, that a handle nobody shares has one holder,  *)
(* that those who use a tenant use the handle in the map.                  *)
(***************************************************************************)
EXTENDS TenantPool, FiniteSetTheorems, TLAPS

Members ==
  /\ \A c \in Clients : phase[c] # "idle" => tenant[c] \in Tenants
  /\ \A t \in Tenants : \A c \in flight[t] : phase[c] = "flight" /\ tenant[c] = t

Holding(c) == phase[c] \in {"install", "using"}

Owned ==
  /\ \A c \in Clients : Holding(c) => conn[c] \in Conns /\ owner[conn[c]] = tenant[c]
  /\ \A t \in Tenants : pool[t] # None => owner[pool[t]] = t
  /\ \A k \in open \cup shared : owner[k] # None

Solo ==
  \A k \in Conns \ shared : \A c \in Clients :
    phase[c] = "install" /\ conn[c] = k =>
      /\ \A d \in Clients : phase[d] = "install" /\ conn[d] = k => d = c
      /\ \A t \in Tenants : pool[t] # k

Alive ==
  /\ \A t \in Tenants : pool[t] # None => pool[t] \in open \cup shared
  /\ \A c \in Clients : phase[c] = "install" => conn[c] \in open \cup shared

Sharing ==
  \A c \in Clients : phase[c] = "using" /\ tenant[c] \notin forced => conn[c] = pool[tenant[c]]

Empty == /\ \A t \in Tenants : pool[t] = None => inUse[t] = 0
         /\ down => forced = Tenants

IInv == /\ PoolTypeOK /\ Members /\ Owned /\ Solo /\ Alive /\ Sharing /\ Empty
        /\ CountedUse /\ LeakOnlyShared

(* Names that stand for groups of actions or of updates are always expanded. *)
USE DEF AddUse, CloseSpare, ClientStep, ManagerStep, Evictable, CloseEntry, Leave, handles, local

-----------------------------------------------------------------------------
(* The steps, one alternative per action, so that a proof can cite them.   *)
LEMMA Steps ==
  ASSUME PoolNext
  PROVE  \/ \E c \in Clients, t \in Tenants : Hit(c, t) \/ Miss(c, t)
         \/ \E c \in Clients : Join(c) \/ InstallLost(c) \/ Install(c) \/ ReleaseTenantDB(c) \/ Abandon(c)
         \/ \E t \in Tenants : \/ Opened(t) \/ OpenFailed(t) \/ EvictIdle(t)
                               \/ StartRemove(t) \/ RemoveDone(t) \/ RemoveForced(t)
         \/ Shutdown
BY DEF PoolNext

(* Who counts as a user is a finite set; adding or removing one goroutine  *)
(* moves its cardinality by one.                                           *)
LEMMA UsersFinite ==
  ASSUME NEW t PROVE IsFiniteSet(Users(t)) /\ Cardinality(Users(t)) \in Nat
<1>1. Users(t) \subseteq Clients BY DEF Users
<1>2. IsFiniteSet(Users(t)) BY <1>1, PoolAssumption, FS_Subset
<1> QED BY <1>2, FS_CardinalityType

(* An entry with counter 0 that no force touched has no users and no pins. *)
LEMMA NoUsers ==
  ASSUME PoolTypeOK, CountedUse, NEW t \in Tenants \ forced, inUse[t] = 0
  PROVE  Users(t) = {} /\ pins[t] = 0
<1>1. pins[t] \in Nat /\ 0 = Cardinality(Users(t)) + pins[t] BY DEF PoolTypeOK, CountedUse
<1>2. Cardinality(Users(t)) = 0 /\ pins[t] = 0 BY <1>1, UsersFinite
<1> QED BY <1>2, UsersFinite, FS_EmptySet

(* A flight of one goroutine: "shared" is false.                           *)
LEMMA Alone ==
  ASSUME PoolTypeOK, NEW t \in Tenants, ~(Cardinality(flight[t]) > 1),
         NEW c \in flight[t], NEW d \in flight[t]
  PROVE  c = d
<1>1. IsFiniteSet(flight[t]) BY PoolAssumption, FS_Subset DEF PoolTypeOK
<1>2. Cardinality({c, d}) \leq Cardinality(flight[t]) BY <1>1, FS_Subset
<1>3. Cardinality(flight[t]) \in Nat BY <1>1, FS_CardinalityType
<1>4. SUFFICES ASSUME c # d PROVE FALSE OBVIOUS
<1>5. IsFiniteSet({c}) /\ Cardinality({c}) = 1 BY FS_Singleton
<1>6. Cardinality({c} \cup {d}) = 2 BY <1>4, <1>5, FS_AddElement
<1>7. {c} \cup {d} = {c, d} OBVIOUS
<1> QED BY <1>2, <1>3, <1>6, <1>7

-----------------------------------------------------------------------------
LEMMA InitIInv == ASSUME PoolInit PROVE IInv
<1>1. PoolTypeOK BY PoolAssumption DEF PoolInit, PoolTypeOK
<1>2. CountedUse
  <2>1. \A t \in Tenants : Users(t) = {} BY DEF PoolInit, Users
  <2>2. \A t \in Tenants : Cardinality(Users(t)) = 0 BY <2>1, FS_EmptySet
  <2> QED BY <2>2 DEF PoolInit, CountedUse
<1>3. Members /\ Owned /\ Solo /\ Alive /\ Sharing /\ Empty /\ LeakOnlyShared
  BY DEF PoolInit, Members, Owned, Holding, Solo, Alive, Sharing, Empty, LeakOnlyShared
<1> QED BY <1>1, <1>2, <1>3 DEF IInv

LEMMA Decrement ==
  ASSUME NEW f \in [Tenants -> Nat], NEW t \in Tenants, f[t] # 0
  PROVE  [f EXCEPT ![t] = @ - 1] \in [Tenants -> Nat]
<1>1. f[t] \in Nat OBVIOUS
<1>2. f[t] - 1 \in Nat BY <1>1
<1> QED BY <1>2

LEMMA TypeStep == ASSUME IInv, PoolNext PROVE PoolTypeOK'
<1> USE PoolAssumption DEF IInv, PoolTypeOK, Members, Owned, Holding
<1>1. ASSUME NEW c \in Clients, NEW t \in Tenants, Hit(c, t) \/ Miss(c, t) PROVE PoolTypeOK'
  BY <1>1 DEF Hit, Miss
<1>2. ASSUME NEW c \in Clients, Join(c) PROVE PoolTypeOK'
  BY <1>2 DEF Join
<1>3. ASSUME NEW c \in Clients, InstallLost(c) PROVE PoolTypeOK'
  BY <1>3 DEF InstallLost
<1>4. ASSUME NEW c \in Clients, Install(c) PROVE PoolTypeOK'
  BY <1>4 DEF Install
<1>5. ASSUME NEW c \in Clients, ReleaseTenantDB(c) \/ Abandon(c) PROVE PoolTypeOK'
  <2>1. tenant[c] \in Tenants /\ inUse[tenant[c]] \in Nat /\ pins[tenant[c]] \in Nat
    BY <1>5 DEF ReleaseTenantDB, Abandon
  <2>2. CASE ReleaseTenantDB(c)
    <3>1. \/ inUse' = inUse
          \/ inUse[tenant[c]] # 0 /\ inUse' = [inUse EXCEPT ![tenant[c]] = @ - 1]
      BY <2>2, Zenon DEF ReleaseTenantDB
    <3>2. inUse' \in [Tenants -> Nat]
      <4>1. inUse \in [Tenants -> Nat] OBVIOUS
      <4> QED BY <2>1, <3>1, <4>1, Decrement
    <3> QED BY <2>2, <3>2 DEF ReleaseTenantDB
  <2>3. CASE Abandon(c)
    <3>1. pins' \in [Tenants -> Nat] BY <2>1, <2>3 DEF Abandon
    <3> QED BY <2>3, <3>1 DEF Abandon
  <2> QED BY <1>5, <2>2, <2>3
<1>6. ASSUME NEW t \in Tenants, Opened(t) \/ OpenFailed(t) PROVE PoolTypeOK'
  BY <1>6 DEF Opened, OpenFailed
<1>7. ASSUME NEW t \in Tenants, EvictIdle(t) \/ StartRemove(t) \/ RemoveDone(t) \/ RemoveForced(t)
      PROVE PoolTypeOK'
  BY <1>7 DEF EvictIdle, StartRemove, RemoveDone, RemoveForced
<1>8. ASSUME Shutdown PROVE PoolTypeOK'
  BY <1>8 DEF Shutdown
<1> QED BY <1>1, <1>2, <1>3, <1>4, <1>5, <1>6, <1>7, <1>8, Steps

-----------------------------------------------------------------------------
(* Who waits, whose a handle is, and who holds it alone.                   *)
LEMMA HoldersStep == ASSUME IInv, PoolNext PROVE Members' /\ Owned' /\ Solo' /\ Alive'
<1> USE PoolAssumption DEF IInv, PoolTypeOK, Members, Owned, Holding, Solo, Alive
<1> DEFINE P == Members' /\ Owned' /\ Solo' /\ Alive'
<1>1. ASSUME NEW c \in Clients, NEW t \in Tenants, Hit(c, t) PROVE P
  BY <1>1 DEF Hit
<1>2. ASSUME NEW c \in Clients, NEW t \in Tenants, Miss(c, t) PROVE P
  BY <1>2 DEF Miss
<1>3. ASSUME NEW c \in Clients, Join(c) PROVE P
  BY <1>3 DEF Join
<1>4. ASSUME NEW c \in Clients, InstallLost(c) PROVE P
  BY <1>4 DEF InstallLost
<1>5. ASSUME NEW c \in Clients, Install(c) PROVE P
  BY <1>5 DEF Install
<1>6. ASSUME NEW c \in Clients, ReleaseTenantDB(c) PROVE P
  BY <1>6 DEF ReleaseTenantDB
<1>7. ASSUME NEW c \in Clients, Abandon(c) PROVE P
  BY <1>7 DEF Abandon
<1>8. ASSUME NEW t \in Tenants, Opened(t) PROVE P
  BY <1>8, Alone DEF Opened
<1>9. ASSUME NEW t \in Tenants, OpenFailed(t) PROVE P
  BY <1>9 DEF OpenFailed
<1>10. ASSUME NEW t \in Tenants, EvictIdle(t) PROVE P
  BY <1>10 DEF EvictIdle
<1>11. ASSUME NEW t \in Tenants, StartRemove(t) \/ RemoveDone(t) \/ RemoveForced(t) PROVE P
  BY <1>11 DEF StartRemove, RemoveDone, RemoveForced
<1>12. ASSUME Shutdown PROVE P
  BY <1>12 DEF Shutdown
<1> QED BY <1>1, <1>2, <1>3, <1>4, <1>5, <1>6, <1>7, <1>8, <1>9, <1>10, <1>11, <1>12, Steps

-----------------------------------------------------------------------------
(* The counter of a tenant before and after a step in which goroutine c    *)
(* starts or stops to use it, or nobody does.                              *)
LEMMA UserEnters ==
  ASSUME NEW t \in Tenants, NEW c \in Clients, c \notin Users(t),
         Users(t)' = Users(t) \cup {c}
  PROVE  Cardinality(Users(t)') = Cardinality(Users(t)) + 1
BY UsersFinite, FS_AddElement

LEMMA UserLeaves ==
  ASSUME NEW t \in Tenants, NEW c \in Users(t), Users(t)' = Users(t) \ {c}
  PROVE  Cardinality(Users(t)') = Cardinality(Users(t)) - 1 /\ Cardinality(Users(t)) > 0
<1>1. Cardinality(Users(t)') = Cardinality(Users(t)) - 1 BY UsersFinite, FS_RemoveElement
<1>2. Cardinality(Users(t)) # 0 BY UsersFinite, FS_EmptySet
<1> QED BY <1>1, <1>2, UsersFinite

(* Nobody starts or stops: the counter stays, or it was 0 and is reset.    *)
LEMMA IdleCount ==
  ASSUME NEW u \in Tenants \ forced, PoolTypeOK, CountedUse, Users(u)' = Users(u),
         \/ inUse'[u] = inUse[u] /\ pins'[u] = pins[u]
         \/ inUse[u] = 0 /\ inUse'[u] = 0 /\ pins'[u] = 0
  PROVE  inUse'[u] = Cardinality(Users(u)') + pins'[u]
<1>1. CASE inUse'[u] = inUse[u] /\ pins'[u] = pins[u] BY <1>1 DEF CountedUse
<1>2. CASE inUse[u] = 0 /\ inUse'[u] = 0 /\ pins'[u] = 0
  <2>1. Users(u)' = {} BY <1>2, NoUsers
  <2>2. Cardinality(Users(u)') = 0 BY <2>1, FS_EmptySet
  <2> QED BY <1>2, <2>2
<1> QED BY <1>1, <1>2

LEMMA CountStep == ASSUME IInv, PoolNext PROVE CountedUse'
<1> USE DEF IInv
<1> SUFFICES ASSUME NEW u \in Tenants, u \notin forced'
             PROVE  inUse'[u] = Cardinality(Users(u)') + pins'[u]
  BY DEF CountedUse
<1> DEFINE P == inUse'[u] = Cardinality(Users(u)') + pins'[u]
<1>0. u \notin forced /\ inUse[u] \in Nat /\ pins[u] \in Nat
      /\ Cardinality(Users(u)) \in Nat
      /\ inUse[u] = Cardinality(Users(u)) + pins[u]
  <2>1. forced \subseteq forced'
    <3> USE DEF PoolTypeOK
    <3>1. ASSUME NEW c \in Clients, NEW t \in Tenants, Hit(c, t) \/ Miss(c, t)
          PROVE  forced' = forced
      BY <3>1 DEF Hit, Miss
    <3>2. ASSUME NEW c \in Clients,
                 Join(c) \/ InstallLost(c) \/ Install(c) \/ ReleaseTenantDB(c) \/ Abandon(c)
          PROVE  forced' = forced
      BY <3>2 DEF Join, InstallLost, Install, ReleaseTenantDB, Abandon
    <3>3. ASSUME NEW t \in Tenants,
                 \/ Opened(t) \/ OpenFailed(t) \/ EvictIdle(t)
                 \/ StartRemove(t) \/ RemoveDone(t) \/ RemoveForced(t)
          PROVE  forced \subseteq forced'
      BY <3>3 DEF Opened, OpenFailed, EvictIdle, StartRemove, RemoveDone, RemoveForced
    <3>4. ASSUME Shutdown PROVE forced \subseteq forced' BY <3>4 DEF Shutdown
    <3> QED BY <3>1, <3>2, <3>3, <3>4, Steps
  <2> QED BY <2>1, UsersFinite DEF PoolTypeOK, CountedUse
<1>1. ASSUME NEW c \in Clients, NEW t \in Tenants, Hit(c, t) PROVE P
  <2>1. CASE u = t
    <3>1. c \notin Users(u) /\ Users(u)' = Users(u) \cup {c}
      BY <1>1, <2>1 DEF Hit, Users, PoolTypeOK
    <3>2. inUse'[u] = inUse[u] + 1 /\ pins'[u] = pins[u] BY <1>1, <2>1 DEF Hit, PoolTypeOK
    <3>3. Cardinality(Users(u)') = Cardinality(Users(u)) + 1 BY <3>1, UserEnters
    <3> QED BY <1>0, <3>2, <3>3
  <2>2. CASE u # t
    <3>1. Users(u)' = Users(u) BY <1>1, <2>2 DEF Hit, Users, PoolTypeOK
    <3>2. inUse'[u] = inUse[u] /\ pins'[u] = pins[u] BY <1>1, <2>2 DEF Hit, PoolTypeOK
    <3> QED BY <1>0, <3>1, <3>2
  <2> QED BY <2>1, <2>2
<1>2. ASSUME NEW c \in Clients, NEW t \in Tenants, Miss(c, t) \/ Join(c) PROVE P
  <2>1. Users(u)' = Users(u) BY <1>2 DEF Miss, Join, Users, PoolTypeOK
  <2> QED BY <1>0, <1>2, <2>1 DEF Miss, Join
<1>3. ASSUME NEW c \in Clients, InstallLost(c) PROVE P
  <2>1. CASE u = tenant[c]
    <3>1. c \notin Users(u) /\ Users(u)' = Users(u) \cup {c}
      BY <1>3, <2>1 DEF InstallLost, Users, PoolTypeOK
    <3>2. inUse'[u] = inUse[u] + 1 /\ pins'[u] = pins[u] BY <1>3, <2>1 DEF InstallLost, PoolTypeOK
    <3>3. Cardinality(Users(u)') = Cardinality(Users(u)) + 1 BY <3>1, UserEnters
    <3> QED BY <1>0, <3>2, <3>3
  <2>2. CASE u # tenant[c]
    <3>1. Users(u)' = Users(u) BY <1>3, <2>2 DEF InstallLost, Users, PoolTypeOK
    <3>2. inUse'[u] = inUse[u] /\ pins'[u] = pins[u] BY <1>3, <2>2 DEF InstallLost, PoolTypeOK
    <3> QED BY <1>0, <3>1, <3>2
  <2> QED BY <2>1, <2>2
<1>4. ASSUME NEW c \in Clients, Install(c) PROVE P
  <2>0. tenant[c] \in Tenants /\ pool[tenant[c]] = None
    BY <1>4 DEF Install, Members, PoolTypeOK
  <2>1. CASE u = tenant[c]
    <3>1. inUse[u] = 0 BY <2>0, <2>1 DEF Empty
    <3>2. Users(u) = {} /\ pins[u] = 0 BY <1>0, <3>1, NoUsers
    <3>3. Users(u)' = {c} BY <1>4, <2>1, <3>2 DEF Install, Users, PoolTypeOK
    <3>4. Cardinality(Users(u)') = 1 BY <3>3, FS_Singleton
    <3>5. inUse'[u] = 1 /\ pins'[u] = 0 BY <1>4, <2>0, <2>1, <3>2 DEF Install, PoolTypeOK
    <3> QED BY <3>4, <3>5
  <2>2. CASE u # tenant[c]
    <3>1. Users(u)' = Users(u) BY <1>4, <2>2 DEF Install, Users, PoolTypeOK
    <3>2. \/ inUse'[u] = inUse[u] /\ pins'[u] = pins[u]
          \/ inUse[u] = 0 /\ inUse'[u] = 0 /\ pins'[u] = 0
      BY <1>4, <2>0, <2>2 DEF Install, PoolTypeOK
    <3> QED BY <1>0, <3>1, <3>2, IdleCount
  <2> QED BY <2>1, <2>2
<1>5. ASSUME NEW c \in Clients, ReleaseTenantDB(c) PROVE P
  <2>0. tenant[c] \in Tenants /\ phase[c] = "using" /\ ~down
    BY <1>0, <1>5 DEF ReleaseTenantDB, Members, PoolTypeOK, Empty
  <2>1. CASE u = tenant[c]
    <3>1. c \in Users(u) /\ Users(u)' = Users(u) \ {c}
      BY <1>5, <2>0, <2>1 DEF ReleaseTenantDB, Users, PoolTypeOK
    <3>2. /\ Cardinality(Users(u)') = Cardinality(Users(u)) - 1
          /\ Cardinality(Users(u)) > 0
      BY <3>1, UserLeaves
    <3>3. inUse[u] # 0 /\ pool[u] # None BY <1>0, <3>2 DEF Empty
    <3>4. inUse'[u] = inUse[u] - 1 /\ pins'[u] = pins[u]
      BY <1>5, <2>0, <2>1, <3>3 DEF ReleaseTenantDB, PoolTypeOK
    <3> QED BY <1>0, <3>2, <3>4
  <2>2. CASE u # tenant[c]
    <3>1. Users(u)' = Users(u) BY <1>5, <2>2 DEF ReleaseTenantDB, Users, PoolTypeOK
    <3>2. inUse'[u] = inUse[u] /\ pins'[u] = pins[u] BY <1>5, <2>2 DEF ReleaseTenantDB, PoolTypeOK
    <3> QED BY <1>0, <3>1, <3>2
  <2> QED BY <2>1, <2>2
<1>6. ASSUME NEW c \in Clients, Abandon(c) PROVE P
  <2>0. tenant[c] \in Tenants /\ phase[c] = "using" BY <1>6 DEF Abandon, Members, PoolTypeOK
  <2>1. CASE u = tenant[c]
    <3>1. c \in Users(u) /\ Users(u)' = Users(u) \ {c}
      BY <1>6, <2>0, <2>1 DEF Abandon, Users, PoolTypeOK
    <3>2. Cardinality(Users(u)') = Cardinality(Users(u)) - 1 BY <3>1, UserLeaves
    <3>3. inUse'[u] = inUse[u] /\ pins'[u] = pins[u] + 1 BY <1>6, <2>1 DEF Abandon, PoolTypeOK
    <3> QED BY <1>0, <3>2, <3>3
  <2>2. CASE u # tenant[c]
    <3>1. Users(u)' = Users(u) BY <1>6, <2>2 DEF Abandon, Users, PoolTypeOK
    <3>2. inUse'[u] = inUse[u] /\ pins'[u] = pins[u] BY <1>6, <2>2 DEF Abandon, PoolTypeOK
    <3> QED BY <1>0, <3>1, <3>2
  <2> QED BY <2>1, <2>2
<1>7. ASSUME NEW t \in Tenants, Opened(t) \/ OpenFailed(t) PROVE P
  <2>1. Users(u)' = Users(u) BY <1>7 DEF Opened, OpenFailed, Users, Members, PoolTypeOK
  <2> QED BY <1>0, <1>7, <2>1 DEF Opened, OpenFailed
<1>8. ASSUME NEW t \in Tenants, EvictIdle(t) \/ StartRemove(t) \/ RemoveDone(t) PROVE P
  <2>1. Users(u)' = Users(u) BY <1>8 DEF EvictIdle, StartRemove, RemoveDone, Users
  <2>2. \/ inUse'[u] = inUse[u] /\ pins'[u] = pins[u]
        \/ inUse[u] = 0 /\ inUse'[u] = 0 /\ pins'[u] = 0
    BY <1>8 DEF EvictIdle, StartRemove, RemoveDone, PoolTypeOK
  <2> QED BY <1>0, <2>1, <2>2, IdleCount
<1>9. ASSUME NEW t \in Tenants, RemoveForced(t) PROVE P
  <2>1. Users(u)' = Users(u) /\ u # t BY <1>9 DEF RemoveForced, Users
  <2>2. inUse'[u] = inUse[u] /\ pins'[u] = pins[u] BY <1>9, <2>1 DEF RemoveForced, PoolTypeOK
  <2> QED BY <1>0, <2>1, <2>2
<1>10. ASSUME Shutdown PROVE P
  BY <1>10 DEF Shutdown
<1> QED BY <1>1, <1>2, <1>3, <1>4, <1>5, <1>6, <1>7, <1>8, <1>9, <1>10, Steps

-----------------------------------------------------------------------------
(* Those who use a tenant that no force touched use the handle in the map: *)
(* an entry goes away only with counter 0, that is without users.          *)
LEMMA SharingStep == ASSUME IInv, PoolNext PROVE Sharing' /\ Empty'
<1> USE PoolAssumption DEF IInv, PoolTypeOK, Members, Sharing, Empty
<1> DEFINE P == Sharing' /\ Empty'
<1>0. ASSUME NEW t \in Tenants \ forced, inUse[t] = 0, NEW c \in Clients, phase[c] = "using"
      PROVE  tenant[c] # t
  BY <1>0, NoUsers DEF Users
<1>1. ASSUME NEW c \in Clients, NEW t \in Tenants, Hit(c, t) \/ Miss(c, t) PROVE P
  BY <1>1 DEF Hit, Miss
<1>2. ASSUME NEW c \in Clients, Join(c) \/ Abandon(c) PROVE P
  BY <1>2 DEF Join, Abandon
<1>3. ASSUME NEW c \in Clients, InstallLost(c) PROVE P
  BY <1>3 DEF InstallLost
<1>4. ASSUME NEW c \in Clients, Install(c) PROVE P
  <2>1. Empty'
    <3>1. conn[c] # None BY <1>4 DEF Install, Owned, Holding
    <3>2. \A v \in Tenants :
            (pool'[v] = None => pool[v] = None /\ inUse'[v] = inUse[v]) \/ inUse'[v] = 0
      BY <1>4, <3>1 DEF Install
    <3>3. \A v \in Tenants : pool'[v] = None => inUse'[v] = 0 BY <3>2
    <3>4. down' = down /\ forced' = forced BY <1>4 DEF Install
    <3> QED BY <3>3, <3>4
  <2>2. inUse[tenant[c]] = 0 /\ tenant[c] \in Tenants /\ conn' = conn /\ tenant' = tenant
        /\ pool'[tenant[c]] = conn[c]
    BY <1>4 DEF Install
  <2>3. \A t \in Tenants : t # tenant[c] /\ inUse[t] # 0 => pool'[t] = pool[t]
    BY <1>4 DEF Install
  <2>4. ASSUME NEW d \in Clients, phase'[d] = "using", tenant'[d] \notin forced', d # c
        PROVE  conn'[d] = pool'[tenant'[d]]
    <3>1. phase[d] = "using" /\ tenant[d] \in Tenants \ forced BY <1>4, <2>2, <2>4 DEF Install
    <3>2. inUse[tenant[d]] # 0 BY <1>0, <3>1
    <3> QED BY <2>2, <2>3, <3>1, <3>2
  <2> QED BY <2>1, <2>2, <2>4
<1>5. ASSUME NEW c \in Clients, ReleaseTenantDB(c) PROVE P
  <2>1. tenant[c] \in Tenants /\ (pool[tenant[c]] = None => inUse' = inUse)
    BY <1>5, Zenon DEF ReleaseTenantDB
  <2>2. \A t \in Tenants : pool[t] = None => inUse'[t] = 0
    BY <1>5, <2>1 DEF ReleaseTenantDB
  <2> QED BY <1>5, <2>2 DEF ReleaseTenantDB
<1>6. ASSUME NEW t \in Tenants, Opened(t) \/ OpenFailed(t) PROVE P
  BY <1>6 DEF Opened, OpenFailed
<1>7. ASSUME NEW t \in Tenants, EvictIdle(t) \/ StartRemove(t) PROVE P
  BY <1>0, <1>7 DEF EvictIdle, StartRemove
<1>8. ASSUME NEW t \in Tenants, RemoveDone(t) PROVE P
  BY <1>0, <1>8 DEF RemoveDone
<1>9. ASSUME NEW t \in Tenants, RemoveForced(t) PROVE P
  BY <1>9 DEF RemoveForced
<1>10. ASSUME Shutdown PROVE P
  BY <1>10 DEF Shutdown
<1> QED BY <1>1, <1>2, <1>3, <1>4, <1>5, <1>6, <1>7, <1>8, <1>9, <1>10, Steps

LEMMA LeakStep == ASSUME IInv, PoolNext PROVE LeakOnlyShared'
<1> USE PoolAssumption DEF IInv, PoolTypeOK, Members, Owned, Holding, LeakOnlyShared
<1>1. ASSUME NEW c \in Clients, NEW t \in Tenants, Hit(c, t) \/ Miss(c, t)
      PROVE  LeakOnlyShared'
  BY <1>1 DEF Hit, Miss
<1>2. ASSUME NEW c \in Clients, Join(c) \/ ReleaseTenantDB(c) \/ Abandon(c) PROVE LeakOnlyShared'
  BY <1>2 DEF Join, ReleaseTenantDB, Abandon
<1>3. ASSUME NEW c \in Clients, InstallLost(c) PROVE LeakOnlyShared'
  BY <1>3 DEF InstallLost
<1>4. ASSUME NEW c \in Clients, Install(c) PROVE LeakOnlyShared'
  BY <1>4 DEF Install
<1>5. ASSUME NEW t \in Tenants, Opened(t) PROVE LeakOnlyShared'
  BY <1>5 DEF Opened
<1>6. ASSUME NEW t \in Tenants, OpenFailed(t) PROVE LeakOnlyShared'
  BY <1>6 DEF OpenFailed
<1>7. ASSUME NEW t \in Tenants, EvictIdle(t) \/ StartRemove(t) \/ RemoveDone(t) \/ RemoveForced(t)
      PROVE  LeakOnlyShared'
  BY <1>7 DEF EvictIdle, StartRemove, RemoveDone, RemoveForced
<1>8. ASSUME Shutdown PROVE LeakOnlyShared'
  BY <1>8 DEF Shutdown
<1> QED BY <1>1, <1>2, <1>3, <1>4, <1>5, <1>6, <1>7, <1>8, Steps

-----------------------------------------------------------------------------
LEMMA IInvStep == ASSUME IInv, [PoolNext]_poolVars PROVE IInv'
<1>1. CASE PoolNext
  BY <1>1, TypeStep, HoldersStep, SharingStep, CountStep, LeakStep DEF IInv
<1>2. CASE UNCHANGED poolVars
  <2>1. UNCHANGED <<PoolTypeOK, Members, Owned, Solo, Alive>>
    BY <1>2 DEF poolVars, PoolTypeOK, Members, Owned, Holding, Solo, Alive
  <2>2. UNCHANGED <<Sharing, Empty, CountedUse, LeakOnlyShared>>
    BY <1>2 DEF poolVars, Sharing, Empty, CountedUse, Users, LeakOnlyShared
  <2> QED BY <2>1, <2>2 DEF IInv
<1> QED BY <1>1, <1>2

LEMMA Invariance == PoolSpec => []IInv
<1>1. PoolInit => IInv BY InitIInv
<1>2. IInv /\ [PoolNext]_poolVars => IInv' BY IInvStep
<1> QED BY <1>1, <1>2, PTL DEF PoolSpec

LEMMA ClosedUse == ASSUME IInv PROVE ClosedUseOnlyShared
<1> SUFFICES ASSUME NEW c \in Clients, phase[c] = "using", tenant[c] \notin forced
             PROVE  conn[c] \in open \cup shared
  BY DEF ClosedUseOnlyShared
<1>1. conn[c] = pool[tenant[c]] /\ tenant[c] \in Tenants BY DEF IInv, Sharing, Members
<1>2. conn[c] # None BY PoolAssumption DEF IInv, Owned, Holding
<1> QED BY <1>1, <1>2 DEF IInv, Alive

(* The variables keep their types: the counter of an entry in particular   *)
(* never becomes negative (the guard of release against underflow).        *)
THEOREM TypeCorrect == PoolSpec => []PoolTypeOK
BY Invariance, PTL DEF IInv

(* No request ever runs on the database of another tenant, whatever        *)
(* openings, evictions and removals cross its acquire.                     *)
THEOREM TenantIsolation == PoolSpec => []Isolation
<1>1. IInv => Isolation BY DEF IInv, Owned, Holding, Isolation
<1> QED BY <1>1, Invariance, PTL

(* inUse counts exactly the users of a tenant, and those who will never    *)
(* release it, as long as its handle was not closed by force.              *)
THEOREM UseIsCounted == PoolSpec => []CountedUse
BY Invariance, PTL DEF IInv

(* Only a handle that singleflight gave to several goroutines, or one      *)
(* closed by force, can be closed under a request that works on it.        *)
THEOREM NoUseAfterClose == PoolSpec => []ClosedUseOnlyShared
<1>1. IInv => ClosedUseOnlyShared BY ClosedUse
<1> QED BY <1>1, Invariance, PTL

(* Only a handle that singleflight gave to several goroutines can stay     *)
(* open with nobody left to close it.                                      *)
THEOREM NoLeak == PoolSpec => []LeakOnlyShared
BY Invariance, PTL DEF IInv
=============================================================================
