------------------------- MODULE ClientCache_proofs -------------------------
(***************************************************************************)
(* GetClient keeps CacheInv, for any number of handlers, connections and    *)
(* keys: the lock is exclusive, and the cache and the handlers agree.       *)
(***************************************************************************)
EXTENDS ClientCache, FiniteSetTheorems, TLAPS

LEMMA CacheInitInv == CacheInit => CacheInv
<1> SUFFICES ASSUME CacheInit PROVE CacheInv
  OBVIOUS
<1>1. NoGet \in Get
  BY DEF NoGet, Get, GetPcs
<1>2. \A h \in Handlers : get[h] = NoGet /\ get[h].pc = "none"
  BY DEF CacheInit, NoGet
<1>3. CacheTypeOK
  BY <1>1 DEF CacheInit, CacheTypeOK
<1>4. Locked
  BY <1>2, NoneAssumption DEF CacheInit, Locked
<1>5. Keyed
  BY <1>2 DEF CacheInit, Keyed
<1>6. OneClient
  BY <1>2 DEF OneClient
<1>7. Counted
  <2>1. {k \in Keys : cache[k] # None} = {}
    BY DEF CacheInit
  <2>2. QED
    BY <2>1, FS_EmptySet DEF CacheInit, Counted
<1>8. QED
  BY <1>3, <1>4, <1>5, <1>6, <1>7 DEF CacheInv

\* What a handler's own steps change of its call of GetClient.
LEMMA GoesFields ==
  ASSUME get \in [Handlers -> Get], NEW h \in Handlers, NEW p \in GetPcs, Goes(h, p)
  PROVE  /\ get' \in [Handlers -> Get]
         /\ get'[h].pc = p /\ get'[h].conn = get[h].conn /\ get'[h].key = get[h].key
         /\ get'[h].client = get[h].client
         /\ \A i \in Handlers : i # h => get'[i] = get[i]
BY DEF Goes, Get

LEMMA GetsFields ==
  ASSUME get \in [Handlers -> Get], NEW h \in Handlers, NEW client \in Clients, Gets(h, client)
  PROVE  /\ get' \in [Handlers -> Get]
         /\ get'[h].pc = "have" /\ get'[h].conn = get[h].conn /\ get'[h].key = get[h].key
         /\ get'[h].client = client
         /\ \A i \in Handlers : i # h => get'[i] = get[i]
<1> DEFINE g == [get[h] EXCEPT !.pc = "have"]
           f == [g EXCEPT !.client = client]
<1>1. f.pc = "have" /\ f.conn = get[h].conn /\ f.key = get[h].key /\ f.client = client
  BY DEF Get
<1>2. g \in Get
  BY DEF Get, GetPcs
<1>3. get' = [get EXCEPT ![h] = f]
  BY DEF Gets
<1> HIDE DEF g
<1>4. f \in Get
  BY <1>2 DEF Get
<1> HIDE DEF f
<1>5. QED
  BY <1>1, <1>3, <1>4

\* The connection of an entry of the cache is that of whoever looks its key up.
LEMMA SameConn ==
  ASSUME CacheInv, NEW h \in Handlers, get[h].pc # "none", cache[get[h].key] # None
  PROVE  /\ cache[get[h].key] \in Clients
         /\ cache[get[h].key].conn = get[h].conn
         /\ get[h].key \in Keys
<1>1. get[h].conn \in Conns /\ get[h].key \in KeysOf[get[h].conn]
  BY DEF CacheInv, Keyed
<1>2. get[h].key \in Keys
  BY <1>1, KeyAssumption
<1>3. cache[get[h].key] \in Clients
  BY <1>2 DEF CacheInv, CacheTypeOK
<1>4. get[h].key \in KeysOf[cache[get[h].key].conn] /\ cache[get[h].key].conn \in Conns
  BY <1>2, <1>3 DEF CacheInv, Keyed, Clients
<1>5. QED
  BY <1>1, <1>2, <1>3, <1>4, KeyAssumption

LEMMA GetClientKeeps ==
  ASSUME CacheInv, NEW h \in Handlers, GetClient(h)
  PROVE  CacheInv' /\ (\A i \in Handlers : i # h => get'[i] = get[i]) /\ get'[h].pc = "rlock"
<1>1. PICK c \in Conns : \E k \in KeysOf[c] :
         get' = [get EXCEPT ![h] = [NoGet EXCEPT !.pc = "rlock", !.conn = c, !.key = k]]
  BY DEF GetClient
<1>a. PICK k \in KeysOf[c] :
         get' = [get EXCEPT ![h] = [NoGet EXCEPT !.pc = "rlock", !.conn = c, !.key = k]]
  BY <1>1
<1> DEFINE g1 == [NoGet EXCEPT !.pc = "rlock"]
           g2 == [g1 EXCEPT !.conn = c]
           g == [g2 EXCEPT !.key = k]
<1>2. k \in Keys
  BY KeyAssumption
<1>3. g.pc = "rlock" /\ g.conn = c /\ g.key = k
  BY DEF NoGet
<1>4. g \in Get /\ g.pc = "rlock" /\ g.conn = c /\ g.key = k
  <2>1. g1 \in Get
    BY DEF Get, GetPcs, NoGet
  <2> HIDE DEF g1
  <2>2. g2 \in Get
    BY <2>1 DEF Get
  <2> HIDE DEF g2
  <2>3. g \in Get
    BY <1>2, <2>2 DEF Get
  <2>4. QED
    BY <1>3, <2>3
<1>b. g = [NoGet EXCEPT !.pc = "rlock", !.conn = c, !.key = k]
  OBVIOUS
<1> HIDE DEF g
<1>5. get \in [Handlers -> Get] /\ get[h].pc = "none"
  BY DEF CacheInv, CacheTypeOK, GetClient
<1>6. /\ get' \in [Handlers -> Get] /\ get'[h] = g
      /\ \A i \in Handlers : i # h => get'[i] = get[i]
  BY <1>a, <1>b, <1>4, <1>5
<1>7. CacheTypeOK'
  BY <1>6 DEF CacheInv, CacheTypeOK, GetClient
<1>8. Locked'
  BY <1>4, <1>5, <1>6 DEF CacheInv, Locked, GetClient
<1>9. Keyed'
  BY <1>4, <1>6 DEF CacheInv, Keyed, GetClient
<1>10. OneClient'
  BY <1>4, <1>6 DEF CacheInv, OneClient, GetClient
<1>11. Counted'
  BY DEF CacheInv, Counted, GetClient
<1>12. QED
  BY <1>4, <1>6, <1>7, <1>8, <1>9, <1>10, <1>11 DEF CacheInv

\* The steps that only take a lock or go on.
LEMMA RLockKeeps ==
  ASSUME CacheInv, NEW h \in Handlers, RLock(h)
  PROVE  CacheInv' /\ (\A i \in Handlers : i # h => get'[i] = get[i]) /\ get'[h].pc = "read"
<1>1. get \in [Handlers -> Get] /\ get[h].pc = "rlock" /\ writer = None
  BY DEF CacheInv, CacheTypeOK, RLock
<1>2. /\ get' \in [Handlers -> Get]
      /\ get'[h].pc = "read" /\ get'[h].conn = get[h].conn /\ get'[h].key = get[h].key
      /\ get'[h].client = get[h].client
      /\ \A i \in Handlers : i # h => get'[i] = get[i]
  BY <1>1, GoesFields DEF RLock, GetPcs
<1>3. CacheTypeOK'
  BY <1>2 DEF CacheInv, CacheTypeOK, RLock
<1>4. Locked'
  BY <1>1, <1>2, NoneAssumption DEF CacheInv, Locked, RLock
<1>5. Keyed'
  BY <1>1, <1>2 DEF CacheInv, Keyed, RLock
<1>6. OneClient'
  BY <1>1, <1>2 DEF CacheInv, OneClient, RLock
<1>7. Counted'
  BY DEF CacheInv, Counted, RLock
<1>8. QED
  BY <1>2, <1>3, <1>4, <1>5, <1>6, <1>7 DEF CacheInv

LEMMA LockKeeps ==
  ASSUME CacheInv, NEW h \in Handlers, Lock(h)
  PROVE  CacheInv' /\ (\A i \in Handlers : i # h => get'[i] = get[i]) /\ get'[h].pc = "recheck"
<1>1. get \in [Handlers -> Get] /\ get[h].pc = "wlock" /\ writer = None /\ readers = {}
  BY DEF CacheInv, CacheTypeOK, Lock
<1>2. /\ get' \in [Handlers -> Get]
      /\ get'[h].pc = "recheck" /\ get'[h].conn = get[h].conn /\ get'[h].key = get[h].key
      /\ get'[h].client = get[h].client
      /\ \A i \in Handlers : i # h => get'[i] = get[i]
  BY <1>1, GoesFields DEF Lock, GetPcs
<1>3. CacheTypeOK'
  BY <1>2 DEF CacheInv, CacheTypeOK, Lock
<1>4. Locked'
  BY <1>1, <1>2, NoneAssumption DEF CacheInv, Locked, Lock
<1>5. Keyed'
  BY <1>1, <1>2 DEF CacheInv, Keyed, Lock
<1>6. OneClient'
  BY <1>1, <1>2 DEF CacheInv, OneClient, Lock
<1>7. Counted'
  BY DEF CacheInv, Counted, Lock
<1>8. QED
  BY <1>2, <1>3, <1>4, <1>5, <1>6, <1>7 DEF CacheInv

\* A step of h that leaves the cache alone and gives h the client it has found, or
\* nothing, and the lock as it should be.
LEMMA LooksKeep ==
  ASSUME CacheInv, NEW h \in Handlers, get[h].pc # "none",
         UNCHANGED <<cache, made>>,
         readers' \subseteq Handlers, writer' \in Handlers \cup {None}, Locked',
         \/ cache[get[h].key] # None /\ Gets(h, cache[get[h].key])
         \/ Goes(h, "wlock")
         \/ cache[get[h].key] = None /\ Goes(h, "build")
         \/ Goes(h, "failed")
  PROVE  CacheInv' /\ (\A i \in Handlers : i # h => get'[i] = get[i]) /\ get'[h].pc # "none"
<1>1. get \in [Handlers -> Get]
  BY DEF CacheInv, CacheTypeOK
<1>2. CASE cache[get[h].key] # None /\ Gets(h, cache[get[h].key])
  <2>1. cache[get[h].key] \in Clients /\ cache[get[h].key].conn = get[h].conn
    BY <1>2, SameConn
  <2>2. /\ get' \in [Handlers -> Get] /\ get'[h].pc = "have" /\ get'[h].conn = get[h].conn
        /\ get'[h].key = get[h].key /\ get'[h].client = cache[get[h].key]
        /\ \A i \in Handlers : i # h => get'[i] = get[i]
    BY <1>1, <1>2, <2>1, GetsFields
  <2>3. CacheTypeOK'
    BY <2>2 DEF CacheInv, CacheTypeOK
  <2>4. Keyed'
    BY <1>2, <2>2 DEF CacheInv, Keyed
  <2>5. OneClient'
    BY <2>1, <2>2 DEF CacheInv, OneClient
  <2>6. Counted'
    BY DEF CacheInv, Counted
  <2>7. QED
    BY <2>2, <2>3, <2>4, <2>5, <2>6 DEF CacheInv
<1>3. ASSUME NEW p \in {"wlock", "build", "failed"}, Goes(h, p),
             p = "build" => cache[get[h].key] = None
      PROVE  CacheInv' /\ (\A i \in Handlers : i # h => get'[i] = get[i]) /\ get'[h].pc # "none"
  <2>1. p \in GetPcs
    BY DEF GetPcs
  <2>2. /\ get' \in [Handlers -> Get] /\ get'[h].pc = p /\ get'[h].conn = get[h].conn
        /\ get'[h].key = get[h].key
        /\ \A i \in Handlers : i # h => get'[i] = get[i]
    BY <1>1, <1>3, <2>1, GoesFields
  <2>3. CacheTypeOK'
    BY <2>2 DEF CacheInv, CacheTypeOK
  <2>4. Keyed'
    BY <1>3, <2>2 DEF CacheInv, Keyed
  <2>5. OneClient'
    BY <2>2 DEF CacheInv, OneClient
  <2>6. Counted'
    BY DEF CacheInv, Counted
  <2>7. QED
    BY <2>2, <2>3, <2>4, <2>5, <2>6 DEF CacheInv
<1>4. QED
  BY <1>2, <1>3

LEMMA LookupKeeps ==
  ASSUME CacheInv, NEW h \in Handlers, Lookup(h)
  PROVE  CacheInv' /\ (\A i \in Handlers : i # h => get'[i] = get[i]) /\ get'[h].pc # "none"
<1>1. /\ get \in [Handlers -> Get] /\ get[h].pc = "read" /\ writer = None
      /\ readers' = readers \ {h} /\ readers \subseteq Handlers
  BY DEF CacheInv, CacheTypeOK, Locked, Lookup
<1>2. \/ cache[get[h].key] # None /\ Gets(h, cache[get[h].key])
      \/ Goes(h, "wlock")
  BY DEF Lookup
<1>3. /\ get'[h].pc \in {"have", "wlock"}
      /\ \A i \in Handlers : i # h => get'[i] = get[i]
  <2>1. CASE cache[get[h].key] # None /\ Gets(h, cache[get[h].key])
    BY <1>1, <2>1, SameConn, GetsFields
  <2>2. CASE Goes(h, "wlock")
    BY <1>1, <2>2, GoesFields DEF GetPcs
  <2>3. QED
    BY <1>2, <2>1, <2>2
<1>4. Locked'
  BY <1>1, <1>3, NoneAssumption DEF CacheInv, Locked, Lookup
<1>5. QED
  BY <1>1, <1>2, <1>4, LooksKeep DEF Lookup

LEMMA DoubleCheckKeeps ==
  ASSUME CacheInv, NEW h \in Handlers, DoubleCheck(h)
  PROVE  CacheInv' /\ (\A i \in Handlers : i # h => get'[i] = get[i]) /\ get'[h].pc # "none"
<1>1. /\ get \in [Handlers -> Get] /\ get[h].pc = "recheck" /\ writer = h /\ readers = {}
      /\ readers' = readers /\ writer' \in Handlers \cup {None}
  BY NoneAssumption DEF CacheInv, CacheTypeOK, Locked, DoubleCheck
<1>2. CASE cache[get[h].key] # None /\ writer' = None /\ Gets(h, cache[get[h].key])
  <2>1. get'[h].pc = "have" /\ \A i \in Handlers : i # h => get'[i] = get[i]
    BY <1>1, <1>2, SameConn, GetsFields
  <2>2. Locked'
    BY <1>1, <1>2, <2>1, NoneAssumption DEF CacheInv, Locked
  <2>3. QED
    BY <1>1, <1>2, <2>2, LooksKeep DEF DoubleCheck
<1>3. CASE cache[get[h].key] = None /\ writer' = writer /\ Goes(h, "build")
  <2>1. get'[h].pc = "build" /\ \A i \in Handlers : i # h => get'[i] = get[i]
    BY <1>1, <1>3, GoesFields DEF GetPcs
  <2>2. Locked'
    BY <1>1, <1>3, <2>1, NoneAssumption DEF CacheInv, Locked
  <2>3. QED
    BY <1>1, <1>3, <2>2, LooksKeep DEF DoubleCheck
<1>4. QED
  BY <1>2, <1>3 DEF DoubleCheck

LEMMA BuildFailsKeeps ==
  ASSUME CacheInv, NEW h \in Handlers, BuildFails(h)
  PROVE  CacheInv' /\ (\A i \in Handlers : i # h => get'[i] = get[i]) /\ get'[h].pc # "none"
<1>1. /\ get \in [Handlers -> Get] /\ get[h].pc = "build" /\ writer = h /\ readers = {}
      /\ readers' = readers /\ writer' = None
  BY NoneAssumption DEF CacheInv, CacheTypeOK, Locked, BuildFails
<1>2. get'[h].pc = "failed" /\ \A i \in Handlers : i # h => get'[i] = get[i]
  BY <1>1, GoesFields DEF GetPcs, BuildFails
<1>3. Locked'
  BY <1>1, <1>2, NoneAssumption DEF CacheInv, Locked
<1>4. QED
  BY <1>1, <1>3, LooksKeep DEF BuildFails

\* The new client is under the key of h, which no other handler has a client for.
LEMMA BuildKeeps ==
  ASSUME CacheInv, NEW h \in Handlers, Build(h)
  PROVE  CacheInv' /\ (\A i \in Handlers : i # h => get'[i] = get[i]) /\ get'[h].pc # "none"
<1> DEFINE k == get[h].key
           client == [conn |-> get[h].conn, n |-> made + 1]
<1>1. /\ get \in [Handlers -> Get] /\ get[h].pc = "build" /\ writer = h /\ readers = {}
      /\ readers' = readers /\ writer' = None /\ cache \in [Keys -> Clients \cup {None}]
      /\ made \in Nat /\ made' = made + 1
  BY NoneAssumption DEF CacheInv, CacheTypeOK, Locked, Build
<1>2. /\ cache' = [cache EXCEPT ![k] = client] /\ Gets(h, client)
  BY DEF Build
<1>3. get[h].conn \in Conns /\ k \in KeysOf[get[h].conn] /\ k \in Keys /\ cache[k] = None
  BY <1>1, KeyAssumption DEF CacheInv, Keyed
<1>4. client \in Clients /\ client # None /\ client.conn = get[h].conn /\ client.n = made + 1
  BY <1>1, <1>3, NoneAssumption DEF Clients
<1> HIDE DEF client
<1>5. /\ get' \in [Handlers -> Get] /\ get'[h].pc = "have" /\ get'[h].conn = get[h].conn
      /\ get'[h].key = k /\ get'[h].client = client
      /\ \A i \in Handlers : i # h => get'[i] = get[i]
  BY <1>1, <1>2, <1>4, GetsFields
<1> HIDE DEF k
<1>6. /\ cache' \in [Keys -> Clients \cup {None}] /\ cache'[k] = client
      /\ \A j \in Keys : j # k => cache'[j] = cache[j]
  BY <1>1, <1>2, <1>3, <1>4
<1>7. CacheTypeOK'
  BY <1>1, <1>5, <1>6 DEF CacheTypeOK
<1>8. Locked'
  BY <1>1, <1>5, NoneAssumption DEF CacheInv, Locked
<1>9. Keyed'
  <2>1. \A i \in Handlers : get'[i].pc # "none" =>
          get'[i].conn \in Conns /\ get'[i].key \in KeysOf[get'[i].conn]
    BY <1>3, <1>5 DEF CacheInv, Keyed
  <2>2. \A j \in Keys : cache'[j] # None => j \in KeysOf[cache'[j].conn]
    BY <1>3, <1>4, <1>6 DEF CacheInv, Keyed
  <2>3. \A i \in Handlers : get'[i].pc # "build"
    BY <1>1, <1>5 DEF CacheInv, Locked
  <2>4. \A i \in Handlers : get'[i].pc = "have" => get'[i].client # None
    BY <1>4, <1>5 DEF CacheInv, Keyed
  <2>5. QED
    BY <2>1, <2>2, <2>3, <2>4 DEF Keyed
<1>10. OneClient'
  <2>1. ASSUME NEW i \in Handlers, i # h, get[i].pc = "have"
        PROVE  get[i].client = cache'[get[i].key] /\ get[i].client.conn = get[i].conn
    <3>1. /\ get[i].client = cache[get[i].key] /\ get[i].client.conn = get[i].conn
          /\ get[i].client # None /\ get[i].key \in Keys
      BY <2>1, KeyAssumption DEF CacheInv, OneClient, Keyed
    <3>2. QED
      BY <1>3, <1>6, <3>1
  <2>2. QED
    BY <1>4, <1>5, <1>6, <2>1 DEF OneClient
<1>11. Counted'
  <2> DEFINE U == {j \in Keys : cache[j] # None}
  <2>1. IsFiniteSet(U) /\ k \notin U
    BY <1>3, KeyAssumption, FS_Subset
  <2>2. {j \in Keys : cache'[j] # None} = U \cup {k}
    BY <1>3, <1>4, <1>6
  <2>3. Cardinality(U \cup {k}) = Cardinality(U) + 1
    BY <2>1, FS_AddElement
  <2>4. made' = Cardinality({j \in Keys : cache'[j] # None})
    BY <1>1, <2>2, <2>3 DEF CacheInv, Counted
  <2>5. \A j \in Keys : cache'[j] # None => cache'[j].n <= made'
    <3>1. \A j \in Keys : cache[j] # None => cache[j] \in Clients /\ cache[j].n \in Nat
      BY <1>1 DEF Clients
    <3>2. QED
      BY <1>1, <1>4, <1>6, <3>1 DEF CacheInv, Counted
  <2>6. QED
    BY <2>4, <2>5 DEF Counted
<1>12. QED
  BY <1>5, <1>7, <1>8, <1>9, <1>10, <1>11 DEF CacheInv

\* Every step of GetClient.
LEMMA CacheStepKeeps ==
  ASSUME CacheInv, NEW h \in Handlers, CacheStep(h)
  PROVE  CacheInv' /\ (\A i \in Handlers : i # h => get'[i] = get[i]) /\ get'[h].pc # "none"
BY RLockKeeps, LookupKeeps, LockKeeps, DoubleCheckKeeps, BuildKeeps, BuildFailsKeeps
DEF CacheStep

\* The handler returns.
LEMMA LeaveKeeps ==
  ASSUME CacheInv, NEW h \in Handlers, get[h].pc \in {"have", "failed"},
         get' = [get EXCEPT ![h] = NoGet], UNCHANGED <<cache, readers, writer, made>>
  PROVE  CacheInv'
<1>1. get \in [Handlers -> Get]
  BY DEF CacheInv, CacheTypeOK
<1>2. /\ get' \in [Handlers -> Get] /\ get'[h].pc = "none"
      /\ \A i \in Handlers : i # h => get'[i] = get[i]
  BY <1>1 DEF NoGet, Get, GetPcs
<1>3. CacheTypeOK'
  BY <1>2 DEF CacheInv, CacheTypeOK
<1>4. Locked'
  BY <1>2 DEF CacheInv, Locked
<1>5. Keyed'
  BY <1>2 DEF CacheInv, Keyed
<1>6. OneClient'
  BY <1>2 DEF CacheInv, OneClient
<1>7. Counted'
  BY DEF CacheInv, Counted
<1>8. QED
  BY <1>3, <1>4, <1>5, <1>6, <1>7 DEF CacheInv

-----------------------------------------------------------------------------
\* The lock is exclusive, so the map is guarded.
LEMMA InvGuarded == CacheInv => MapGuarded
<1> SUFFICES ASSUME CacheInv, NEW h \in Handlers, get[h].pc \in {"recheck", "build"},
                    NEW i \in Handlers \ {h}
             PROVE  get[i].pc \notin {"read", "recheck", "build"}
  BY DEF MapGuarded
<1>1. writer = h /\ readers = {}
  BY NoneAssumption DEF CacheInv, Locked
<1>2. QED
  BY <1>1 DEF CacheInv, Locked

\* A client's number is that of a collector.
LEMMA InvNumbers ==
  ASSUME CacheInv, NEW h \in Handlers, get[h].pc = "have"
  PROVE  get[h].client.n \in 1..Cardinality(Keys)
<1>1. get[h].key \in Keys /\ get[h].client = cache[get[h].key] /\ get[h].client # None
  BY KeyAssumption DEF CacheInv, Keyed, OneClient
<1>2. cache[get[h].key] \in Clients /\ cache[get[h].key].n <= made
  BY <1>1 DEF CacheInv, CacheTypeOK, Counted
<1>3. made <= Cardinality(Keys) /\ made \in Nat /\ Cardinality(Keys) \in Nat
  <2> DEFINE U == {k \in Keys : cache[k] # None}
  <2>1. IsFiniteSet(Keys) /\ U \subseteq Keys
    BY KeyAssumption
  <2>2. Cardinality(U) <= Cardinality(Keys)
    BY <2>1, FS_Subset
  <2>3. QED
    BY <2>1, <2>2, FS_CardinalityType DEF CacheInv, Counted, CacheTypeOK
<1>4. cache[get[h].key].n \in Nat \ {0}
  BY <1>2 DEF Clients
<1>5. QED
  BY <1>1, <1>2, <1>3, <1>4
=============================================================================
