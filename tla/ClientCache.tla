---------------------------- MODULE ClientCache ----------------------------
(***************************************************************************)
(* CachedClientFactory.GetClient: the map of clients all handlers of the    *)
(* provider share, looked up under a read lock and filled under a write     *)
(* lock after a second look.  A client carries the warnings of its          *)
(* requests, so it matters that a connection has one.                       *)
(*                                                                          *)
(* sync.RWMutex is the set of its readers and its writer.  The cache key is *)
(* a hash of the connection's attributes; those of an exec plugin's         *)
(* environment go into it in the random order of a Go map, so a connection  *)
(* may have several keys.                                                   *)
(***************************************************************************)
EXTENDS Naturals, FiniteSets

CONSTANTS
    Handlers,    \* requests of Terraform, served at the same time
    Conns,       \* connections, as the configuration gives them
    Keys,        \* cache keys
    KeysOf,      \* KeysOf[c]: the keys that the hash of c can come to
    BadConns,    \* connections no client can be built from
    None

ASSUME KeyAssumption ==
    /\ IsFiniteSet(Keys)
    /\ KeysOf \in [Conns -> SUBSET Keys]
    /\ \A c, d \in Conns : c # d => KeysOf[c] \cap KeysOf[d] = {}
ASSUME NoneAssumption ==
    None \notin Conns \cup Keys \cup Handlers /\ None \notin [conn : Conns, n : Nat]
ASSUME BadAssumption == BadConns \subseteq Conns

VARIABLES
    cache,    \* f.cache: a client or None for every key
    readers,  \* f.mu: handlers that hold the read lock
    writer,   \* f.mu: the handler that holds the write lock, or None
    made,     \* clients built so far, which tells them apart
    get       \* get[h]: h's call of GetClient, and what it returned

cacheVars == <<cache, readers, writer, made, get>>

Clients == [conn : Conns, n : Nat \ {0}]

\* "rlock", "wlock": waiting for the lock; "read", "recheck", "build": with it.
GetPcs == {"none", "rlock", "read", "wlock", "recheck", "build", "have", "failed"}

Get == [pc : GetPcs, conn : Conns \cup {None}, key : Keys \cup {None},
        client : Clients \cup {None}]

NoGet == [pc |-> "none", conn |-> None, key |-> None, client |-> None]

CacheInit ==
    /\ cache = [k \in Keys |-> None]
    /\ readers = {}
    /\ writer = None
    /\ made = 0
    /\ get = [h \in Handlers |-> NoGet]

Goes(h, p) == get' = [get EXCEPT ![h].pc = p]
Gets(h, client) == get' = [get EXCEPT ![h].pc = "have", ![h].client = client]

\* SetupClient and generateCacheKey.
GetClient(h) ==
    /\ get[h].pc = "none"
    /\ \E c \in Conns : \E k \in KeysOf[c] :
          get' = [get EXCEPT ![h] = [NoGet EXCEPT !.pc = "rlock", !.conn = c, !.key = k]]
    /\ UNCHANGED <<cache, readers, writer, made>>

\* Mutant: the first look takes no lock.
RLockNone(h) ==
    /\ get[h].pc = "rlock"
    /\ readers' = readers \cup {h}
    /\ Goes(h, "read")
    /\ UNCHANGED <<cache, writer, made>>

RLock(h) ==
    /\ get[h].pc = "rlock"
    /\ writer = None
    /\ readers' = readers \cup {h}
    /\ Goes(h, "read")
    /\ UNCHANGED <<cache, writer, made>>

\* The first look, and RUnlock.
Lookup(h) ==
    /\ get[h].pc = "read"
    /\ readers' = readers \ {h}
    /\ IF cache[get[h].key] # None THEN Gets(h, cache[get[h].key]) ELSE Goes(h, "wlock")
    /\ UNCHANGED <<cache, writer, made>>

\* Mutant: no second look.
LockAndBuild(h) ==
    /\ get[h].pc = "wlock"
    /\ writer = None /\ readers = {}
    /\ writer' = h
    /\ Goes(h, "build")
    /\ UNCHANGED <<cache, readers, made>>

Lock(h) ==
    /\ get[h].pc = "wlock"
    /\ writer = None
    /\ readers = {}
    /\ writer' = h
    /\ Goes(h, "recheck")
    /\ UNCHANGED <<cache, readers, made>>

\* The second look: another handler may have built the client meanwhile.
DoubleCheck(h) ==
    /\ get[h].pc = "recheck"
    /\ IF cache[get[h].key] # None
       THEN writer' = None /\ Gets(h, cache[get[h].key])
       ELSE writer' = writer /\ Goes(h, "build")
    /\ UNCHANGED <<cache, readers, made>>

\* CreateRESTConfig and NewDynamicK8sClient, the entry in the map, and Unlock.
Build(h) ==
    /\ get[h].pc = "build"
    /\ get[h].conn \notin BadConns
    /\ LET client == [conn |-> get[h].conn, n |-> made + 1] IN
          /\ cache' = [cache EXCEPT ![get[h].key] = client]
          /\ Gets(h, client)
    /\ made' = made + 1
    /\ writer' = None
    /\ UNCHANGED readers

\* Mutant: who finds no client looks again.
BuildFailsAgain(h) ==
    /\ get[h].pc = "build"
    /\ get[h].conn \in BadConns
    /\ Goes(h, "rlock")
    /\ writer' = None
    /\ UNCHANGED <<cache, readers, made>>

\* The errors of CreateRESTConfig and NewDynamicK8sClient; the defer unlocks.
BuildFails(h) ==
    /\ get[h].pc = "build"
    /\ get[h].conn \in BadConns
    /\ Goes(h, "failed")
    /\ writer' = None
    /\ UNCHANGED <<cache, readers, made>>

CacheStep(h) ==
    RLock(h) \/ Lookup(h) \/ Lock(h) \/ DoubleCheck(h) \/ Build(h) \/ BuildFails(h)

-----------------------------------------------------------------------------
CacheTypeOK ==
    /\ cache \in [Keys -> Clients \cup {None}]
    /\ readers \subseteq Handlers
    /\ writer \in Handlers \cup {None}
    /\ made \in Nat
    /\ get \in [Handlers -> Get]

\* The map is never written while another handler reads or writes it: Go would
\* end the whole provider with "concurrent map read and map write".
MapGuarded ==
    \A h \in Handlers : get[h].pc \in {"recheck", "build"} =>
        \A i \in Handlers \ {h} : get[i].pc \notin {"read", "recheck", "build"}

\* Whoever has a client for a key has the one in the cache, and one for its own
\* connection: handlers that hash a connection alike share a client and its warnings,
\* however their calls of GetClient overlap, and nobody gets another cluster's.
OneClient ==
    \A h \in Handlers : get[h].pc = "have" =>
        /\ get[h].client = cache[get[h].key]
        /\ get[h].client.conn = get[h].conn

-----------------------------------------------------------------------------
(* What makes them inductive.                                               *)

\* Program counters and the lock agree, and it is exclusive.
Locked ==
    /\ \A h \in Handlers : get[h].pc = "read" <=> h \in readers
    /\ \A h \in Handlers : get[h].pc \in {"recheck", "build"} <=> writer = h
    /\ writer # None => readers = {}

\* Handlers and clients are under keys of their connections.
Keyed ==
    /\ \A h \in Handlers : get[h].pc # "none" =>
          get[h].conn \in Conns /\ get[h].key \in KeysOf[get[h].conn]
    /\ \A k \in Keys : cache[k] # None => k \in KeysOf[cache[k].conn]
    /\ \A h \in Handlers : get[h].pc = "build" => cache[get[h].key] = None
    /\ \A h \in Handlers : get[h].pc = "have" => get[h].client # None

\* As many clients as keys in use.
Counted ==
    /\ made = Cardinality({k \in Keys : cache[k] # None})
    /\ \A k \in Keys : cache[k] # None => cache[k].n <= made

CacheInv == CacheTypeOK /\ Locked /\ Keyed /\ OneClient /\ Counted
=============================================================================
