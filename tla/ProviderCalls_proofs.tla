------------------------ MODULE ProviderCalls_proofs ------------------------
(***************************************************************************)
(* The safety properties of ProviderCalls, for any handlers, connections,   *)
(* keys, retries, timeouts and warnings.  The cache and each call keep      *)
(* their own invariants; what links them is that only a handler with a      *)
(* client has a call or warnings.                                           *)
(***************************************************************************)
EXTENDS ProviderCalls, ClientCache_proofs, RetryLoop_proofs

\* A handler's call needs its client.
Linked == \A h \in Handlers : call[h].pc # "idle" => get[h].pc = "have"

IInv ==
    /\ TypeOK
    /\ CacheInv
    /\ \A h \in Handlers : CallInv(call[h])
    /\ Linked
    /\ WarningsHeard

\* No call is the first and the last state of a call.
LEMMA NoCallInv == CallInv(NoCall) /\ NoCall \in Calls /\ NoCall.pc = "idle"
<1>1. NoCall \in Calls
  BY Numbers DEF NoCall, Calls, CallPcs, Results
<1>2. Placed(NoCall)
  BY DEF Placed, NoCall, InAttempt
<1>3. Counts(NoCall)
  BY DEF Counts, NoCall
<1>4. Lasts(NoCall)
  BY DEF Lasts, NoCall, InAttempt
<1>5. Stops(NoCall)
  BY Numbers DEF Stops, NoCall
<1>6. QED
  BY <1>1, <1>2, <1>3, <1>4, <1>5 DEF CallInv, NoCall

LEMMA StartsKeeps ==
  ASSUME NEW c, CallInv(c), c.pc = "idle", NEW op \in Ops
  PROVE  CallInv(Starts(c, op)) /\ Starts(c, op).sent = c.sent
<1> DEFINE c1 == [c EXCEPT !.op = op]
           d == [c1 EXCEPT !.pc = "outer"]
<1>1. /\ c \in Calls /\ c.now = 0 /\ c.sent = 0 /\ c.late = 0 /\ c.outer \in 0..MaxRetries
  BY DEF CallInv, Placed, Calls
<1>2. d = Starts(c, op)
  BY <1>1 DEF Starts, Calls
<1>3. /\ d.pc = "outer" /\ d.op = op /\ d.now = 0 /\ d.sent = 0 /\ d.late = 0
      /\ d.outer = c.outer /\ d.cancelled = c.cancelled
  BY <1>1 DEF Calls
<1>4. c1 \in Calls
  BY <1>1 DEF Calls
<1> HIDE DEF c1
<1>5. d \in Calls
  BY <1>4 DEF Calls, CallPcs
<1> HIDE DEF d
<1>6. PerAttempt(op) \in Nat /\ Discovering(Discoveries(op)) \in Nat
  <2>1. 1 \in 1..Len(Requests[op])
    BY Programs
  <2>2. QED
    BY <2>1, Accounting
<1>7. c.outer * PerAttempt(op) \in Nat
  <2>1. c.outer \in Nat
    BY <1>1, Numbers
  <2>2. QED
    BY <1>6, <2>1
<1>8. Placed(d)
  BY <1>3 DEF Placed, InAttempt
<1>9. Counts(d)
  BY <1>3, <1>7 DEF Counts
<1>10. Lasts(d)
  <2>1. DurationWithin(d)
    BY <1>3, <1>6, Numbers DEF DurationWithin
  <2>2. QED
    BY <1>3, <2>1 DEF Lasts, InAttempt
<1>11. Stops(d)
  BY <1>3, Numbers DEF Stops
<1>12. QED
  BY <1>1, <1>2, <1>3, <1>5, <1>8, <1>9, <1>10, <1>11 DEF CallInv

\* The context of a call is done, or a handler that has returned has none.
LEMMA CancelKeeps ==
  ASSUME NEW c, CallInv(c), NEW b \in BOOLEAN, ~b => c.pc = "idle"
  PROVE  LET d == [c EXCEPT !.cancelled = b] IN
         CallInv(d) /\ d.pc = c.pc /\ d.sent = c.sent
<1> DEFINE d == [c EXCEPT !.cancelled = b]
<1>1. c \in Calls
  BY DEF CallInv
<1>2. /\ d.op = c.op /\ d.at = c.at /\ d.pc = c.pc /\ d.outer = c.outer /\ d.inner = c.inner
      /\ d.now = c.now /\ d.began = c.began /\ d.sent = c.sent /\ d.late = c.late
      /\ d.result = c.result /\ d.cancelled = b
  BY <1>1 DEF Calls
<1>3. d \in Calls
  BY <1>1 DEF Calls
<1> HIDE DEF d
<1>4. Nested(d) = Nested(c) /\ Request(d) = Request(c)
  BY <1>2 DEF Nested, Request
<1>5. Placed(d)
  BY <1>2, <1>4 DEF CallInv, Placed
<1>6. Counts(d)
  BY <1>2 DEF CallInv, Counts
<1>7. Lasts(d)
  BY <1>2, <1>4 DEF CallInv, Lasts, DurationWithin
<1>8. Stops(d)
  <2>1. ~b => c.late = 0
    BY DEF CallInv, Placed
  <2>2. QED
    BY <1>2, <1>4, <2>1 DEF CallInv, Stops
<1>9. QED
  BY <1>2, <1>3, <1>5, <1>6, <1>7, <1>8 DEF CallInv, d

-----------------------------------------------------------------------------
\* Nobody has anything at first.
LEMMA InitInv == Init => IInv
<1> SUFFICES ASSUME Init PROVE IInv
  OBVIOUS
<1>1. CacheInv
  BY CacheInitInv DEF Init
<1>2. \A h \in Handlers : call[h] = NoCall
  BY DEF Init
<1>3. TypeOK
  BY <1>1, NoCallInv DEF Init, TypeOK, CacheInv
<1>4. Linked
  BY <1>2, NoCallInv DEF Linked
<1>5. WarningsHeard
  BY DEF Init, WarningsHeard
<1>6. QED
  BY <1>1, <1>2, <1>3, <1>4, <1>5, NoCallInv DEF IInv

\* Steps of GetClient: the handler has no call yet, and no warnings.
LEMMA GettingKeeps ==
  ASSUME IInv, NEW h \in Handlers, CacheInv', get[h].pc # "have",
         \A i \in Handlers : i # h => get'[i] = get[i],
         UNCHANGED <<call, collected>>,
         unheard' = unheard \/ unheard' = [unheard EXCEPT ![h] = {}]
  PROVE  IInv'
<1>1. call[h].pc = "idle" /\ unheard[h] = {}
  BY DEF IInv, Linked, WarningsHeard
<1>2. unheard' \in [Handlers -> SUBSET Warnings] /\ \A i \in Handlers : unheard'[i] = unheard[i]
  BY <1>1 DEF IInv, TypeOK
<1>3. TypeOK'
  BY <1>2 DEF IInv, TypeOK, CacheInv
<1>4. Linked'
  BY <1>1 DEF IInv, Linked
<1>5. WarningsHeard'
  <2>1. \A i \in Handlers : i # h => Mine(i)' = Mine(i)
    BY DEF Mine
  <2>2. ASSUME NEW i \in Handlers, i # h
        PROVE  unheard'[i] \subseteq IF get'[i].pc = "have" THEN collected'[Mine(i)'] ELSE {}
    BY <1>2, <2>1, <2>2 DEF IInv, WarningsHeard
  <2>3. unheard'[h] = {}
    BY <1>1, <1>2
  <2>4. QED
    BY <2>2, <2>3 DEF WarningsHeard
<1>6. QED
  BY <1>3, <1>4, <1>5 DEF IInv

LEMMA ArrivesKeeps == ASSUME IInv, NEW h \in Handlers, Arrives(h) PROVE IInv'
<1>1. CacheInv' /\ (\A i \in Handlers : i # h => get'[i] = get[i]) /\ get[h].pc # "have"
  BY GetClientKeeps DEF Arrives, IInv, GetClient
<1>2. QED
  BY <1>1, GettingKeeps DEF Arrives

LEMMA GetsClientKeeps == ASSUME IInv, NEW h \in Handlers, GetsClient(h) PROVE IInv'
<1>1. CacheInv' /\ (\A i \in Handlers : i # h => get'[i] = get[i])
  BY CacheStepKeeps DEF GetsClient, IInv
<1>2. get[h].pc # "have"
  BY DEF GetsClient, CacheStep, RLock, Lookup, Lock, DoubleCheck, Build, BuildFails
<1>3. QED
  BY <1>1, <1>2, GettingKeeps DEF GetsClient

\* Steps that leave the cache alone.
LEMMA SameCache == ASSUME CacheInv, UNCHANGED cacheVars PROVE CacheInv'
BY DEF cacheVars, CacheInv, CacheTypeOK, Locked, Keyed, OneClient, Counted

LEMMA CallsServerKeeps == ASSUME IInv, NEW h \in Handlers, CallsServer(h) PROVE IInv'
<1>1. PICK op \in OpsOf[h] : call' = [call EXCEPT ![h] = Starts(call[h], op)]
  BY DEF CallsServer
<1>2. op \in Ops
  BY HandlerAssumption
<1>3. /\ call \in [Handlers -> Calls] /\ CallInv(call[h]) /\ call[h].pc = "idle"
      /\ get[h].pc = "have" /\ get' = get /\ collected' = collected /\ unheard' = unheard
  BY DEF IInv, TypeOK, CallsServer, cacheVars
<1>4. CallInv(Starts(call[h], op))
  BY <1>2, <1>3, StartsKeeps
<1>5. /\ call' \in [Handlers -> Calls] /\ call'[h] = Starts(call[h], op)
      /\ \A i \in Handlers : i # h => call'[i] = call[i]
  BY <1>1, <1>3, <1>4 DEF CallInv
<1>6. CacheInv'
  BY SameCache DEF IInv, CallsServer
<1>7. TypeOK'
  BY <1>3, <1>5, <1>6 DEF IInv, TypeOK, CacheInv
<1>8. Linked'
  BY <1>3, <1>5 DEF IInv, Linked
<1>9. WarningsHeard'
  BY <1>3 DEF IInv, WarningsHeard, Mine
<1>10. QED
  BY <1>4, <1>5, <1>6, <1>7, <1>8, <1>9 DEF IInv

\* What a step of withRetry adds to the collector it also adds to what h has heard.
LEMMA WorksKeeps ==
  ASSUME IInv, NEW h \in Handlers, Works(h)
  PROVE  /\ IInv'
         /\ call[h].cancelled => call'[h].sent = call[h].sent
         /\ \A i \in Handlers : i # h => call'[i] = call[i]
<1>1. PICK c \in Continuations(call[h]) : call' = [call EXCEPT ![h] = c]
  BY DEF Works
<1>2. /\ call \in [Handlers -> Calls] /\ CallInv(call[h]) /\ get' = get
  BY DEF IInv, TypeOK, Works, cacheVars
<1>3. Kept(call[h], c)
  BY <1>2, StepKeeps
<1>4. /\ call' \in [Handlers -> Calls] /\ call'[h] = c
      /\ \A i \in Handlers : i # h => call'[i] = call[i]
  BY <1>1, <1>2, <1>3 DEF Kept, CallInv
<1>5. call[h].pc # "idle"
  BY <1>1 DEF Continuations
<1>6. get[h].pc = "have"
  BY <1>5 DEF IInv, Linked
<1>7. CacheInv'
  BY SameCache DEF IInv, Works
<1>8. Linked'
  BY <1>2, <1>4, <1>6 DEF IInv, Linked
<1> DEFINE n == Mine(h)
<1>9. PICK w \in SUBSET Warnings :
         /\ collected' = [collected EXCEPT ![n] = @ \cup w]
         /\ unheard' = [unheard EXCEPT ![h] = @ \cup w]
  <2>1. CASE call[h].pc = "flight" /\ Request(call[h]) = "call"
    BY <2>1 DEF Works, Warned
  <2>2. CASE ~(call[h].pc = "flight" /\ Request(call[h]) = "call")
    <3>1. collected' = collected /\ unheard' = unheard
      BY <2>2 DEF Works
    <3>2. /\ collected' = [collected EXCEPT ![n] = @ \cup {}]
          /\ unheard' = [unheard EXCEPT ![h] = @ \cup {}]
      BY <3>1 DEF IInv, TypeOK
    <3>3. QED
      BY <3>2
  <2>3. QED
    BY <2>1, <2>2
<1>10. n \in 1..Cardinality(Keys)
  BY <1>6, InvNumbers DEF IInv, Mine
<1>11. /\ collected \in [1..Cardinality(Keys) -> SUBSET Warnings]
       /\ unheard \in [Handlers -> SUBSET Warnings]
  BY DEF IInv, TypeOK
<1>12. \A i \in Handlers : Mine(i)' = Mine(i)
  BY <1>2 DEF Mine
<1> HIDE DEF n
<1>13. /\ collected' \in [1..Cardinality(Keys) -> SUBSET Warnings]
       /\ unheard' \in [Handlers -> SUBSET Warnings]
  BY <1>9, <1>10, <1>11
<1>14. TypeOK'
  BY <1>4, <1>7, <1>13 DEF TypeOK, CacheInv
<1>15. WarningsHeard'
  <2>1. collected'[n] = collected[n] \cup w /\ unheard'[h] = unheard[h] \cup w
    BY <1>9, <1>10, <1>11
  <2>2. unheard[h] \subseteq collected[n]
    BY <1>6 DEF IInv, WarningsHeard, n
  <2>3. unheard'[h] \subseteq collected'[n]
    BY <2>1, <2>2
  <2>4. ASSUME NEW i \in Handlers, i # h
        PROVE  unheard'[i] \subseteq IF get'[i].pc = "have" THEN collected'[Mine(i)'] ELSE {}
    <3>1. unheard'[i] = unheard[i]
      BY <1>9, <1>11, <2>4
    <3>2. CASE get[i].pc = "have"
      <4> DEFINE m == Mine(i)
      <4>1. unheard[i] \subseteq collected[m] /\ m \in 1..Cardinality(Keys)
        BY <3>2, InvNumbers DEF IInv, WarningsHeard, Mine
      <4>2. Mine(i)' = m
        BY <1>12
      <4> HIDE DEF m
      <4>3. collected[m] \subseteq collected'[m]
        BY <1>9, <1>10, <1>11, <4>1
      <4>4. QED
        BY <1>2, <3>1, <3>2, <4>1, <4>2, <4>3
    <3>3. CASE get[i].pc # "have"
      BY <1>2, <3>1, <3>3 DEF IInv, WarningsHeard
    <3>4. QED
      BY <3>2, <3>3
  <2>5. QED
    BY <1>2, <1>6, <1>12, <2>3, <2>4 DEF WarningsHeard, n
<1>16. QED
  BY <1>3, <1>4, <1>7, <1>8, <1>14, <1>15 DEF IInv, Kept

LEMMA CancelsKeeps ==
  ASSUME IInv, Cancel
  PROVE  IInv' /\ \A h \in Handlers : call'[h].sent = call[h].sent
<1>1. /\ call' = [h \in Handlers |-> [call[h] EXCEPT !.cancelled = get[h].pc # "none"]]
      /\ get' = get /\ collected' = collected /\ unheard' = unheard
  BY DEF Cancel, cacheVars
<1>2. ASSUME NEW h \in Handlers
      PROVE  CallInv(call'[h]) /\ call'[h].pc = call[h].pc /\ call'[h].sent = call[h].sent
  <2> DEFINE b == get[h].pc # "none"
  <2>1. b \in BOOLEAN /\ (~b => call[h].pc = "idle") /\ CallInv(call[h])
    BY DEF IInv, Linked
  <2>2. call'[h] = [call[h] EXCEPT !.cancelled = b]
    BY <1>1
  <2> HIDE DEF b
  <2>3. QED
    BY <2>1, <2>2, CancelKeeps
<1>3. call' \in [Handlers -> Calls]
  <2>1. \A h \in Handlers : call'[h] \in Calls
    BY <1>2 DEF CallInv
  <2>2. QED
    BY <1>1, <2>1
<1>4. CacheInv'
  BY SameCache DEF IInv, Cancel
<1>5. TypeOK'
  BY <1>1, <1>3, <1>4 DEF IInv, TypeOK, CacheInv
<1>6. Linked'
  BY <1>1, <1>2 DEF IInv, Linked
<1>7. WarningsHeard'
  BY <1>1 DEF IInv, WarningsHeard, Mine
<1>8. QED
  BY <1>2, <1>4, <1>5, <1>6, <1>7 DEF IInv

\* A handler that returns, with or without diagnostics.
LEMMA LeavingKeeps ==
  ASSUME IInv, NEW h \in Handlers, get[h].pc \in {"have", "failed"},
         get' = [get EXCEPT ![h] = NoGet], UNCHANGED <<cache, readers, writer, made>>,
         call' = [call EXCEPT ![h] = NoCall],
         collected' \in [1..Cardinality(Keys) -> SUBSET Warnings],
         unheard' \in [Handlers -> SUBSET Warnings],
         WarningsHeard'
  PROVE  /\ IInv' /\ ~call'[h].cancelled
         /\ \A i \in Handlers : i # h => call'[i] = call[i]
<1>1. CacheInv'
  BY LeaveKeeps DEF IInv
<1>2. call \in [Handlers -> Calls] /\ get \in [Handlers -> Get]
  BY DEF IInv, TypeOK, CacheInv, CacheTypeOK
<1>3. /\ call' \in [Handlers -> Calls] /\ call'[h] = NoCall
      /\ \A i \in Handlers : i # h => call'[i] = call[i] /\ get'[i] = get[i]
  BY <1>2, NoCallInv
<1>4. TypeOK'
  BY <1>1, <1>3 DEF TypeOK, CacheInv
<1>5. Linked'
  BY <1>3, NoCallInv DEF IInv, Linked
<1>6. ~call'[h].cancelled
  BY <1>3 DEF NoCall
<1>7. QED
  BY <1>1, <1>3, <1>4, <1>5, <1>6, NoCallInv DEF IInv

LEMMA SurfacesKeeps ==
  ASSUME IInv, NEW h \in Handlers, Surfaces(h)
  PROVE  /\ IInv' /\ ~call'[h].cancelled
         /\ \A i \in Handlers : i # h => call'[i] = call[i]
<1>1. /\ get[h].pc = "have" /\ get \in [Handlers -> Get]
      /\ collected \in [1..Cardinality(Keys) -> SUBSET Warnings]
      /\ unheard \in [Handlers -> SUBSET Warnings]
      /\ get' = [get EXCEPT ![h] = NoGet]
  BY DEF IInv, Linked, TypeOK, CacheInv, CacheTypeOK, Surfaces
<1> DEFINE n == Mine(h)
<1>2. n \in 1..Cardinality(Keys)
  BY <1>1, InvNumbers DEF IInv, Mine
<1>3. /\ collected' = [collected EXCEPT ![n] = {}]
      /\ unheard' = [i \in Handlers |-> IF get[i].pc = "have" /\ Mine(i) = n
                                        THEN unheard[i] \ collected[n] ELSE unheard[i]]
  BY DEF Surfaces
<1> HIDE DEF n
<1>4. /\ collected' \in [1..Cardinality(Keys) -> SUBSET Warnings]
      /\ unheard' \in [Handlers -> SUBSET Warnings]
  BY <1>1, <1>2, <1>3
<1>5. ASSUME NEW i \in Handlers
      PROVE  unheard'[i] \subseteq IF get'[i].pc = "have" THEN collected'[Mine(i)'] ELSE {}
  <2>1. CASE get[i].pc = "have" /\ Mine(i) = n
    <3>1. unheard[i] \subseteq collected[n]
      BY <2>1 DEF IInv, WarningsHeard
    <3>2. unheard'[i] = {}
      BY <1>3, <2>1, <3>1
    <3>3. QED
      BY <3>2
  <2>2. CASE get[i].pc = "have" /\ Mine(i) # n
    <3>1. i # h
      BY <2>2 DEF n
    <3>2. get'[i] = get[i]
      BY <1>1, <3>1
    <3>3. Mine(i)' = Mine(i) /\ get'[i].pc = "have"
      BY <2>2, <3>2 DEF Mine
    <3>4. unheard[i] \subseteq collected[Mine(i)] /\ Mine(i) \in 1..Cardinality(Keys)
      BY <2>2, InvNumbers DEF IInv, WarningsHeard, Mine
    <3>5. unheard'[i] = unheard[i] /\ collected'[Mine(i)] = collected[Mine(i)]
      BY <1>1, <1>3, <2>2, <3>4
    <3>6. QED
      BY <3>3, <3>4, <3>5
  <2>3. CASE get[i].pc # "have"
    <3>1. unheard'[i] = {}
      BY <1>3, <2>3 DEF IInv, WarningsHeard
    <3>2. QED
      BY <3>1
  <2>4. QED
    BY <2>1, <2>2, <2>3
<1>6. WarningsHeard'
  BY <1>5 DEF WarningsHeard
<1>7. QED
  BY <1>1, <1>4, <1>6, LeavingKeeps DEF Surfaces

LEMMA ReturnsKeeps ==
  ASSUME IInv, NEW h \in Handlers, Returns(h)
  PROVE  /\ IInv' /\ ~call'[h].cancelled
         /\ \A i \in Handlers : i # h => call'[i] = call[i]
<1>1. /\ get[h].pc \in {"have", "failed"} /\ get \in [Handlers -> Get]
      /\ collected \in [1..Cardinality(Keys) -> SUBSET Warnings]
      /\ unheard \in [Handlers -> SUBSET Warnings]
      /\ get' = [get EXCEPT ![h] = NoGet] /\ collected' = collected
      /\ unheard' = [unheard EXCEPT ![h] = {}]
  BY DEF IInv, Linked, TypeOK, CacheInv, CacheTypeOK, Returns
<1>2. unheard' \in [Handlers -> SUBSET Warnings] /\ unheard'[h] = {}
  BY <1>1
<1>3. ASSUME NEW i \in Handlers, i # h
      PROVE  unheard'[i] \subseteq IF get'[i].pc = "have" THEN collected'[Mine(i)'] ELSE {}
  <2>1. get'[i] = get[i] /\ unheard'[i] = unheard[i]
    BY <1>1, <1>3
  <2>2. Mine(i)' = Mine(i)
    BY <2>1 DEF Mine
  <2>3. QED
    BY <1>1, <2>1, <2>2 DEF IInv, WarningsHeard
<1>4. WarningsHeard'
  BY <1>2, <1>3 DEF WarningsHeard
<1>5. QED
  BY <1>1, <1>2, <1>4, LeavingKeeps DEF Returns

-----------------------------------------------------------------------------
\* One step per action; a call whose context stays done sends nothing.
LEMMA NextInv ==
  ASSUME IInv, [Next]_vars
  PROVE  /\ IInv'
         /\ \A h \in Handlers :
               call[h].cancelled /\ call'[h].cancelled => call'[h].sent = call[h].sent
<1>1. CASE Cancel
  BY <1>1, CancelsKeeps
<1>2. ASSUME NEW h \in Handlers, Arrives(h) PROVE IInv' /\ call' = call
  BY <1>2, ArrivesKeeps DEF Arrives
<1>3. ASSUME NEW h \in Handlers, GetsClient(h) PROVE IInv' /\ call' = call
  BY <1>3, GetsClientKeeps DEF GetsClient
<1>4. ASSUME NEW h \in Handlers, CallsServer(h)
      PROVE  IInv' /\ \A i \in Handlers : call'[i].sent = call[i].sent
  <2>1. PICK op \in OpsOf[h] : call' = [call EXCEPT ![h] = Starts(call[h], op)]
    BY <1>4 DEF CallsServer
  <2>2. /\ op \in Ops /\ CallInv(call[h]) /\ call[h].pc = "idle"
        /\ call \in [Handlers -> Calls]
    BY <1>4, HandlerAssumption DEF IInv, TypeOK, CallsServer
  <2>3. Starts(call[h], op).sent = call[h].sent
    BY <2>2, StartsKeeps
  <2>4. QED
    BY <1>4, <2>1, <2>2, <2>3, CallsServerKeeps
<1>5. ASSUME NEW h \in Handlers, Works(h)
      PROVE  IInv' /\ \A i \in Handlers : call[i].cancelled => call'[i].sent = call[i].sent
  BY <1>5, WorksKeeps
<1>6. ASSUME NEW h \in Handlers, Surfaces(h) \/ Returns(h)
      PROVE  IInv' /\ \A i \in Handlers : call'[i].cancelled => call'[i].sent = call[i].sent
  BY <1>6, SurfacesKeeps, ReturnsKeeps
<1>7. CASE UNCHANGED vars
  <2>1. UNCHANGED cacheVars /\ UNCHANGED <<call, collected, unheard>> /\ get' = get
    BY <1>7 DEF vars, cacheVars
  <2>2. CacheInv'
    BY <2>1, SameCache DEF IInv
  <2>3. TypeOK'
    BY <2>1, <2>2 DEF IInv, TypeOK, CacheInv
  <2>4. Linked' /\ WarningsHeard'
    BY <2>1 DEF IInv, Linked, WarningsHeard, Mine
  <2>5. QED
    BY <2>1, <2>2, <2>3, <2>4 DEF IInv
<1>8. QED
  BY <1>1, <1>2, <1>3, <1>4, <1>5, <1>6, <1>7 DEF Next, HandlerStep

LEMMA Inductive == Spec => []IInv
<1>1. IInv /\ [Next]_vars => IInv'
  BY NextInv
<1>2. QED
  BY InitInv, <1>1, PTL DEF Spec

\* The types of ProviderCalls, ClientCache and RetryLoop.
THEOREM TypeCorrect == Spec => []TypeOK
<1>1. IInv => TypeOK
  BY DEF IInv
<1>2. QED
  BY <1>1, Inductive, PTL

\* GetClient never writes the map while another handler has it (factory.go:36-50).
THEOREM MapIsGuarded == Spec => []MapGuarded
<1>1. IInv => MapGuarded
  BY InvGuarded DEF IInv
<1>2. QED
  BY <1>1, Inductive, PTL

\* Handlers that hash a connection alike share the one client of the cache, that of
\* their connection (factory.go:35-69).
THEOREM ClientIsShared == Spec => []OneClient
<1>1. IInv => OneClient
  BY DEF IInv, CacheInv
<1>2. QED
  BY <1>1, Inductive, PTL

\* Requests of a call, whatever fails, are at most those of the nested loops
\* (retry.go:64-142, client.go:206).
THEOREM RequestsAreBounded == Spec => []RequestsBounded
<1>1. IInv => RequestsBounded
  BY InvBounds DEF IInv, RequestsBounded
<1>2. QED
  BY <1>1, Inductive, PTL

\* A call's time is bounded by those of the loops it runs (retry.go:71).
THEOREM DurationIsBounded == Spec => []DurationBounded
<1>1. IInv => DurationBounded
  BY InvBounds DEF IInv, DurationBounded
<1>2. QED
  BY <1>1, Inductive, PTL

\* Only a discovery request under way outlives the context (client.go:138, :175, :325).
THEOREM CancelIsPrompt == Spec => []CancelPrompt
<1>1. IInv => CancelPrompt
  BY DEF IInv, CallInv, Stops, CancelPrompt
<1>2. QED
  BY <1>1, Inductive, PTL

\* A call whose context is done sends no request (retry.go:76-80, :126-133).
THEOREM CancelledSendsNothing == Spec => CancelSendsNothing
<1>1. IInv /\ [Next]_vars =>
        [\A h \in Handlers : call[h].cancelled /\ call'[h].cancelled =>
            call'[h].sent = call[h].sent]_vars
  BY NextInv
<1>2. QED
  BY <1>1, Inductive, PTL DEF Spec, CancelSendsNothing

\* No warning is lost between the collector and the diagnostics, however many handlers
\* share the collector (warnings.go:38-49, warnings_helpers.go:11).
THEOREM WarningsAreHeard == Spec => []WarningsHeard
<1>1. IInv => WarningsHeard
  BY DEF IInv
<1>2. QED
  BY <1>1, Inductive, PTL
=============================================================================
