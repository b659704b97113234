--------------------------- MODULE ProviderCalls ---------------------------
(***************************************************************************)
(* A request of Terraform, whatever its resource: it gets a client from the *)
(* cache, makes a call with retries, and, for most handlers, turns the      *)
(* warnings of the API server into diagnostics.  The collector of warnings  *)
(* belongs to the client, so all handlers of a connection share it.         *)
(***************************************************************************)
EXTENDS ClientCache, RetryLoop

CONSTANTS
    Warnings,   \* texts of warnings
    OpsOf,      \* OpsOf[h]: the calls h may make, a subset of Ops
    Silent      \* handlers of k8sconnect_wait and Delete of an object: they surface none

ASSUME HandlerAssumption == Silent \subseteq Handlers /\ OpsOf \in [Handlers -> SUBSET Ops]

VARIABLES
    call,       \* call[h]: the call h makes with its client
    collected,  \* WarningCollector.warnings of every client built
    unheard     \* history: warnings of h's requests that are in no diagnostics

vars == <<cacheVars, call, collected, unheard>>

TypeOK ==
    /\ CacheTypeOK
    /\ call \in [Handlers -> Calls]
    /\ collected \in [1..Cardinality(Keys) -> SUBSET Warnings]
    /\ unheard \in [Handlers -> SUBSET Warnings]

Init ==
    /\ CacheInit
    /\ call = [h \in Handlers |-> NoCall]
    /\ collected = [n \in 1..Cardinality(Keys) |-> {}]
    /\ unheard = [h \in Handlers |-> {}]

\* The collector of h's client.
Mine(h) == get[h].client.n

-----------------------------------------------------------------------------
Arrives(h) ==
    /\ GetClient(h)
    /\ unheard' = [unheard EXCEPT ![h] = {}]
    /\ UNCHANGED <<call, collected>>

GetsClient(h) ==
    /\ CacheStep(h)
    /\ UNCHANGED <<call, collected, unheard>>

CallsServer(h) ==
    /\ get[h].pc = "have"
    /\ call[h].pc = "idle"
    /\ \E op \in OpsOf[h] : call' = [call EXCEPT ![h] = Starts(@, op)]
    /\ UNCHANGED <<cacheVars, collected, unheard>>

\* HandleWarningHeader: what the answer of a request brings.
Warned(h, w) ==
    /\ collected' = [collected EXCEPT ![Mine(h)] = @ \cup w]
    /\ unheard' = [unheard EXCEPT ![h] = @ \cup w]

Works(h) ==
    /\ \E c \in Continuations(call[h]) : call' = [call EXCEPT ![h] = c]
    /\ IF call[h].pc = "flight" /\ Request(call[h]) = "call"
       THEN \E w \in SUBSET Warnings : Warned(h, w)
       ELSE UNCHANGED <<collected, unheard>>
    /\ UNCHANGED cacheVars

\* Terraform is interrupted: the contexts of all requests in progress are done.
Cancel ==
    /\ \E h \in Handlers : get[h].pc # "none" /\ ~call[h].cancelled
    /\ call' = [h \in Handlers |-> [call[h] EXCEPT !.cancelled = get[h].pc # "none"]]
    /\ UNCHANGED <<cacheVars, collected, unheard>>

\* Mutant: the slice is cleared before it is copied.
SurfacesCleared(h) ==
    /\ call[h].pc = "done" /\ call[h].result = "ok" /\ h \notin Silent
    /\ collected' = [collected EXCEPT ![Mine(h)] = {}]
    /\ call' = [call EXCEPT ![h] = NoCall]
    /\ get' = [get EXCEPT ![h] = NoGet]
    /\ UNCHANGED <<cache, readers, writer, made, unheard>>

\* SurfaceK8sWarnings takes all the collector has, whoever caused it.
Surfaces(h) ==
    /\ call[h].pc = "done"
    /\ call[h].result = "ok"
    /\ h \notin Silent
    /\ collected' = [collected EXCEPT ![Mine(h)] = {}]
    /\ unheard' = [i \in Handlers |-> IF get[i].pc = "have" /\ Mine(i) = Mine(h)
                                      THEN unheard[i] \ collected[Mine(h)] ELSE unheard[i]]
    /\ call' = [call EXCEPT ![h] = NoCall]
    /\ get' = [get EXCEPT ![h] = NoGet]
    /\ UNCHANGED <<cache, readers, writer, made>>

\* An error, or a handler that surfaces nothing.
Returns(h) ==
    /\ \/ get[h].pc = "failed"
       \/ call[h].pc = "done" /\ (call[h].result # "ok" \/ h \in Silent)
    /\ call' = [call EXCEPT ![h] = NoCall]
    /\ get' = [get EXCEPT ![h] = NoGet]
    /\ unheard' = [unheard EXCEPT ![h] = {}]
    /\ UNCHANGED <<cache, readers, writer, made, collected>>

HandlerStep(h) ==
    GetsClient(h) \/ CallsServer(h) \/ Works(h) \/ Surfaces(h) \/ Returns(h)

Next == Cancel \/ \E h \in Handlers : Arrives(h) \/ HandlerStep(h)

Spec == Init /\ [][Next]_vars

\* Go runs a handler that is in progress; every request ends (RequestTimes); neither
\* readers nor writers starve at a sync.RWMutex, so whoever can have the lock again
\* and again gets it.
FairSpec == Spec /\ \A h \in Handlers : SF_vars(HandlerStep(h))

-----------------------------------------------------------------------------
(* Properties.                                                              *)

\* The requests of a call are bounded whatever fails.  The bound is that of nested
\* loops: MaxRetries does not bound the requests (client.go:206, :325).
RequestsBounded == \A h \in Handlers : RequestsWithin(call[h])

\* A call ends in a bounded time, which is not the TotalTimeout that retry.go:49 calls
\* "the maximum time to spend on all retries": the nested loops, the last request and
\* the backoff before the last look at the clock come on top.
DurationBounded == \A h \in Handlers : DurationWithin(call[h])

\* Once the context is done a call waits for nothing but a discovery request that is
\* already under way ...
CancelPrompt == \A h \in Handlers : call[h].late <= Longest

\* ... and no request leaves any more (the HTTP client refuses the call itself).
CancelSendsNothing ==
    [][\A h \in Handlers : call[h].cancelled /\ call'[h].cancelled => call'[h].sent = call[h].sent]_vars

\* A warning that a handler has received is in the collector it will take its warnings
\* from, or another handler of the connection has reported it; none is left when a
\* handler that reports warnings returns.
WarningsHeard ==
    \A h \in Handlers :
        unheard[h] \subseteq IF get[h].pc = "have" THEN collected[Mine(h)] ELSE {}

\* Every request of Terraform is answered, whatever lock it waits for and whatever
\* its calls of the API come to.
HandlerReturns == \A h \in Handlers : get[h].pc # "none" ~> get[h].pc = "none"
=============================================================================
