----------------------------- MODULE RetryLoop -----------------------------
(***************************************************************************)
(* withRetry around the requests of a client's call.  Apply and Get run     *)
(* their discovery requests in a loop of their own, inside each attempt of  *)
(* the outer one, so attempts multiply and timeouts add up.                 *)
(*                                                                          *)
(* Time is that of the call: requests and backoffs take some, the rest does *)
(* not.  Jitter is left out.                                                *)
(***************************************************************************)
EXTENDS Integers, Sequences

CONSTANTS
    MaxRetries,    \* config.MaxRetries
    TotalTimeout,  \* config.TotalTimeout
    MaxDelay,      \* config.MaxDelay
    Backoff,       \* Backoff[n]: the delay after attempt n
    Longest,       \* how long a request can take at most,
    RequestTimes,  \* ... and what it takes
    Ops,           \* calls handlers make
    Errors         \* errors requests can end with

\* The requests of each call: "gvr" and "scope" are discovery in a loop of its own,
\* "find" is discovery alone.  Apply stands for DryRunApply too, Get for Delete and
\* List, Discover for GetGVR, DiscoverGVR and IsResourceNamespaced.
Requests == [Apply    |-> <<"gvr", "scope", "call">>,
             Get      |-> <<"scope", "call">>,
             Patch    |-> <<"call">>,
             Discover |-> <<"find">>]

\* "network": also any error with a text of retryableErrorPatterns but the next;
\* "server": 5xx, 429, 408; "missing": the 404 of a group that discovery does not know;
\* "refused": anything else, a kind or an object that is not there included.
AllErrors == {"network", "server", "missing", "refused"}

ASSUME RetryAssumption ==
    /\ {MaxRetries, TotalTimeout, MaxDelay, Longest} \subseteq Nat
    /\ \A n \in 0..MaxRetries : Backoff[n] \in 1..MaxDelay
    /\ RequestTimes \subseteq 0..Longest
    /\ Ops \subseteq DOMAIN Requests
    /\ Errors \subseteq AllErrors

\* calculateBackoff for a config.InitialDelay, and a config.Multiplier of 2.
Exponential(initial) ==
    LET delay[n \in 0..MaxRetries] ==
            LET d == IF n = 0 THEN initial ELSE 2 * delay[n - 1]
            IN  IF d > MaxDelay THEN MaxDelay ELSE d
    IN  delay

Request(c) == Requests[c.op][c.at]
Nested(c) == Request(c) \in {"gvr", "scope"}

\* isRetryableError.  An error of the inner loop comes wrapped: network errors are
\* unwrapped, a status is not, and the text of the 404 now counts.
Retried(e, wrapped) ==
    \/ e = "network"
    \/ e = "server" /\ ~wrapped
    \/ e = "missing" /\ wrapped

-----------------------------------------------------------------------------
(* A call: its place in Requests, the attempts of both loops, the time, the *)
(* time its inner loop began, the requests sent, and whether its context is *)
(* done and how much time has passed since.                                 *)

CallPcs == {"idle", "outer", "inner", "flight", "outer_backoff", "inner_backoff", "done"}

Results == {"none", "ok", "failed"} \cup AllErrors

Calls == [op : Ops \cup {"none"}, at : 0..3, pc : CallPcs,
          outer : 0..MaxRetries, inner : 0..MaxRetries,
          now : Nat, began : Nat, sent : Nat,
          cancelled : BOOLEAN, late : Nat, result : Results]

NoCall == [op |-> "none", at |-> 0, pc |-> "idle", outer |-> 0, inner |-> 0,
           now |-> 0, began |-> 0, sent |-> 0,
           cancelled |-> FALSE, late |-> 0, result |-> "none"]

Starts(c, op) == [c EXCEPT !.op = op, !.pc = "outer"]

Passes(c, t) ==
    [c EXCEPT !.now = @ + t, !.late = IF c.cancelled THEN @ + t ELSE @]

\* The call goes to another place of its program.
Moves(c, p, at, inner, began, result) ==
    [c EXCEPT !.pc = p, !.at = at, !.inner = inner, !.began = began, !.result = result]

Ends(c, result) == Moves(c, "done", 0, 0, 0, result)

\* The HTTP client sends nothing with a context that is done; discovery has none.
Sends(c) ==
    [c EXCEPT !.pc = "flight",
              !.sent = IF c.cancelled /\ Request(c) = "call" THEN @ ELSE @ + 1]

\* The attempt comes to its i-th request.
Comes(c, i) ==
    IF Requests[c.op][i] \in {"gvr", "scope"}
    THEN Moves(c, "inner", i, 0, c.now, "none")
    ELSE Sends(Moves(c, "flight", i, 0, 0, "none"))

\* Mutant: the last attempt is retried.
AttemptFailsLate(c, e, wrapped) ==
    IF Retried(e, wrapped) /\ c.outer <= MaxRetries
    THEN Moves(c, "outer_backoff", 0, 0, 0, "none") ELSE Ends(c, "failed")

\* The attempt of the outer loop ends with an error.
AttemptFails(c, e, wrapped) ==
    IF Retried(e, wrapped) /\ c.outer < MaxRetries
    THEN Moves(c, "outer_backoff", 0, 0, 0, "none") ELSE Ends(c, "failed")

\* Mutant: every attempt has the total timeout.
OuterHeadUntimed(c) ==
    IF c.cancelled THEN Ends(c, "failed") ELSE Comes(c, 1)

\* The head of the outer loop: total timeout, context, attempt.
OuterHead(c) ==
    IF c.now > TotalTimeout THEN Ends(c, "failed")
    ELSE IF c.cancelled THEN Ends(c, "failed")
    ELSE Comes(c, 1)

\* The head of the inner loop.  What it returns is an error of the outer attempt:
\* c.result is the last error of this loop.
InnerHead(c) ==
    IF c.now - c.began > TotalTimeout THEN AttemptFails(c, c.result, TRUE)
    ELSE IF c.cancelled THEN AttemptFails(c, "cancelled", TRUE)
    ELSE Sends(c)

Answered(c) ==
    IF c.at < Len(Requests[c.op]) THEN Comes(c, c.at + 1) ELSE Ends(c, "ok")

\* Mutant: the last attempt is retried.
RequestFailsLate(c, e) ==
    IF ~Nested(c) THEN AttemptFails(c, e, FALSE)
    ELSE IF Retried(e, FALSE) /\ c.inner <= MaxRetries
    THEN Moves(c, "inner_backoff", c.at, c.inner, c.began, e)
    ELSE AttemptFails(c, e, TRUE)

RequestFails(c, e) ==
    IF ~Nested(c) THEN AttemptFails(c, e, FALSE)
    ELSE IF Retried(e, FALSE) /\ c.inner < MaxRetries
    THEN Moves(c, "inner_backoff", c.at, c.inner, c.began, e)
    ELSE AttemptFails(c, e, TRUE)

\* A request with the context fails when it is done; discovery takes no context,
\* and its answer is waited for.
Outcomes(c) ==
    IF c.cancelled /\ Request(c) = "call" THEN {RequestFails(c, "network")}
    ELSE {Answered(Passes(c, t)) : t \in RequestTimes}
         \cup {RequestFails(Passes(c, t), e) : t \in RequestTimes, e \in Errors}

\* The next attempt of either loop.
OuterAgain(c) ==
    Passes([Moves(c, "outer", 0, 0, 0, "none") EXCEPT !.outer = @ + 1], Backoff[c.outer])
InnerAgain(c) ==
    Passes(Moves(c, "inner", c.at, c.inner + 1, c.began, c.result), Backoff[c.inner])

\* Mutant: time.Sleep.
SleptThrough(c) ==
    IF c.pc = "outer_backoff" THEN OuterAgain(c) ELSE InnerAgain(c)

\* The select of time.After and ctx.Done.
Slept(c) ==
    IF c.pc = "outer_backoff"
    THEN IF c.cancelled THEN Ends(c, "failed") ELSE OuterAgain(c)
    ELSE IF c.cancelled THEN AttemptFails(c, "cancelled", TRUE) ELSE InnerAgain(c)

\* What one step of withRetry makes of a call.
Continuations(c) ==
    CASE c.pc = "outer" -> {OuterHead(c)}
      [] c.pc = "inner" -> {InnerHead(c)}
      [] c.pc = "flight" -> Outcomes(c)
      [] c.pc \in {"outer_backoff", "inner_backoff"} -> {Slept(c)}
      [] OTHER -> {}

-----------------------------------------------------------------------------
Discoveries(op) == IF op = "Apply" THEN 2 ELSE IF op = "Get" THEN 1 ELSE 0

\* What an attempt can send and the time its discoveries can take when they succeed.
PerAttempt(op) == Discoveries(op) * (MaxRetries + 1) + 1
Discovering(n) == n * (TotalTimeout + Longest)

\* Attempts multiply: each attempt of a call runs its discovery loops again.
RequestsWithin(c) ==
    c.op # "none" => c.sent <= (MaxRetries + 1) * PerAttempt(c.op)

\* Timeouts add up: each loop looks at the time only before an attempt, and each
\* discovery loop of the last attempt has a total timeout of its own.
DurationWithin(c) ==
    c.op # "none" =>
        c.now <= TotalTimeout + Discovering(Discoveries(c.op)) + Longest + 2 * MaxDelay

-----------------------------------------------------------------------------
(* What makes them inductive.                                               *)

InAttempt == {"inner", "flight", "inner_backoff"}

\* The place of a call in its program.
Placed(c) ==
    /\ c.pc # "idle" => c.op \in Ops
    /\ c.pc = "idle" => c.op = "none" /\ c.now = 0 /\ c.sent = 0 /\ c.late = 0
    /\ c.pc \in InAttempt => c.at \in 1..Len(Requests[c.op])
    /\ c.pc \in {"inner", "inner_backoff"} => Nested(c)
    /\ c.pc = "inner_backoff" => c.inner < MaxRetries /\ c.result \in AllErrors
    /\ c.pc = "outer_backoff" => c.outer < MaxRetries
    /\ c.pc = "inner" /\ c.inner > 0 => c.result \in AllErrors
    /\ c.pc = "inner" /\ c.inner = 0 => c.now = c.began
    /\ c.pc = "flight" /\ ~Nested(c) => c.inner = 0

\* The requests sent, by the attempts that are over and the place in the present one.
Counts(c) ==
    /\ c.pc = "outer" => c.sent <= c.outer * PerAttempt(c.op)
    /\ c.pc = "inner" =>
          c.sent <= c.outer * PerAttempt(c.op) + (c.at - 1) * (MaxRetries + 1) + c.inner
    /\ c.pc \in {"flight", "inner_backoff"} =>
          c.sent <= c.outer * PerAttempt(c.op) + (c.at - 1) * (MaxRetries + 1) + c.inner + 1
    /\ c.pc \in {"outer_backoff", "done"} =>
          c.sent <= c.outer * PerAttempt(c.op) + PerAttempt(c.op)

\* The time, by the same places.
Lasts(c) ==
    /\ c.pc \in InAttempt /\ Nested(c) => c.began <= TotalTimeout + Discovering(c.at - 1)
    /\ c.pc = "inner" => c.now - c.began <= TotalTimeout + Longest + MaxDelay
    /\ c.pc = "flight" /\ Nested(c) => c.now - c.began <= TotalTimeout
    /\ c.pc = "inner_backoff" => c.now - c.began <= TotalTimeout + Longest
    /\ c.pc = "flight" /\ ~Nested(c) => c.now <= TotalTimeout + Discovering(c.at - 1)
    /\ c.pc = "outer_backoff" =>
          c.now <= TotalTimeout + Discovering(Discoveries(c.op)) + Longest + MaxDelay
    /\ c.pc \in {"outer", "done"} => DurationWithin(c)

\* A cancelled call lets at most the discovery request under way go on.
Stops(c) ==
    /\ ~c.cancelled => c.late = 0
    /\ c.pc = "flight" /\ Request(c) # "call" => c.late = 0
    /\ c.late <= Longest

CallInv(c) == c \in Calls /\ Placed(c) /\ Counts(c) /\ Lasts(c) /\ Stops(c)
=============================================================================
