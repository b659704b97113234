-------------------------- MODULE RetryLoop_proofs --------------------------
(***************************************************************************)
(* One step of withRetry keeps CallInv: where a call is, how many requests  *)
(* it has sent and how long it has taken, for any number of retries, any    *)
(* timeouts and any backoff.                                                *)
(***************************************************************************)
EXTENDS RetryLoop, TLAPS

\* The calls and their requests, spelled out.
LEMMA Programs ==
  ASSUME NEW op \in Ops
  PROVE  /\ op \in {"Apply", "Get", "Patch", "Discover"}
         /\ op = "Apply" => /\ Len(Requests[op]) = 3 /\ Requests[op][1] = "gvr"
                            /\ Requests[op][2] = "scope" /\ Requests[op][3] = "call"
         /\ op = "Get" => /\ Len(Requests[op]) = 2 /\ Requests[op][1] = "scope"
                          /\ Requests[op][2] = "call"
         /\ op = "Patch" => Len(Requests[op]) = 1 /\ Requests[op][1] = "call"
         /\ op = "Discover" => Len(Requests[op]) = 1 /\ Requests[op][1] = "find"
BY RetryAssumption DEF Requests

\* A place in a program is a discovery with its own loop up to the last one.
LEMMA Places ==
  ASSUME NEW op \in Ops, NEW i \in 1..Len(Requests[op])
  PROVE  /\ i \in 1..3 /\ Discoveries(op) \in 0..2
         /\ Len(Requests[op]) = Discoveries(op) + 1
         /\ Requests[op][i] \in {"gvr", "scope"} <=> i <= Discoveries(op)
         /\ Requests[op][i] \notin {"gvr", "scope", "call"} => i = 1
<1>1. CASE op = "Apply"
  <2>1. Discoveries(op) = 2 /\ Len(Requests[op]) = 3 /\ i \in 1..3
    BY <1>1, Programs DEF Discoveries
  <2>2. CASE i = 1
    BY <1>1, <2>1, <2>2, Programs
  <2>3. CASE i = 2
    BY <1>1, <2>1, <2>3, Programs
  <2>4. CASE i = 3
    BY <1>1, <2>1, <2>4, Programs
  <2>5. QED
    BY <2>1, <2>2, <2>3, <2>4
<1>2. CASE op = "Get"
  <2>1. Discoveries(op) = 1 /\ Len(Requests[op]) = 2 /\ i \in 1..2
    BY <1>2, Programs DEF Discoveries
  <2>2. CASE i = 1
    BY <1>2, <2>1, <2>2, Programs
  <2>3. CASE i = 2
    BY <1>2, <2>1, <2>3, Programs
  <2>4. QED
    BY <2>1, <2>2, <2>3
<1>3. CASE op = "Patch"
  <2>a. Discoveries(op) = 0
    BY <1>3 DEF Discoveries
  <2>b. Len(Requests[op]) = 1
    BY <1>3, Programs
  <2>1. Discoveries(op) = 0 /\ Len(Requests[op]) = 1 /\ i = 1
    BY <2>a, <2>b
  <2>2. QED
    BY <1>3, <2>1, Programs
<1>4. CASE op = "Discover"
  <2>a. Discoveries(op) = 0
    BY <1>4 DEF Discoveries
  <2>b. Len(Requests[op]) = 1
    BY <1>4, Programs
  <2>1. Discoveries(op) = 0 /\ Len(Requests[op]) = 1 /\ i = 1
    BY <2>a, <2>b
  <2>2. QED
    BY <1>4, <2>1, Programs
<1>5. QED
  BY <1>1, <1>2, <1>3, <1>4, Programs

\* Times and counts are natural numbers.
LEMMA Numbers ==
  /\ MaxRetries \in Nat /\ TotalTimeout \in Nat /\ MaxDelay \in Nat /\ Longest \in Nat
  /\ \A n \in 0..MaxRetries : Backoff[n] \in 1..MaxDelay
  /\ \A t \in RequestTimes : t \in 0..Longest
BY RetryAssumption

\* The growth of products.
LEMMA Products ==
  ASSUME NEW a \in Nat, NEW b \in Nat, a < b, NEW w \in Nat
  PROVE  a * w \in Nat /\ b * w \in Nat /\ (a + 1) * w = a * w + w /\ a * w + w <= b * w
<1>1. a * w \in Nat /\ b * w \in Nat /\ (a + 1) * w = a * w + w
  OBVIOUS
<1>2. PICK k \in Nat : b = a + 1 + k
  <2>1. b - (a + 1) \in Nat /\ b = a + 1 + (b - (a + 1))
    OBVIOUS
  <2>2. QED
    BY <2>1
<1>3. b * w = (a + 1) * w + k * w /\ k * w \in Nat
  BY <1>2
<1>4. QED
  BY <1>1, <1>3

\* What the i-th request of a call adds to the counts and times of those before.
LEMMA Accounting ==
  ASSUME NEW op \in Ops, NEW i \in 1..Len(Requests[op])
  PROVE  /\ (i - 1) * (MaxRetries + 1) \in Nat
         /\ i * (MaxRetries + 1) = (i - 1) * (MaxRetries + 1) + MaxRetries + 1
         /\ PerAttempt(op) \in Nat
         /\ (i - 1) * (MaxRetries + 1) + 1 <= PerAttempt(op)
         /\ i <= Discoveries(op) => i * (MaxRetries + 1) + 1 <= PerAttempt(op)
         /\ Discovering(i - 1) \in Nat /\ Discovering(Discoveries(op)) \in Nat
         /\ Discovering(i) = Discovering(i - 1) + TotalTimeout + Longest
         /\ Discovering(i - 1) <= Discovering(Discoveries(op))
         /\ i <= Discoveries(op) => Discovering(i) <= Discovering(Discoveries(op))
<1>1. /\ i \in 1..3 /\ Discoveries(op) \in 0..2 /\ i <= Discoveries(op) + 1
  BY Places
<1>2. \A x \in Nat : 0 * x = 0 /\ 1 * x = x /\ 2 * x = x + x /\ 3 * x = x + x + x
  OBVIOUS
<1> DEFINE R == MaxRetries + 1
           S == TotalTimeout + Longest
           D == Discoveries(op)
<1>3. R \in Nat /\ S \in Nat
  BY Numbers
<1>4. /\ (i - 1) * R \in Nat /\ i * R = (i - 1) * R + R
      /\ (i - 1) * S \in Nat /\ i * S = (i - 1) * S + S
  BY <1>1, <1>2, <1>3, SMTT(40)
<1> HIDE DEF R, S, D
<1>a. D \in 0..2 /\ i <= D + 1
  BY <1>1 DEF D
<1>5. /\ D * R \in Nat /\ (i - 1) * R <= D * R /\ (i <= D => i * R <= D * R)
      /\ D * S \in Nat /\ (i - 1) * S <= D * S /\ (i <= D => i * S <= D * S)
  <2>1. CASE D = 0 /\ i = 1
    BY <2>1, <1>2, <1>3
  <2>2. CASE D = 1 /\ i \in {1, 2}
    BY <2>2, <1>2, <1>3
  <2>3. CASE D = 2 /\ i \in {1, 2, 3}
    BY <2>3, <1>2, <1>3
  <2>4. QED
    BY <1>1, <1>a, <2>1, <2>2, <2>3
<1>6. QED
  BY <1>1, <1>3, <1>4, <1>5, Numbers, SMTT(40) DEF PerAttempt, Discovering, R, S, D

-----------------------------------------------------------------------------
\* What the steps of a call change; the other fields stay.
LEMMA MovesFields ==
  ASSUME NEW c \in Calls, NEW p \in CallPcs, NEW at \in 0..3, NEW inner \in 0..MaxRetries,
         NEW began \in Nat, NEW result \in Results
  PROVE  LET d == Moves(c, p, at, inner, began, result) IN
         /\ d \in Calls
         /\ d.pc = p /\ d.at = at /\ d.inner = inner /\ d.began = began /\ d.result = result
         /\ d.op = c.op /\ d.outer = c.outer /\ d.now = c.now /\ d.sent = c.sent
         /\ d.cancelled = c.cancelled /\ d.late = c.late
<1> DEFINE c1 == [c EXCEPT !.pc = p]
           c2 == [c1 EXCEPT !.at = at]
           c3 == [c2 EXCEPT !.inner = inner]
           c4 == [c3 EXCEPT !.began = began]
           d == [c4 EXCEPT !.result = result]
<1>1. /\ d.pc = p /\ d.at = at /\ d.inner = inner /\ d.began = began /\ d.result = result
      /\ d.op = c.op /\ d.outer = c.outer /\ d.now = c.now /\ d.sent = c.sent
      /\ d.cancelled = c.cancelled /\ d.late = c.late
  BY DEF Calls
<1>2. c1 \in Calls
  BY DEF Calls
<1> HIDE DEF c1
<1>3. c2 \in Calls
  BY <1>2 DEF Calls
<1> HIDE DEF c2
<1>4. c3 \in Calls
  BY <1>3 DEF Calls
<1> HIDE DEF c3
<1>5. c4 \in Calls
  BY <1>4 DEF Calls
<1> HIDE DEF c4
<1>6. d \in Calls
  BY <1>5 DEF Calls
<1>7. d = Moves(c, p, at, inner, began, result)
  BY DEF Moves, c1, c2, c3, c4
<1> HIDE DEF d
<1>8. QED
  BY <1>1, <1>6, <1>7

LEMMA PassesFields ==
  ASSUME NEW c \in Calls, NEW t \in Nat
  PROVE  LET d == Passes(c, t) IN
         /\ d \in Calls
         /\ d.now = c.now + t
         /\ ~c.cancelled => d.late = c.late
         /\ c.cancelled => d.late = c.late + t
         /\ d.pc = c.pc /\ d.at = c.at /\ d.inner = c.inner /\ d.began = c.began
         /\ d.op = c.op /\ d.outer = c.outer /\ d.sent = c.sent
         /\ d.cancelled = c.cancelled /\ d.result = c.result
<1> DEFINE l == IF c.cancelled THEN c.late + t ELSE c.late
           c1 == [c EXCEPT !.now = c.now + t]
           d == [c1 EXCEPT !.late = l]
<1>1. l \in Nat /\ c.now + t \in Nat /\ (~c.cancelled => l = c.late) /\ (c.cancelled => l = c.late + t)
  BY DEF Calls
<1>2. Passes(c, t) = d
  BY DEF Passes, Calls
<1> HIDE DEF l
<1>3. /\ d.now = c.now + t /\ d.late = l
      /\ d.pc = c.pc /\ d.at = c.at /\ d.inner = c.inner /\ d.began = c.began
      /\ d.op = c.op /\ d.outer = c.outer /\ d.sent = c.sent
      /\ d.cancelled = c.cancelled /\ d.result = c.result
  BY DEF Calls
<1>4. c1 \in Calls
  BY <1>1 DEF Calls
<1> HIDE DEF c1
<1>5. d \in Calls
  BY <1>1, <1>4 DEF Calls
<1> HIDE DEF d
<1>6. QED
  BY <1>1, <1>2, <1>3, <1>5

LEMMA SendsFields ==
  ASSUME NEW c \in Calls
  PROVE  LET d == Sends(c) IN
         /\ d \in Calls
         /\ d.pc = "flight" /\ d.sent \in {c.sent, c.sent + 1}
         /\ c.cancelled /\ Request(c) = "call" => d.sent = c.sent
         /\ d.at = c.at /\ d.inner = c.inner /\ d.began = c.began /\ d.op = c.op
         /\ d.outer = c.outer /\ d.now = c.now /\ d.late = c.late
         /\ d.cancelled = c.cancelled /\ d.result = c.result
<1> DEFINE n == IF c.cancelled /\ Request(c) = "call" THEN c.sent ELSE c.sent + 1
           c1 == [c EXCEPT !.pc = "flight"]
           d == [c1 EXCEPT !.sent = n]
<1>1. /\ n \in Nat /\ n \in {c.sent, c.sent + 1}
      /\ c.cancelled /\ Request(c) = "call" => n = c.sent
  BY DEF Calls
<1>2. Sends(c) = d
  BY DEF Sends, Calls
<1> HIDE DEF n
<1>3. /\ d.pc = "flight" /\ d.sent = n
      /\ d.at = c.at /\ d.inner = c.inner /\ d.began = c.began /\ d.op = c.op
      /\ d.outer = c.outer /\ d.now = c.now /\ d.late = c.late
      /\ d.cancelled = c.cancelled /\ d.result = c.result
  BY DEF Calls
<1>4. c1 \in Calls
  BY DEF Calls, CallPcs
<1> HIDE DEF c1
<1>5. d \in Calls
  BY <1>1, <1>4 DEF Calls
<1> HIDE DEF d
<1>6. QED
  BY <1>1, <1>2, <1>3, <1>5

\* The call stays in its discovery loop.
LEMMA InnerFields ==
  ASSUME NEW c \in Calls, NEW p \in {"inner", "inner_backoff"}, NEW n \in 0..MaxRetries,
         NEW r \in Results
  PROVE  LET d == Moves(c, p, c.at, n, c.began, r) IN
         /\ d \in Calls
         /\ d.pc = p /\ d.at = c.at /\ d.inner = n /\ d.began = c.began /\ d.result = r
         /\ d.op = c.op /\ d.outer = c.outer /\ d.now = c.now /\ d.sent = c.sent
         /\ d.cancelled = c.cancelled /\ d.late = c.late
<1> DEFINE at == c.at
           began == c.began
<1>1. at \in 0..3 /\ began \in Nat /\ p \in CallPcs
  BY DEF Calls, CallPcs
<1> HIDE DEF at, began
<1>2. LET d == Moves(c, p, at, n, began, r) IN
      /\ d \in Calls
      /\ d.pc = p /\ d.at = at /\ d.inner = n /\ d.began = began /\ d.result = r
      /\ d.op = c.op /\ d.outer = c.outer /\ d.now = c.now /\ d.sent = c.sent
      /\ d.cancelled = c.cancelled /\ d.late = c.late
  BY <1>1, MovesFields, SMTT(40)
<1>3. QED
  BY <1>2 DEF at, began

\* What an attempt, or a call, may have sent and taken when it ends.
Spent(c) ==
    /\ c \in Calls /\ c.op \in Ops
    /\ c.sent <= c.outer * PerAttempt(c.op) + PerAttempt(c.op)
    /\ c.now <= TotalTimeout + Discovering(Discoveries(c.op)) + Longest + MaxDelay
    /\ c.late <= Longest /\ (~c.cancelled => c.late = 0)

\* A step that keeps the requests of a cancelled call, and the invariant.
Kept(c, d) == CallInv(d) /\ d.pc # "idle" /\ (c.cancelled => d.sent = c.sent)

LEMMA EndsKeeps ==
  ASSUME NEW c \in Calls, c.op \in Ops, DurationWithin(c), NEW result \in {"ok", "failed"},
         c.sent <= c.outer * PerAttempt(c.op) + PerAttempt(c.op),
         c.late <= Longest, ~c.cancelled => c.late = 0
  PROVE  Kept(c, Ends(c, result))
<1> DEFINE d == Ends(c, result)
<1>1. /\ d \in Calls /\ d.pc = "done" /\ d.op = c.op /\ d.sent = c.sent /\ d.now = c.now
      /\ d.outer = c.outer /\ d.late = c.late /\ d.cancelled = c.cancelled
  <2>1. /\ "done" \in CallPcs /\ 0 \in 0..3 /\ 0 \in 0..MaxRetries /\ 0 \in Nat
        /\ result \in Results
    BY Numbers DEF CallPcs, Results
  <2>2. QED
    BY <2>1, MovesFields DEF Ends
<1> HIDE DEF d
<1>2. Placed(d)
  BY <1>1 DEF Placed, InAttempt
<1>3. Counts(d)
  BY <1>1 DEF Counts
<1>4. Lasts(d)
  BY <1>1 DEF Lasts, DurationWithin, InAttempt
<1>5. Stops(d)
  BY <1>1 DEF Stops
<1>6. QED
  BY <1>1, <1>2, <1>3, <1>4, <1>5 DEF Kept, CallInv, d

LEMMA AttemptFailsKeeps ==
  ASSUME NEW c, Spent(c), NEW e, NEW wrapped \in BOOLEAN
  PROVE  Kept(c, AttemptFails(c, e, wrapped))
<1>1. c \in Calls /\ c.op \in Ops /\ Discoveries(c.op) \in 0..2
  BY Programs DEF Spent, Discoveries
<1>2. Discovering(Discoveries(c.op)) \in Nat
  BY <1>1, Numbers DEF Discovering
<1>3. CASE AttemptFails(c, e, wrapped) = Ends(c, "failed")
  <2>1. DurationWithin(c)
    BY <1>1, <1>2, Numbers DEF Spent, DurationWithin, Calls
  <2>2. QED
    BY <1>1, <1>3, <2>1, EndsKeeps DEF Spent
<1>4. CASE /\ c.outer < MaxRetries
           /\ AttemptFails(c, e, wrapped) = Moves(c, "outer_backoff", 0, 0, 0, "none")
  <2> DEFINE d == Moves(c, "outer_backoff", 0, 0, 0, "none")
  <2>1. /\ d \in Calls /\ d.pc = "outer_backoff" /\ d.op = c.op /\ d.sent = c.sent /\ d.now = c.now
        /\ d.outer = c.outer /\ d.late = c.late /\ d.cancelled = c.cancelled
    <3>1. /\ "outer_backoff" \in CallPcs /\ 0 \in 0..3 /\ 0 \in 0..MaxRetries /\ 0 \in Nat
          /\ "none" \in Results
      BY Numbers DEF CallPcs, Results
    <3>2. QED
      BY <1>1, <3>1, MovesFields
  <2> HIDE DEF d
  <2>2. Placed(d)
    BY <1>1, <1>4, <2>1 DEF Placed, InAttempt
  <2>3. Counts(d)
    BY <2>1 DEF Counts, Spent
  <2>4. Lasts(d)
    BY <2>1 DEF Lasts, Spent, InAttempt
  <2>5. Stops(d)
    BY <2>1 DEF Stops, Spent
  <2>6. Kept(c, d)
    BY <2>1, <2>2, <2>3, <2>4, <2>5 DEF Kept, CallInv
  <2>7. QED
    BY <1>4, <2>6 DEF d
<1>5. QED
  BY <1>3, <1>4 DEF AttemptFails

\* The two places a call comes to in an attempt.
LEMMA ComesFields ==
  ASSUME NEW c \in Calls, NEW i \in 1..3, NEW p \in {"inner", "flight"}, NEW began \in {0, c.now}
  PROVE  LET d == Moves(c, p, i, 0, began, "none") IN
         /\ d \in Calls /\ d.pc = p /\ d.at = i /\ d.inner = 0 /\ d.began = began
         /\ d.op = c.op /\ d.outer = c.outer /\ d.now = c.now /\ d.sent = c.sent
         /\ d.cancelled = c.cancelled /\ d.late = c.late
<1>1. i \in 0..3
  OBVIOUS
<1>2. 0 \in 0..MaxRetries /\ began \in Nat
  BY Numbers DEF Calls
<1>3. p \in CallPcs /\ "none" \in Results
  BY DEF CallPcs, Results
<1>4. QED
  BY <1>1, <1>2, <1>3, MovesFields, SMTT(40)

\* The attempt comes to its i-th request, all before it answered.
LEMMA ComesKeeps ==
  ASSUME NEW c \in Calls, c.op \in Ops, NEW i \in 1..Len(Requests[c.op]),
         c.sent <= c.outer * PerAttempt(c.op) + (i - 1) * (MaxRetries + 1),
         c.now <= TotalTimeout + Discovering(i - 1),
         c.late <= Longest, ~c.cancelled => c.late = 0, c.cancelled => i > 1
  PROVE  Kept(c, Comes(c, i))
<1> DEFINE r == Requests[c.op][i]
<1>1. i \in 1..3 /\ c.now \in {0, c.now} /\ 0 \in {0, c.now}
  BY Places
<1>5. c.outer * PerAttempt(c.op) \in Nat /\ (i - 1) * (MaxRetries + 1) \in Nat
  <2>1. c.outer \in Nat /\ PerAttempt(c.op) \in Nat /\ (i - 1) * (MaxRetries + 1) \in Nat
    BY Accounting, Numbers DEF Calls
  <2>2. QED
    BY <2>1
<1>2. CASE r \in {"gvr", "scope"}
  <2> DEFINE d == Moves(c, "inner", i, 0, c.now, "none")
  <2>1. /\ d \in Calls /\ d.pc = "inner" /\ d.at = i /\ d.inner = 0 /\ d.began = c.now
        /\ d.op = c.op /\ d.outer = c.outer /\ d.now = c.now /\ d.sent = c.sent
        /\ d.cancelled = c.cancelled /\ d.late = c.late
    BY <1>1, ComesFields
  <2>2. Comes(c, i) = d
    BY <1>2 DEF Comes
  <2> HIDE DEF d
  <2>3. Placed(d)
    BY <1>1, <1>2, <2>1 DEF Placed, Nested, Request
  <2>4. Counts(d)
    BY <1>1, <1>5, <2>1 DEF Counts
  <2>5. Lasts(d)
    <3>1. d.now - d.began = 0 /\ 0 <= TotalTimeout + Longest + MaxDelay
      BY <2>1, Numbers DEF Calls
    <3>2. d.began <= TotalTimeout + Discovering(d.at - 1)
      BY <2>1
    <3>3. QED
      BY <2>1, <3>1, <3>2 DEF Lasts
  <2>6. Stops(d)
    BY <2>1 DEF Stops
  <2>7. QED
    BY <2>1, <2>2, <2>3, <2>4, <2>5, <2>6 DEF Kept, CallInv
<1>3. CASE r \notin {"gvr", "scope"}
  <2> DEFINE b == Moves(c, "flight", i, 0, 0, "none")
             d == Sends(b)
  <2>1. /\ b \in Calls /\ b.at = i /\ b.inner = 0 /\ b.op = c.op /\ b.outer = c.outer
        /\ b.now = c.now /\ b.sent = c.sent /\ b.cancelled = c.cancelled /\ b.late = c.late
    BY <1>1, ComesFields
  <2>2. Comes(c, i) = d
    BY <1>3 DEF Comes
  <2> HIDE DEF b
  <2>3. /\ d \in Calls /\ d.pc = "flight" /\ d.at = i /\ d.inner = 0
        /\ d.op = c.op /\ d.outer = c.outer /\ d.now = c.now /\ d.sent \in {c.sent, c.sent + 1}
        /\ d.cancelled = c.cancelled /\ d.late = c.late
        /\ c.cancelled /\ r = "call" => d.sent = c.sent
    BY <2>1, SendsFields DEF Request
  <2> HIDE DEF d
  <2>4. c.cancelled => r = "call"
    BY <1>3, Places
  <2>5. Placed(d)
    BY <1>1, <2>3 DEF Placed
  <2>6. Counts(d)
    BY <1>1, <1>5, <2>3 DEF Counts, Calls
  <2>7. Lasts(d)
    BY <1>3, <2>3 DEF Lasts, Nested, Request
  <2>8. Stops(d)
    BY <2>3, <2>4 DEF Stops, Request
  <2>9. QED
    BY <2>2, <2>3, <2>4, <2>5, <2>6, <2>7, <2>8 DEF Kept, CallInv
<1>6. QED
  BY <1>2, <1>3

-----------------------------------------------------------------------------
\* One lemma per place of the loops.
LEMMA OuterHeadKeeps ==
  ASSUME NEW c, CallInv(c), c.pc = "outer"
  PROVE  Kept(c, OuterHead(c))
<1>1. /\ c \in Calls /\ c.op \in Ops /\ DurationWithin(c) /\ c.late <= Longest
      /\ ~c.cancelled => c.late = 0
      /\ c.sent <= c.outer * PerAttempt(c.op)
  BY DEF CallInv, Placed, Counts, Lasts, Stops
<1>2. 1 \in 1..Len(Requests[c.op])
  BY <1>1, Programs
<1>3. /\ c.outer \in Nat /\ PerAttempt(c.op) \in Nat /\ (1 - 1) * (MaxRetries + 1) = 0
      /\ Discovering(1 - 1) = 0
  BY <1>1, <1>2, Accounting, Numbers DEF Calls, Discovering
<1>4. c.outer * PerAttempt(c.op) \in Nat /\ c.sent \in Nat /\ c.now \in Nat
  BY <1>1, <1>3 DEF Calls
<1>5. Kept(c, Ends(c, "failed"))
  <2>1. c.sent <= c.outer * PerAttempt(c.op) + PerAttempt(c.op)
    BY <1>1, <1>3, <1>4
  <2>2. QED
    BY <1>1, <2>1, EndsKeeps
<1>6. CASE ~(c.now > TotalTimeout) /\ ~c.cancelled
  <2>1. /\ c.now <= TotalTimeout + Discovering(1 - 1)
        /\ c.sent <= c.outer * PerAttempt(c.op) + (1 - 1) * (MaxRetries + 1)
    BY <1>1, <1>3, <1>4, <1>6, Numbers
  <2>2. Kept(c, Comes(c, 1))
    BY <1>1, <1>2, <1>6, <2>1, ComesKeeps
  <2>3. QED
    BY <1>6, <2>2 DEF OuterHead
<1>7. QED
  BY <1>5, <1>6 DEF OuterHead

\* What a call has sent and taken at any place of an attempt.
LEMMA InAttemptSpent ==
  ASSUME NEW c, CallInv(c), c.pc \in InAttempt
  PROVE  /\ Spent(c) /\ c.at \in 1..Len(Requests[c.op]) /\ c.at \in 1..3
         /\ c.outer * PerAttempt(c.op) \in Nat
         /\ (c.at - 1) * (MaxRetries + 1) \in Nat
         /\ Nested(c) <=> c.at <= Discoveries(c.op)
         /\ Nested(c) <=> c.at < Len(Requests[c.op])
<1>1. /\ c \in Calls /\ c.op \in Ops /\ c.at \in 1..Len(Requests[c.op])
      /\ c.late <= Longest /\ (~c.cancelled => c.late = 0)
  BY DEF CallInv, Placed, Stops, InAttempt
<1>2. /\ c.sent \in Nat /\ c.now \in Nat /\ c.began \in Nat /\ c.outer \in Nat
      /\ c.inner \in 0..MaxRetries
  BY <1>1 DEF Calls
<1>3. /\ c.at \in 1..3 /\ Discoveries(c.op) \in 0..2
      /\ Len(Requests[c.op]) = Discoveries(c.op) + 1
      /\ Nested(c) <=> c.at <= Discoveries(c.op)
  BY <1>1, Places DEF Nested, Request
<1> DEFINE W == PerAttempt(c.op)
           P == c.outer * W
           B == (c.at - 1) * (MaxRetries + 1)
           A == c.at * (MaxRetries + 1)
           E == Discovering(c.at - 1)
           F == Discovering(Discoveries(c.op))
<1>4. /\ W \in Nat /\ B \in Nat /\ A = B + MaxRetries + 1 /\ B + 1 <= W
      /\ Nested(c) => A + 1 <= W
      /\ E \in Nat /\ F \in Nat /\ E <= F /\ (Nested(c) => E + TotalTimeout + Longest <= F)
  BY <1>1, <1>3, Accounting
<1>5. P \in Nat
  BY <1>2, <1>4
<1>6. /\ c.pc = "inner" => c.sent <= P + B + c.inner
      /\ c.pc \in {"flight", "inner_backoff"} => c.sent <= P + B + c.inner + 1
      /\ c.pc \in {"inner", "inner_backoff"} => Nested(c)
      /\ c.pc = "flight" /\ ~Nested(c) => c.inner = 0
      /\ c.pc = "inner_backoff" => c.inner < MaxRetries
  BY DEF CallInv, Counts, Placed
<1>7. /\ Nested(c) => c.began <= TotalTimeout + E
      /\ c.pc = "inner" => c.now - c.began <= TotalTimeout + Longest + MaxDelay
      /\ c.pc = "flight" /\ Nested(c) => c.now - c.began <= TotalTimeout
      /\ c.pc = "inner_backoff" => c.now - c.began <= TotalTimeout + Longest
      /\ c.pc = "flight" /\ ~Nested(c) => c.now <= TotalTimeout + E
  BY DEF CallInv, Lasts
<1> HIDE DEF W, P, B, A, E, F
<1>8. c.sent <= P + W
  <2>1. CASE Nested(c)
    BY <1>2, <1>4, <1>5, <1>6, <2>1, Numbers DEF InAttempt
  <2>2. CASE ~Nested(c)
    BY <1>2, <1>4, <1>5, <1>6, <2>2, Numbers DEF InAttempt
  <2>3. QED
    BY <2>1, <2>2
<1>9. c.now <= TotalTimeout + F + Longest + MaxDelay
  <2>1. CASE Nested(c)
    BY <1>2, <1>4, <1>7, <2>1, Numbers DEF InAttempt
  <2>2. CASE ~Nested(c)
    BY <1>2, <1>4, <1>6, <1>7, <2>2, Numbers DEF InAttempt
  <2>3. QED
    BY <2>1, <2>2
<1>10. Spent(c)
  BY <1>1, <1>8, <1>9 DEF Spent, P, W, F
<1>11. QED
  BY <1>1, <1>3, <1>4, <1>5, <1>10, SMTT(40) DEF P, W, B

LEMMA InnerHeadKeeps ==
  ASSUME NEW c, CallInv(c), c.pc = "inner"
  PROVE  Kept(c, InnerHead(c))
<1>1. Spent(c) /\ c.at \in 1..3 /\ c.at \in 1..Len(Requests[c.op])
  BY InAttemptSpent DEF InAttempt
<1>2. \A e : Kept(c, AttemptFails(c, e, TRUE))
  BY <1>1, AttemptFailsKeeps
<1>3. CASE ~(c.now - c.began > TotalTimeout) /\ ~c.cancelled
  <2> DEFINE d == Sends(c)
             P == c.outer * PerAttempt(c.op) + (c.at - 1) * (MaxRetries + 1)
  <2>1. /\ d \in Calls /\ d.pc = "flight" /\ d.sent \in {c.sent, c.sent + 1}
        /\ d.at = c.at /\ d.inner = c.inner /\ d.began = c.began /\ d.op = c.op
        /\ d.outer = c.outer /\ d.now = c.now /\ d.late = c.late
        /\ d.cancelled = c.cancelled /\ d.result = c.result
    BY <1>1, SendsFields DEF Spent
  <2>2. c \in Calls /\ Nested(c) /\ c.sent <= P + c.inner /\ c.late = 0 /\ c.op \in Ops
    BY <1>1, <1>3 DEF CallInv, Placed, Counts, Stops, Spent
  <2>3. P \in Nat /\ c.inner \in Nat /\ c.sent \in Nat /\ c.now \in Nat /\ c.began \in Nat
    BY <2>2, InAttemptSpent DEF InAttempt, Calls
  <2> HIDE DEF d
  <2>4. Nested(d)
    BY <2>1, <2>2 DEF Nested, Request
  <2>5. Placed(d)
    BY <1>1, <2>1, <2>2, <2>4 DEF Placed
  <2>6. Counts(d)
    <3> HIDE DEF P
    <3>1. d.sent <= P + d.inner + 1
      BY <2>1, <2>2, <2>3
    <3>2. d.sent <= d.outer * PerAttempt(d.op) + (d.at - 1) * (MaxRetries + 1) + d.inner + 1
      BY <3>1, <2>1 DEF P
    <3>3. QED
      BY <3>2, <2>1 DEF Counts
  <2>7. Lasts(d)
    <3>1. d.began <= TotalTimeout + Discovering(d.at - 1)
      BY <2>1, <2>2 DEF CallInv, Lasts, InAttempt
    <3>2. d.now - d.began <= TotalTimeout
      BY <1>3, <2>1, <2>3, Numbers
    <3>3. QED
      BY <2>1, <2>4, <3>1, <3>2 DEF Lasts
  <2>8. Stops(d)
    BY <2>1, <2>2, Numbers DEF Stops
  <2>9. Kept(c, d)
    BY <1>3, <2>1, <2>5, <2>6, <2>7, <2>8 DEF Kept, CallInv
  <2>10. QED
    BY <1>3, <2>9 DEF InnerHead, d
<1>4. QED
  BY <1>2, <1>3 DEF InnerHead

\* A request that took t, which is the longest a call waits once its context is done.
LEMMA FlightSpent ==
  ASSUME NEW c, CallInv(c), c.pc = "flight", NEW t \in RequestTimes,
         ~(c.cancelled /\ Request(c) = "call")
  PROVE  LET b == Passes(c, t) IN
         /\ Spent(b) /\ b.at = c.at /\ b.op = c.op /\ b.cancelled = c.cancelled
         /\ b.sent = c.sent /\ b.outer = c.outer /\ b.inner = c.inner /\ b.began = c.began
         /\ b.now = c.now + t
<1> DEFINE b == Passes(c, t)
           E == Discovering(c.at - 1)
           F == Discovering(Discoveries(c.op))
<1>1. Spent(c) /\ c.at \in 1..Len(Requests[c.op]) /\ c.at \in 1..3
      /\ (Nested(c) <=> c.at <= Discoveries(c.op))
  BY InAttemptSpent DEF InAttempt
<1>2. t \in 0..Longest /\ t \in Nat
  BY Numbers
<1>3. /\ b \in Calls /\ b.now = c.now + t /\ (~c.cancelled => b.late = c.late)
      /\ (c.cancelled => b.late = c.late + t)
      /\ b.at = c.at /\ b.inner = c.inner /\ b.began = c.began /\ b.op = c.op
      /\ b.outer = c.outer /\ b.sent = c.sent /\ b.cancelled = c.cancelled
  BY <1>1, <1>2, PassesFields DEF Spent
<1> HIDE DEF b
<1>4. /\ Nested(c) => c.began <= TotalTimeout + E /\ c.now - c.began <= TotalTimeout
      /\ ~Nested(c) => c.now <= TotalTimeout + E
  BY DEF CallInv, Lasts, InAttempt
<1>5. /\ E \in Nat /\ F \in Nat /\ E <= F /\ (Nested(c) => E + TotalTimeout + Longest <= F)
  BY <1>1, Accounting DEF Spent
<1>6. c.now \in Nat /\ c.began \in Nat /\ c.late \in Nat
  BY <1>1 DEF Spent, Calls
<1>7. b.now <= TotalTimeout + F + Longest + MaxDelay
  <2> HIDE DEF E, F
  <2>1. QED
    BY <1>2, <1>3, <1>4, <1>5, <1>6, Numbers
<1>8. b.late <= Longest /\ (~b.cancelled => b.late = 0)
  <2>1. /\ c.late <= Longest /\ (~c.cancelled => c.late = 0)
        /\ (c.cancelled => c.late = 0)
    BY DEF CallInv, Stops
  <2>2. QED
    BY <1>2, <1>3, <2>1, Numbers
<1>9. QED
  BY <1>1, <1>3, <1>7, <1>8 DEF Spent, b, F

\* The answer to a request.
LEMMA AnsweredKeeps ==
  ASSUME NEW c, CallInv(c), c.pc = "flight", NEW t \in RequestTimes,
         ~(c.cancelled /\ Request(c) = "call")
  PROVE  Kept(c, Answered(Passes(c, t)))
<1> DEFINE b == Passes(c, t)
<1>1. /\ Spent(b) /\ b.at = c.at /\ b.op = c.op /\ b.cancelled = c.cancelled
      /\ b.sent = c.sent /\ b.outer = c.outer /\ b.now = c.now + t
  BY FlightSpent
<1> HIDE DEF b
<1>2. /\ Spent(c) /\ c.at \in 1..Len(Requests[c.op]) /\ c.at \in 1..3
      /\ c.outer * PerAttempt(c.op) \in Nat /\ (c.at - 1) * (MaxRetries + 1) \in Nat
      /\ (Nested(c) <=> c.at <= Discoveries(c.op))
      /\ (Nested(c) <=> c.at < Len(Requests[c.op]))
  BY InAttemptSpent DEF InAttempt
<1>3. /\ t \in 0..Longest /\ c.now \in Nat /\ c.began \in Nat /\ c.sent \in Nat
      /\ c.inner \in 0..MaxRetries /\ b \in Calls /\ b.op \in Ops
      /\ b.late <= Longest /\ (~b.cancelled => b.late = 0)
  BY <1>1, <1>2, Numbers DEF Spent, Calls
<1>4. CASE c.at < Len(Requests[c.op])
  <2> DEFINE i == c.at + 1
             E == Discovering(c.at - 1)
  <2>1. i \in 1..Len(Requests[b.op]) /\ i > 1 /\ i - 1 = c.at
    <3>a. c.op \in Ops
      BY <1>2 DEF Spent
    <3>b. Discoveries(c.op) \in 0..2 /\ Len(Requests[c.op]) = Discoveries(c.op) + 1
      BY <1>2, <3>a, Places, Zenon
    <3>1. Len(Requests[c.op]) \in 1..3
      BY <3>b
    <3>2. QED
      BY <1>1, <1>2, <1>4, <3>1
  <2>2. /\ E \in Nat /\ Discovering(c.at) = E + TotalTimeout + Longest
        /\ c.at * (MaxRetries + 1) = (c.at - 1) * (MaxRetries + 1) + MaxRetries + 1
    BY <1>2, Accounting DEF Spent
  <2>3. c.began <= TotalTimeout + E /\ c.now - c.began <= TotalTimeout
    BY <1>2, <1>4 DEF CallInv, Lasts, InAttempt
  <2>4. c.sent <= c.outer * PerAttempt(c.op) + (c.at - 1) * (MaxRetries + 1) + c.inner + 1
    BY DEF CallInv, Counts
  <2>5. b.now <= TotalTimeout + Discovering(i - 1)
    <3> HIDE DEF E
    <3>1. c.now + t <= TotalTimeout + Discovering(c.at)
      BY <1>3, <2>2, <2>3, Numbers
    <3>2. QED
      BY <1>1, <2>1, <3>1
  <2>6. b.sent <= b.outer * PerAttempt(b.op) + (i - 1) * (MaxRetries + 1)
    <3> DEFINE P == c.outer * PerAttempt(c.op)
               B == (c.at - 1) * (MaxRetries + 1)
               A == c.at * (MaxRetries + 1)
    <3>1. /\ P \in Nat /\ B \in Nat /\ A = B + MaxRetries + 1
          /\ c.sent <= P + B + c.inner + 1
      BY <1>2, <2>2, <2>4
    <3> HIDE DEF P, B, A
    <3>2. c.sent <= P + A
      BY <1>3, <3>1, Numbers
    <3>3. QED
      BY <1>1, <2>1, <3>2 DEF P, A
  <2> HIDE DEF i
  <2>7. Kept(b, Comes(b, i))
    BY <1>3, <2>1, <2>5, <2>6, ComesKeeps
  <2>8. Answered(b) = Comes(b, i)
    BY <1>1, <1>4 DEF Answered, i
  <2>9. QED
    BY <1>1, <2>7, <2>8 DEF Kept, b
<1>5. CASE ~(c.at < Len(Requests[c.op]))
  <2>1. DurationWithin(b)
    <3>1. Discoveries(b.op) \in 0..2
      BY DEF Discoveries
    <3>2. Discovering(Discoveries(b.op)) \in Nat
      BY <3>1, Numbers DEF Discovering
    <3>3. QED
      BY <1>1, <1>3, <3>2, Numbers DEF Spent, DurationWithin, Calls
  <2>2. Kept(b, Ends(b, "ok"))
    BY <1>1, <1>3, <2>1, EndsKeeps DEF Spent
  <2>3. Answered(b) = Ends(b, "ok")
    BY <1>1, <1>5 DEF Answered
  <2>4. QED
    BY <1>1, <2>2, <2>3 DEF Kept, b
<1>6. QED
  BY <1>4, <1>5

\* The error of a request.
LEMMA FailsKeeps ==
  ASSUME NEW c, CallInv(c), c.pc = "flight", NEW t \in RequestTimes, NEW e \in AllErrors,
         ~(c.cancelled /\ Request(c) = "call")
  PROVE  Kept(c, RequestFails(Passes(c, t), e))
<1> DEFINE b == Passes(c, t)
<1>1. /\ Spent(b) /\ b.at = c.at /\ b.op = c.op /\ b.cancelled = c.cancelled
      /\ b.sent = c.sent /\ b.outer = c.outer /\ b.inner = c.inner /\ b.began = c.began
      /\ b.now = c.now + t
  BY FlightSpent
<1> HIDE DEF b
<1>2. /\ Spent(c) /\ c.at \in 1..Len(Requests[c.op]) /\ c.at \in 1..3
  BY InAttemptSpent DEF InAttempt
<1>3. /\ t \in 0..Longest /\ c.now \in Nat /\ c.began \in Nat /\ c.inner \in 0..MaxRetries
      /\ b \in Calls
  BY <1>1, <1>2, Numbers DEF Spent, Calls
<1>4. \A w \in BOOLEAN : Kept(c, AttemptFails(b, e, w))
  BY <1>1, AttemptFailsKeeps DEF Kept
<1>5. CASE /\ Nested(b) /\ c.inner < MaxRetries
           /\ RequestFails(b, e) = Moves(b, "inner_backoff", b.at, b.inner, b.began, e)
  <2> DEFINE d == Moves(b, "inner_backoff", b.at, b.inner, b.began, e)
  <2>1. /\ d \in Calls /\ d.pc = "inner_backoff" /\ d.at = c.at /\ d.inner = c.inner
        /\ d.began = c.began /\ d.result = e /\ d.op = c.op /\ d.outer = c.outer
        /\ d.now = c.now + t /\ d.sent = c.sent /\ d.cancelled = c.cancelled /\ d.late = b.late
    <3>1. /\ "inner_backoff" \in CallPcs /\ b.at \in 0..3 /\ b.inner \in 0..MaxRetries
          /\ b.began \in Nat /\ e \in Results
      BY <1>1, <1>2, <1>3 DEF CallPcs, Results
    <3>2. /\ d \in Calls /\ d.pc = "inner_backoff" /\ d.at = b.at /\ d.inner = b.inner
          /\ d.began = b.began /\ d.result = e /\ d.op = b.op /\ d.outer = b.outer
          /\ d.now = b.now /\ d.sent = b.sent /\ d.cancelled = b.cancelled /\ d.late = b.late
      <4> DEFINE n == b.inner
      <4>1. n \in 0..MaxRetries
        BY <3>1
      <4> HIDE DEF n
      <4>2. LET f == Moves(b, "inner_backoff", b.at, n, b.began, e) IN
            /\ f \in Calls /\ f.pc = "inner_backoff" /\ f.at = b.at /\ f.inner = n
            /\ f.began = b.began /\ f.result = e /\ f.op = b.op /\ f.outer = b.outer
            /\ f.now = b.now /\ f.sent = b.sent /\ f.cancelled = b.cancelled
            /\ f.late = b.late
        BY <1>3, <3>1, <4>1, InnerFields
      <4>3. QED
        BY <4>2 DEF n
    <3> HIDE DEF d
    <3>3. QED
      BY <1>1, <3>2
  <2> HIDE DEF d
  <2>2. Nested(d) /\ Nested(c)
    BY <1>1, <1>5, <2>1 DEF Nested, Request
  <2>3. Placed(d)
    BY <1>2, <1>5, <2>1, <2>2 DEF Placed, Spent
  <2>4. Counts(d)
    <3>1. c.sent <= c.outer * PerAttempt(c.op) + (c.at - 1) * (MaxRetries + 1) + c.inner + 1
      BY DEF CallInv, Counts
    <3>2. QED
      BY <2>1, <3>1 DEF Counts
  <2>5. Lasts(d)
    <3>1. c.began <= TotalTimeout + Discovering(c.at - 1) /\ c.now - c.began <= TotalTimeout
      BY <2>2 DEF CallInv, Lasts, InAttempt
    <3>2. d.now - d.began <= TotalTimeout + Longest
      BY <1>3, <2>1, <3>1, Numbers
    <3>3. QED
      BY <2>1, <3>1, <3>2 DEF Lasts
  <2>6. Stops(d)
    BY <1>1, <2>1 DEF Stops, Spent
  <2>7. Kept(c, d)
    BY <2>1, <2>3, <2>4, <2>5, <2>6 DEF Kept, CallInv
  <2>8. QED
    BY <1>5, <2>7 DEF d, b
<1>6. QED
  BY <1>1, <1>4, <1>5 DEF RequestFails, b

\* A request with a context that is done.
LEMMA RefusedKeeps ==
  ASSUME NEW c, CallInv(c), c.pc = "flight", Request(c) = "call"
  PROVE  Kept(c, RequestFails(c, "network"))
<1>1. ~Nested(c)
  BY DEF Nested
<1>2. Spent(c)
  BY InAttemptSpent DEF InAttempt
<1>3. QED
  BY <1>1, <1>2, AttemptFailsKeeps DEF RequestFails

\* The next attempt of the outer loop.
LEMMA OuterAgainKeeps ==
  ASSUME NEW c, CallInv(c), c.pc = "outer_backoff", ~c.cancelled
  PROVE  Kept(c, OuterAgain(c))
<1>1. /\ c \in Calls /\ c.op \in Ops /\ c.outer < MaxRetries /\ c.late = 0
      /\ c.sent <= c.outer * PerAttempt(c.op) + PerAttempt(c.op)
      /\ c.now <= TotalTimeout + Discovering(Discoveries(c.op)) + Longest + MaxDelay
  BY DEF CallInv, Placed, Counts, Lasts, Stops
<1>2. /\ c.outer \in 0..MaxRetries /\ c.outer + 1 \in 0..MaxRetries
      /\ Backoff[c.outer] \in 1..MaxDelay /\ Backoff[c.outer] \in Nat
  BY <1>1, Numbers DEF Calls
<1> DEFINE a == Moves(c, "outer", 0, 0, 0, "none")
           b == [a EXCEPT !.outer = @ + 1]
           d == Passes(b, Backoff[c.outer])
<1>3. /\ a \in Calls /\ a.pc = "outer" /\ a.op = c.op /\ a.sent = c.sent /\ a.now = c.now
      /\ a.outer = c.outer /\ a.late = c.late /\ a.cancelled = c.cancelled
  <2>1. /\ "outer" \in CallPcs /\ 0 \in 0..3 /\ 0 \in 0..MaxRetries /\ 0 \in Nat
        /\ "none" \in Results
    BY Numbers DEF CallPcs, Results
  <2>2. QED
    BY <1>1, <2>1, MovesFields
<1>4. OuterAgain(c) = d
  BY DEF OuterAgain
<1> HIDE DEF a
<1>5. /\ b \in Calls /\ b.pc = "outer" /\ b.op = c.op /\ b.sent = c.sent /\ b.now = c.now
      /\ b.outer = c.outer + 1 /\ b.late = c.late /\ b.cancelled = c.cancelled
  BY <1>2, <1>3 DEF Calls
<1> HIDE DEF b
<1>6. /\ d \in Calls /\ d.pc = "outer" /\ d.op = c.op /\ d.sent = c.sent
      /\ d.now = c.now + Backoff[c.outer] /\ d.outer = c.outer + 1 /\ d.late = 0
      /\ d.cancelled = c.cancelled
  <2>1. /\ d \in Calls /\ d.pc = b.pc /\ d.op = b.op /\ d.sent = b.sent
        /\ d.now = b.now + Backoff[c.outer] /\ d.outer = b.outer
        /\ (~b.cancelled => d.late = b.late) /\ d.cancelled = b.cancelled
    BY <1>2, <1>5, PassesFields
  <2> HIDE DEF d
  <2>2. QED
    BY <1>1, <1>5, <2>1
<1> HIDE DEF d
<1>7. Placed(d)
  BY <1>1, <1>6 DEF Placed, InAttempt
<1>8. Counts(d)
  <2>1. PerAttempt(c.op) \in Nat
    <3>1. 1 \in 1..Len(Requests[c.op])
      BY <1>1, Programs
    <3>2. QED
      BY <1>1, <3>1, Accounting
  <2>2. (c.outer + 1) * PerAttempt(c.op) = c.outer * PerAttempt(c.op) + PerAttempt(c.op)
    BY <1>1, <1>2, <2>1, Products, Numbers
  <2>3. QED
    BY <1>1, <1>6, <2>2 DEF Counts
<1>9. Lasts(d)
  <2>1. Discoveries(c.op) \in 0..2
    BY DEF Discoveries
  <2>2. Discovering(Discoveries(c.op)) \in Nat
    BY <2>1, Numbers DEF Discovering
  <2>3. DurationWithin(d)
    BY <1>1, <1>2, <1>6, <2>2, Numbers DEF DurationWithin, Calls
  <2>4. QED
    BY <1>6, <2>3 DEF Lasts, InAttempt
<1>10. Stops(d)
  BY <1>1, <1>6, Numbers DEF Stops
<1>11. QED
  BY <1>4, <1>6, <1>7, <1>8, <1>9, <1>10 DEF Kept, CallInv

\* The next attempt of a discovery loop.
LEMMA InnerAgainKeeps ==
  ASSUME NEW c, CallInv(c), c.pc = "inner_backoff", ~c.cancelled
  PROVE  Kept(c, InnerAgain(c))
<1>1. /\ Spent(c) /\ c.at \in 1..3 /\ c.at \in 1..Len(Requests[c.op]) /\ Nested(c)
      /\ c.inner < MaxRetries /\ c.result \in AllErrors /\ c.late = 0
      /\ c.began <= TotalTimeout + Discovering(c.at - 1)
      /\ c.now - c.began <= TotalTimeout + Longest
      /\ c.sent <= c.outer * PerAttempt(c.op) + (c.at - 1) * (MaxRetries + 1) + c.inner + 1
  <2>1. Spent(c) /\ c.at \in 1..3 /\ c.at \in 1..Len(Requests[c.op])
    BY InAttemptSpent DEF InAttempt
  <2>2. Nested(c) /\ c.inner < MaxRetries /\ c.result \in AllErrors /\ c.late = 0
    BY DEF CallInv, Placed, Stops
  <2>3. QED
    BY <2>1, <2>2 DEF CallInv, Counts, Lasts, InAttempt
<1>2. /\ c \in Calls /\ c.inner \in 0..MaxRetries /\ c.inner + 1 \in 0..MaxRetries
      /\ Backoff[c.inner] \in 1..MaxDelay /\ Backoff[c.inner] \in Nat
      /\ c.now \in Nat /\ c.began \in Nat /\ c.sent \in Nat
  <2>1. c \in Calls
    BY <1>1 DEF Spent
  <2>2. /\ c.inner \in 0..MaxRetries /\ c.now \in Nat /\ c.began \in Nat /\ c.sent \in Nat
    BY <2>1 DEF Calls
  <2>3. Backoff[c.inner] \in 1..MaxDelay
    BY <2>2, Numbers
  <2>4. c.inner + 1 \in 0..MaxRetries
    <3>1. c.inner < MaxRetries
      BY <1>1
    <3>2. QED
      BY <3>1, <2>2, Numbers
  <2>5. QED
    BY <2>1, <2>2, <2>3, <2>4, Numbers
<1> DEFINE b == Moves(c, "inner", c.at, c.inner + 1, c.began, c.result)
           d == Passes(b, Backoff[c.inner])
<1>3. /\ b \in Calls /\ b.pc = "inner" /\ b.at = c.at /\ b.inner = c.inner + 1
      /\ b.began = c.began /\ b.result = c.result /\ b.op = c.op /\ b.outer = c.outer
      /\ b.now = c.now /\ b.sent = c.sent /\ b.cancelled = c.cancelled /\ b.late = c.late
  <2>1. "inner" \in CallPcs /\ c.at \in 0..3 /\ c.result \in Results
    BY <1>1 DEF CallPcs, Results
  <2>2. c \in Calls /\ c.inner + 1 \in 0..MaxRetries /\ c.began \in Nat
    BY <1>2
  <2>3. QED
    <3> DEFINE n == c.inner + 1
               r == c.result
    <3>1. n \in 0..MaxRetries /\ r \in Results
      BY <2>1, <2>2
    <3> HIDE DEF n, r
    <3>2. LET f == Moves(c, "inner", c.at, n, c.began, r) IN
          /\ f \in Calls /\ f.pc = "inner" /\ f.at = c.at /\ f.inner = n
          /\ f.began = c.began /\ f.result = r /\ f.op = c.op /\ f.outer = c.outer
          /\ f.now = c.now /\ f.sent = c.sent /\ f.cancelled = c.cancelled
          /\ f.late = c.late
      BY <2>2, <3>1, InnerFields
    <3>3. QED
      BY <3>2 DEF n, r
<1>4. InnerAgain(c) = d
  BY DEF InnerAgain
<1> HIDE DEF b
<1>5. /\ d \in Calls /\ d.pc = "inner" /\ d.at = c.at /\ d.inner = c.inner + 1
      /\ d.began = c.began /\ d.result = c.result /\ d.op = c.op /\ d.outer = c.outer
      /\ d.now = c.now + Backoff[c.inner] /\ d.sent = c.sent /\ d.late = 0
      /\ d.cancelled = c.cancelled
  <2>1. /\ d \in Calls /\ d.pc = b.pc /\ d.at = b.at /\ d.inner = b.inner
        /\ d.began = b.began /\ d.result = b.result /\ d.op = b.op /\ d.outer = b.outer
        /\ d.now = b.now + Backoff[c.inner] /\ d.sent = b.sent
        /\ (~b.cancelled => d.late = b.late) /\ d.cancelled = b.cancelled
    BY <1>2, <1>3, PassesFields
  <2> HIDE DEF d
  <2>2. QED
    BY <1>1, <1>3, <2>1
<1> HIDE DEF d
<1>6. Nested(d) /\ d.inner > 0
  BY <1>1, <1>2, <1>5 DEF Nested, Request
<1>7. Placed(d)
  BY <1>1, <1>5, <1>6 DEF Placed, Spent
<1>8. Counts(d)
  <2> DEFINE P == c.outer * PerAttempt(c.op) + (c.at - 1) * (MaxRetries + 1)
  <2>1. P \in Nat /\ c.sent <= P + c.inner + 1
    BY <1>1, InAttemptSpent DEF InAttempt
  <2>2. c.sent <= P + (c.inner + 1)
    <3> HIDE DEF P
    <3>1. QED
      BY <1>2, <2>1
  <2>3. QED
    BY <1>5, <2>2 DEF Counts
<1>9. Lasts(d)
  <2>1. d.now - d.began <= TotalTimeout + Longest + MaxDelay
    BY <1>1, <1>2, <1>5, Numbers, SMTT(40)
  <2>2. QED
    BY <1>1, <1>5, <2>1 DEF Lasts
<1>10. Stops(d)
  BY <1>1, <1>5, Numbers DEF Stops
<1>11. QED
  BY <1>4, <1>5, <1>7, <1>8, <1>9, <1>10 DEF Kept, CallInv

LEMMA SleptKeeps ==
  ASSUME NEW c, CallInv(c), c.pc \in {"outer_backoff", "inner_backoff"}
  PROVE  Kept(c, Slept(c))
<1>1. CASE c.pc = "outer_backoff" /\ c.cancelled
  <2>1. Discoveries(c.op) \in 0..2
    BY DEF Discoveries
  <2>2. Discovering(Discoveries(c.op)) \in Nat
    BY <2>1, Numbers DEF Discovering
  <2>3. /\ c \in Calls /\ c.op \in Ops /\ DurationWithin(c)
        /\ c.sent <= c.outer * PerAttempt(c.op) + PerAttempt(c.op)
        /\ c.late <= Longest /\ (~c.cancelled => c.late = 0)
    BY <1>1, <2>2, Numbers, SMTT(40)
    DEF CallInv, Placed, Counts, Lasts, Stops, DurationWithin, Calls
  <2>4. QED
    BY <1>1, <2>3, EndsKeeps DEF Slept
<1>2. CASE c.pc = "inner_backoff" /\ c.cancelled
  <2>1. Spent(c)
    BY <1>2, InAttemptSpent DEF InAttempt
  <2>2. QED
    BY <1>2, <2>1, AttemptFailsKeeps DEF Slept
<1>3. CASE ~c.cancelled
  BY <1>3, OuterAgainKeeps, InnerAgainKeeps DEF Slept
<1>4. QED
  BY <1>1, <1>2, <1>3

-----------------------------------------------------------------------------
\* Every step of withRetry keeps the invariant of the call it belongs to, and a call
\* whose context is done sends nothing.
LEMMA StepKeeps ==
  ASSUME NEW c, CallInv(c), NEW d \in Continuations(c)
  PROVE  Kept(c, d)
<1>1. CASE c.pc = "outer"
  BY <1>1, OuterHeadKeeps DEF Continuations
<1>2. CASE c.pc = "inner"
  BY <1>2, InnerHeadKeeps DEF Continuations
<1>3. CASE c.pc = "flight"
  <2>1. d \in Outcomes(c)
    BY <1>3 DEF Continuations
  <2>2. CASE c.cancelled /\ Request(c) = "call"
    BY <1>3, <2>1, <2>2, RefusedKeeps DEF Outcomes
  <2>3. CASE ~(c.cancelled /\ Request(c) = "call")
    <3>1. Errors \subseteq AllErrors
      BY RetryAssumption
    <3>2. CASE \E t \in RequestTimes : d = Answered(Passes(c, t))
      BY <1>3, <2>3, <3>2, AnsweredKeeps
    <3>3. CASE \E t \in RequestTimes, e \in Errors : d = RequestFails(Passes(c, t), e)
      BY <1>3, <2>3, <3>1, <3>3, FailsKeeps
    <3>4. QED
      BY <2>1, <2>3, <3>2, <3>3 DEF Outcomes
  <2>4. QED
    BY <2>2, <2>3
<1>4. CASE c.pc \in {"outer_backoff", "inner_backoff"}
  BY <1>4, SleptKeeps DEF Continuations
<1>5. CASE c.pc \in {"idle", "done"}
  BY <1>5 DEF Continuations
<1>6. c.pc \in CallPcs
  BY DEF CallInv, Calls
<1>7. QED
  BY <1>1, <1>2, <1>3, <1>4, <1>5, <1>6 DEF CallPcs

\* The bounds follow at every place of a call, not only at its end.
LEMMA InvBounds ==
  ASSUME NEW c, CallInv(c)
  PROVE  RequestsWithin(c) /\ DurationWithin(c)
<1>1. CASE c.pc = "idle"
  BY <1>1 DEF CallInv, Placed, RequestsWithin, DurationWithin
<1>2. CASE c.pc # "idle"
  <2>1. c \in Calls /\ c.op \in Ops
    BY <1>2 DEF CallInv, Placed
  <2>2. /\ c.sent \in Nat /\ c.now \in Nat /\ c.outer \in 0..MaxRetries
    BY <2>1 DEF Calls
  <2>3. PerAttempt(c.op) \in Nat /\ Discovering(Discoveries(c.op)) \in Nat
    <3>1. 1 \in 1..Len(Requests[c.op])
      BY <2>1, Programs
    <3>2. QED
      BY <2>1, <3>1, Accounting
  <2>4. /\ c.outer * PerAttempt(c.op) \in Nat
        /\ c.outer * PerAttempt(c.op) + PerAttempt(c.op) <= (MaxRetries + 1) * PerAttempt(c.op)
    <3>1. c.outer \in Nat /\ MaxRetries + 1 \in Nat /\ c.outer < MaxRetries + 1
      BY <2>2, Numbers
    <3>2. QED
      BY <2>3, <3>1, Products
  <2>5. /\ c.sent <= c.outer * PerAttempt(c.op) + PerAttempt(c.op)
        /\ DurationWithin(c)
    <3>1. CASE c.pc \in InAttempt
      <4>1. Spent(c)
        BY <3>1, InAttemptSpent
      <4>2. QED
        BY <2>2, <2>3, <4>1, Numbers DEF Spent, DurationWithin
    <3>2. CASE c.pc = "outer"
      <4>1. c.sent <= c.outer * PerAttempt(c.op) /\ DurationWithin(c)
        BY <3>2 DEF CallInv, Counts, Lasts
      <4>2. QED
        BY <2>2, <2>3, <2>4, <4>1
    <3>3. CASE c.pc = "outer_backoff"
      <4>1. /\ c.sent <= c.outer * PerAttempt(c.op) + PerAttempt(c.op)
            /\ c.now <= TotalTimeout + Discovering(Discoveries(c.op)) + Longest + MaxDelay
        BY <3>3 DEF CallInv, Counts, Lasts
      <4>2. QED
        BY <2>2, <2>3, <4>1, Numbers DEF DurationWithin
    <3>4. CASE c.pc = "done"
      BY <3>4 DEF CallInv, Counts, Lasts
    <3>5. QED
      BY <1>2, <2>1, <3>1, <3>2, <3>3, <3>4 DEF Calls, CallPcs, InAttempt
  <2> DEFINE P == c.outer * PerAttempt(c.op) + PerAttempt(c.op)
             Q == (MaxRetries + 1) * PerAttempt(c.op)
  <2>6. P \in Nat /\ Q \in Nat /\ P <= Q /\ c.sent <= P
    <3>1. MaxRetries + 1 \in Nat
      BY Numbers
    <3>2. Q \in Nat /\ P \in Nat
      BY <2>3, <2>4, <3>1
    <3>3. QED
      BY <2>4, <2>5, <3>2
  <2>7. c.sent <= Q
    <3> HIDE DEF P, Q
    <3>1. QED
      BY <2>2, <2>6
  <2>8. QED
    BY <2>5, <2>7 DEF RequestsWithin
<1>3. QED
  BY <1>1, <1>2
=============================================================================
