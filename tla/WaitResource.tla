---------------------------- MODULE WaitResource ----------------------------
(***************************************************************************)
(* k8sconnect_wait: Create and Update wait for the object to exist and then *)
(* for a field, a field value, a condition or a rollout, with a watch that  *)
(* falls back to polling; Read drops the resource when the object is gone   *)
(* and refreshes the extracted field.                                       *)
(*                                                                          *)
(* Time advances in poll intervals (2 s) and only while a wait is waiting:  *)
(* API calls take no time, and a timer that is due fires before time goes   *)
(* on.  The kind of wait_for does not change in a behaviour.                *)
(***************************************************************************)
EXTENDS ResilientWatcher

CONSTANTS
    Modes,        \* kinds of wait_for to consider
    Timeout,      \* wait_for.timeout
    WatchInText   \* TRUE: a name or a message of the object contains "watch"

AllModes == {"field", "value", "condition", "rollout"}

ASSUME ModeAssumption == Modes \subseteq AllModes /\ Modes # {}
ASSUME TimeoutAssumption == Timeout \in Nat
ASSUME TextAssumption == WatchInText \in BOOLEAN

VARIABLES
    mode,       \* the kind of wait_for
    pc,         \* what the handler is doing
    now,        \* time since the handler was called
    deadline,   \* of the running timer
    last,       \* version of lastSeenObj, 0 for nil
    saved,      \* Terraform state: no resource, or its result attribute
    outcome,    \* of the last Create or Update
    start,      \* history: version when the handler was called
    first,      \* history: oldest version it has examined since it waits
    seen        \* history: newest version it has examined since it waits

clock == <<now, deadline>>
history == <<start, first, seen>>
watcher == <<wpc, wrv, wpos>>
vars == <<hist, watcher, stopped, cancelled, mode, pc, clock, last, saved,
          outcome, history>>

Pcs == {"idle", "exist", "appear", "check", "open", "watch", "poll",
        "result", "refresh"}

\* Phases in which the handler waits for a timer.
Waiting == {"appear", "watch", "poll"}

GetMayFail == Current = "absent" \/ "get" \in Failures \/ cancelled
Gets(c) == Current # "absent" /\ Current = c
TickerFired == now + Timeout > deadline

-----------------------------------------------------------------------------
(* Steps the phases share.                                                  *)

Goto(label) == pc' = label

\* Mutant: the timer runs for twice the timeout.
ArmsTwice == deadline' = now + 2 * Timeout /\ now' = now

\* A timer of the full wait_for.timeout.
Arms == deadline' = now + Timeout /\ now' = now

Examines(v) ==
    /\ first' = IF first = 0 THEN v ELSE first
    /\ seen' = v
    /\ start' = start

\* "defer watcher.Stop()": a wait that ends stops the watcher it opened.
Fails(o) ==
    /\ Goto("idle")
    /\ outcome' = o
    /\ stopped' = TRUE
    /\ UNCHANGED saved

\* Only a field wait has a result, which it reads once more.
Succeeds ==
    /\ outcome' = "ok"
    /\ stopped' = TRUE
    /\ IF mode = "field"
       THEN Goto("result") /\ UNCHANGED saved
       ELSE Goto("idle") /\ saved' = "null"

-----------------------------------------------------------------------------
(* Create and Update.                                                       *)

\* Watchers of different waits share nothing: one at a time is enough.
Start ==
    /\ pc = "idle"
    /\ WatcherOver
    /\ Goto("exist")
    /\ wpc' = "off" /\ wrv' = 0 /\ wpos' = 0
    /\ stopped' = FALSE /\ cancelled' = FALSE
    /\ now' = 0 /\ deadline' = 0 /\ last' = 0
    /\ outcome' = "none"
    /\ start' = Len(hist) /\ first' = 0 /\ seen' = 0
    /\ UNCHANGED <<hist, mode, saved>>

\* waitForExistence, fast path.
Exist ==
    /\ pc = "exist"
    /\ \/ /\ Current # "absent"
          /\ Goto("check")
          /\ UNCHANGED <<clock, stopped, saved, outcome>>
       \/ /\ Current = "absent"
          /\ Goto("appear")
          /\ Arms
          /\ UNCHANGED <<stopped, saved, outcome>>
       \/ /\ "get" \in Failures \/ cancelled
          /\ Fails("error")
          /\ UNCHANGED clock
    /\ UNCHANGED <<hist, watcher, cancelled, mode, last, history>>

\* waitForExistence, polling.
Appear ==
    /\ pc = "appear"
    /\ \/ /\ TickerFired /\ Current # "absent"
          /\ Goto("check")
          /\ UNCHANGED <<stopped, saved, outcome>>
       \/ /\ TickerFired /\ "get" \in Failures
          /\ Fails("error")
       \/ /\ now >= deadline /\ ~cancelled
          /\ Fails("timeout")
    /\ UNCHANGED <<hist, watcher, cancelled, mode, clock, last, history>>

\* The first Get of waitForField, waitForFieldValues, waitWithCheck and
\* waitForCondition.
Check ==
    /\ pc = "check"
    /\ \/ /\ Gets("met")
          /\ Succeeds
          /\ Examines(Len(hist))
          /\ UNCHANGED <<watcher, clock>>
       \/ /\ Gets("unmet") /\ mode # "condition"
          /\ Opens(Len(hist)) /\ Arms
          /\ Goto("watch")
          /\ Examines(Len(hist))
          /\ UNCHANGED <<stopped, saved, outcome>>
       \/ /\ GetMayFail /\ mode \in {"field", "rollout"}
          /\ Arms
          /\ Goto("poll")
          /\ UNCHANGED <<watcher, stopped, saved, outcome, history>>
       \/ /\ GetMayFail /\ mode = "value"
          /\ Opens(0) /\ Arms
          /\ Goto("watch")
          /\ UNCHANGED <<stopped, saved, outcome, history>>
       \/ /\ Gets("unmet") \/ GetMayFail
          /\ mode = "condition"
          /\ Goto("open")
          /\ UNCHANGED <<watcher, clock, stopped, saved, outcome, history>>
    /\ UNCHANGED <<hist, cancelled, mode, last>>

\* watchForCondition: its Get is for the resourceVersion only.
Open ==
    /\ pc = "open"
    /\ \/ Current # "absent" /\ Opens(Len(hist))
       \/ GetMayFail /\ Opens(0)
    /\ Arms
    /\ Goto("watch")
    /\ UNCHANGED <<hist, stopped, cancelled, mode, last, saved, outcome, history>>

\* Mutant: whatever event arrives ends a wait.
ReceiveAnything(v) ==
    /\ pc = "watch"
    /\ SendsVersion(v)
    /\ last' = v /\ Succeeds /\ Examines(v)
    /\ UNCHANGED <<hist, cancelled, mode, clock>>

\* An event of the watch.  A deletion is ignored.
Receive(v) ==
    /\ pc = "watch"
    /\ SendsVersion(v)
    /\ last' = IF mode = "condition" /\ hist[v] # "absent" THEN v ELSE last
    /\ IF hist[v] = "met" THEN Succeeds
       ELSE UNCHANGED <<pc, stopped, saved, outcome>>
    /\ Examines(v)
    /\ UNCHANGED <<hist, cancelled, mode, clock>>

\* An error event: poll, for another full timeout.  watchForCondition has
\* returned by then, and stopped its watcher; the others keep it, unread.
ReceiveError ==
    /\ pc = "watch"
    /\ SendsError
    /\ Goto("poll")
    /\ Arms
    /\ stopped' = (stopped \/ mode = "condition")
    /\ UNCHANGED <<hist, cancelled, mode, last, saved, outcome, history>>

\* The goroutine has closed the channel: "watch ended unexpectedly", which
\* waitForCondition takes for a reason to poll.
ReceiveClosed ==
    /\ pc = "watch"
    /\ wpc = "gone"
    /\ \/ /\ mode = "condition"
          /\ Goto("poll") /\ Arms /\ stopped' = TRUE
          /\ UNCHANGED <<saved, outcome>>
       \/ /\ mode # "condition"
          /\ Fails("error")
          /\ UNCHANGED clock
    /\ UNCHANGED <<hist, watcher, cancelled, mode, last, history>>

\* The timer of the watch.  A condition wait looks at lastSeenObj or, without
\* one, at the object; a rollout wait reads it for the message only.
TimerFires == pc = "watch" /\ now >= deadline

TimeoutIsMet == IF last # 0 THEN hist[last] = "met" ELSE Gets("met")

TimeoutIsNotMet ==
    IF last # 0 THEN hist[last] # "met" ELSE GetMayFail \/ Current # "met"

\* The error of a condition wait names the object and quotes its conditions;
\* isWatchError takes every text with "watch" in it for a failed watch.
WatchTimeout ==
    /\ TimerFires
    /\ \/ /\ mode = "condition" /\ TimeoutIsMet
          /\ Succeeds
          /\ UNCHANGED clock
       \/ /\ mode = "condition" => TimeoutIsNotMet
          /\ Fails("timeout")
          /\ UNCHANGED clock
       \/ /\ mode = "condition" /\ TimeoutIsNotMet /\ WatchInText
          /\ Goto("poll") /\ Arms /\ stopped' = TRUE
          /\ UNCHANGED <<saved, outcome>>
    /\ UNCHANGED <<hist, watcher, cancelled, mode, last, history>>

\* Mutant: polling has no deadline.
PollForever ==
    /\ pc = "poll" /\ TickerFired /\ Gets("met")
    /\ Succeeds /\ Examines(Len(hist))
    /\ UNCHANGED <<hist, watcher, cancelled, mode, clock, last>>

\* A tick of pollForField and the like: the deadline first, then the object;
\* what cannot be read or is not met is polled again.
Poll ==
    /\ pc = "poll"
    /\ \/ /\ now <= deadline /\ TickerFired
          /\ Gets("met")
          /\ Succeeds
          /\ Examines(Len(hist))
       \/ /\ now > deadline
          /\ Fails("timeout")
          /\ UNCHANGED history
    /\ UNCHANGED <<hist, watcher, cancelled, mode, clock, last>>

\* ctx.Done() in a select.
Interrupted ==
    /\ pc \in Waiting
    /\ cancelled
    /\ Fails("error")
    /\ UNCHANGED <<hist, watcher, cancelled, mode, clock, last, history>>

\* updateStatus of a field wait: what cannot be read, or is missing by now,
\* is saved as null.
TakeResult ==
    /\ pc \in {"result", "refresh"}
    /\ Goto("idle")
    /\ \/ Gets("met") /\ saved' = "value"
       \/ Gets("unmet") /\ saved' \in {"value", "null"}   \* empty, or missing
       \/ /\ Current = "absent" \/ "get" \in Failures \/ (cancelled /\ pc = "result")
          /\ saved' = "null"
    /\ UNCHANGED <<hist, watcher, stopped, cancelled, mode, clock, last, outcome,
                   history>>

-----------------------------------------------------------------------------
(* Read and Delete.  A Read that cannot authenticate or fails changes nothing. *)

Read ==
    /\ pc = "idle"
    /\ saved # "none"
    /\ \/ /\ Current = "absent"
          /\ saved' = "none"
          /\ UNCHANGED pc
       \/ /\ Current # "absent" /\ mode = "field"
          /\ Goto("refresh")
          /\ UNCHANGED saved
    /\ UNCHANGED <<hist, watcher, stopped, cancelled, mode, clock, last, outcome,
                   history>>

Delete ==
    /\ pc = "idle"
    /\ saved # "none"
    /\ saved' = "none"
    /\ UNCHANGED <<hist, watcher, stopped, cancelled, mode, pc, clock, last,
                   outcome, history>>

-----------------------------------------------------------------------------
(* The environment.                                                         *)

\* Is the running timer due?  Polling looks at its own only on a tick.
Due == IF pc = "poll" THEN now > deadline ELSE now >= deadline

Tick ==
    /\ pc \in Waiting
    /\ ~Due
    /\ now' = now + 1
    /\ UNCHANGED <<hist, watcher, stopped, cancelled, mode, pc, deadline, last,
                   saved, outcome, history>>

\* Terraform is interrupted, or the request is over.
Cancel ==
    /\ ~cancelled
    /\ cancelled' = TRUE
    /\ UNCHANGED <<hist, watcher, stopped, mode, pc, clock, last, saved, outcome,
                   history>>

Unrelated ==
    UNCHANGED <<mode, pc, clock, last, saved, outcome, history>>

Init ==
    /\ hist \in {<<c>> : c \in Contents}
    /\ wpc = "off" /\ wrv = 0 /\ wpos = 0
    /\ stopped = FALSE /\ cancelled = FALSE
    /\ mode \in Modes
    /\ pc = "idle" /\ now = 0 /\ deadline = 0 /\ last = 0
    /\ saved = "none" /\ outcome = "none"
    /\ start = 1 /\ first = 0 /\ seen = 0

\* What a handler that has been called does next.
HandlerStep ==
    \/ Exist \/ Appear \/ Check \/ Open
    \/ (\E v \in 1..MaxVersions : Receive(v)) \/ ReceiveError \/ ReceiveClosed
    \/ WatchTimeout \/ Poll \/ Interrupted \/ TakeResult

Next ==
    \/ HandlerStep
    \/ Start \/ Read \/ Delete
    \/ WatcherStep /\ Unrelated
    \/ Tick \/ Cancel
    \/ ObjectChanges /\ UNCHANGED <<watcher, stopped, cancelled>> /\ Unrelated

Spec == Init /\ [][Next]_vars

\* A called handler runs on and time passes; the goroutine runs on; when a
\* request is over its context is cancelled (by gRPC), and client-go then
\* closes the watch.
FairSpec ==
    /\ Spec
    /\ WF_vars(HandlerStep) /\ WF_vars(Tick)
    /\ WF_vars((Top \/ DialSucceeds \/ DialFails \/ Wakes)
               /\ UNCHANGED <<hist, stopped, cancelled>> /\ Unrelated)
    /\ WF_vars(pc \in {"idle", "refresh"} /\ Cancel)
    /\ WF_vars(cancelled /\ StreamCloses
               /\ UNCHANGED <<hist, stopped, cancelled>> /\ Unrelated)

-----------------------------------------------------------------------------
(* Properties.                                                              *)

TypeOK ==
    /\ hist \in Seq(Contents) /\ Len(hist) \in 1..MaxVersions
    /\ wpc \in WatcherPcs
    /\ wrv \in 0..MaxVersions /\ wpos \in 0..MaxVersions
    /\ stopped \in BOOLEAN /\ cancelled \in BOOLEAN
    /\ mode \in AllModes
    /\ pc \in Pcs
    /\ now \in Nat /\ deadline \in Nat
    /\ last \in 0..MaxVersions
    /\ saved \in {"none", "null", "value"}
    /\ outcome \in {"none", "ok", "timeout", "error"}
    /\ start \in 1..MaxVersions
    /\ first \in 0..MaxVersions /\ seen \in 0..MaxVersions

\* What the goroutine has handed over, and resumes from, is a version of this
\* wait: none of them is older than the call.
Positions ==
    /\ start <= Len(hist)
    /\ wrv <= Len(hist) /\ wpos <= Len(hist) /\ last <= Len(hist)
    /\ wrv # 0 => start <= wrv
    /\ last # 0 => start <= last
    /\ wpc = "stream" => start <= wpos + 1 /\ (wrv # 0 => wpos = wrv)

\* A wait that watches from the version it has checked never passes over a
\* version that met it, however often the server ends the watch: everything
\* between the first and the newest version it has examined did not.
NoVersionSkipped ==
    pc = "watch" /\ mode # "condition" =>
        \A v \in first..seen : v > 0 => hist[v] # "met"

\* Such a wait resumes from the newest version it has examined.
Resumes ==
    /\ pc \in {"exist", "appear", "check"} => first = 0 /\ seen = 0
    /\ pc = "open" => mode = "condition"
    /\ pc = "watch" /\ mode # "condition" =>
          seen = wrv /\ seen <= Len(hist) /\ (first = 0 <=> seen = 0)

\* A wait succeeds only if the object met it at some version since the call.
SuccessJustified ==
    outcome = "ok" => \E v \in start..Len(hist) : hist[v] = "met"

\* How late it may be in each phase.
Timers ==
    /\ pc = "exist" => now = 0
    /\ pc \in {"check", "open"} => now <= Timeout
    /\ pc = "appear" => deadline = Timeout /\ now <= deadline
    /\ pc = "watch" => deadline \in Timeout..(2 * Timeout) /\ now <= deadline
    /\ pc = "poll" => deadline \in Timeout..(3 * Timeout) /\ now <= deadline + 1

\* A wait fails with a timeout only once the timeout has passed, and it never
\* takes longer than waiting for existence, watching and polling may together.
TimeoutHonest ==
    /\ outcome = "timeout" => now >= Timeout
    /\ now <= 3 * Timeout + 1

\* The three properties made inductive.
WaitInv ==
    /\ TypeOK /\ Positions /\ Resumes /\ Timers
    /\ NoVersionSkipped /\ SuccessJustified /\ TimeoutHonest

\* Every handler returns, by success, error or timeout.
WaitEnds == pc # "idle" ~> pc = "idle"

\* After Stop the goroutine ends, unless it offers an error nobody reads:
\* that hand-over listens neither to Stop nor to the context.
GoroutineEnds == stopped ~> WatcherOver
=============================================================================
