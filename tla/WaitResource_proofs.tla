------------------------ MODULE WaitResource_proofs ------------------------
(***************************************************************************)
(* WaitInv is an inductive invariant of WaitResource, for every number of   *)
(* versions, timeout, kind of wait and set of failures.  One lemma per      *)
(* phase of the handler; each names what its steps leave alone.             *)
(***************************************************************************)
EXTENDS WaitResource, SequenceTheorems, TLAPS

\* The parts of WaitInv that depend on the history of the object alone.
LEMMA CurrentIsVersion ==
  ASSUME WaitInv
  PROVE  /\ Len(hist) \in 1..MaxVersions /\ MaxVersions \in Nat
         /\ \A v \in 1..Len(hist) : hist[v] \in Contents
         /\ Current = hist[Len(hist)] /\ Current \in Contents
BY VersionAssumption DEF WaitInv, TypeOK, Current

\* A new version leaves the older ones as they were.
LEMMA ObjectChangesInv ==
  ASSUME WaitInv, ObjectChanges, UNCHANGED <<watcher, stopped, cancelled>>, Unrelated
  PROVE  WaitInv'
<1> USE DEF WaitInv
<1>1. PICK c \in Contents : hist' = Append(hist, c)
  BY DEF ObjectChanges
<1>2. /\ hist' \in Seq(Contents)
      /\ Len(hist') = Len(hist) + 1
      /\ \A v \in 1..Len(hist) : hist'[v] = hist[v]
  BY <1>1, AppendProperties DEF TypeOK
<1>3. Len(hist) \in Nat /\ MaxVersions \in Nat
  BY VersionAssumption DEF TypeOK
<1>4. TypeOK'
  BY <1>2, <1>3 DEF TypeOK, ObjectChanges, Unrelated, watcher, clock, history
<1>5. Positions'
  BY <1>2, <1>3 DEF Positions, Unrelated, watcher, clock, history, TypeOK
<1>6. Resumes' /\ Timers' /\ TimeoutHonest'
  BY <1>2, <1>3 DEF Resumes, Timers, TimeoutHonest, Unrelated, watcher, clock, history, TypeOK
<1>7. NoVersionSkipped'
  <2>1. SUFFICES ASSUME pc = "watch", mode # "condition",
                        NEW v \in first..seen, v > 0
                 PROVE  hist'[v] # "met"
    BY DEF NoVersionSkipped, Unrelated, history
  <2>2. v \in 1..Len(hist)
    BY <2>1, <1>3 DEF Resumes, TypeOK
  <2>3. QED
    BY <1>2, <2>1, <2>2 DEF NoVersionSkipped
<1>8. SuccessJustified'
  <2>1. SUFFICES ASSUME outcome = "ok"
                 PROVE  \E v \in start..Len(hist') : hist'[v] = "met"
    BY DEF SuccessJustified, Unrelated, history
  <2>2. PICK v \in start..Len(hist) : hist[v] = "met"
    BY <2>1 DEF SuccessJustified
  <2>3. v \in 1..Len(hist) /\ v \in start..Len(hist')
    BY <1>2, <1>3 DEF TypeOK
  <2>4. QED
    BY <1>2, <2>2, <2>3
<1>9. QED
  BY <1>4, <1>5, <1>6, <1>7, <1>8

\* The goroutine moves without its reader.
LEMMA WatcherStepInv ==
  ASSUME WaitInv, WatcherStep, Unrelated
  PROVE  WaitInv'
<1> USE DEF WaitInv, WatcherStep, Unrelated, clock, history, WatcherPcs
<1>0. Len(hist) \in 1..MaxVersions /\ MaxVersions \in Nat
  BY CurrentIsVersion
<1>1. TypeOK'
  BY <1>0 DEF TypeOK, Top, DialSucceeds, DialFails, Leaves, StreamCloses, Wakes
<1>2. Positions'
  BY <1>0 DEF Positions, TypeOK, Top, DialSucceeds, DialFails, Leaves, StreamCloses, Wakes
<1>3. wrv' = wrv
  BY DEF Top, DialSucceeds, DialFails, Leaves, StreamCloses, Wakes
<1>4. Resumes' /\ Timers' /\ TimeoutHonest' /\ NoVersionSkipped' /\ SuccessJustified'
  BY <1>3 DEF Resumes, Timers, TimeoutHonest, NoVersionSkipped, SuccessJustified
<1>5. QED
  BY <1>1, <1>2, <1>4

\* The handler stops waiting without looking at the object again.
LEMMA FailsInv ==
  ASSUME WaitInv, NEW o \in {"timeout", "error"}, Fails(o),
         o = "timeout" => now >= Timeout,
         UNCHANGED <<hist, watcher, cancelled, mode, clock, last, history>>
  PROVE  WaitInv'
<1> USE DEF WaitInv, Fails, Goto, clock, history, watcher
<1>1. TypeOK'
  BY DEF TypeOK, Pcs
<1>2. Positions' /\ Resumes' /\ Timers' /\ NoVersionSkipped' /\ SuccessJustified'
  BY DEF Positions, Resumes, Timers, NoVersionSkipped, SuccessJustified
<1>3. TimeoutHonest'
  BY DEF TimeoutHonest
<1>4. QED
  BY <1>1, <1>2, <1>3

\* The handler finds a version of this wait that meets it.
LEMMA SucceedsInv ==
  ASSUME WaitInv, Succeeds, TypeOK', Positions',
         NEW v \in start..Len(hist), hist[v] = "met",
         UNCHANGED <<hist, mode, clock, start>>
  PROVE  WaitInv'
<1> USE DEF WaitInv, Succeeds, Goto, clock
<1>1. pc' \in {"idle", "result"}
  OBVIOUS
<1>2. Resumes' /\ Timers' /\ NoVersionSkipped'
  BY <1>1 DEF Resumes, Timers, NoVersionSkipped
<1>3. SuccessJustified'
  BY DEF SuccessJustified
<1>4. TimeoutHonest'
  BY DEF TimeoutHonest
<1>5. QED
  BY <1>2, <1>3, <1>4

LEMMA StartInv ==
  ASSUME WaitInv, Start
  PROVE  WaitInv'
<1> USE DEF Start, Goto
<1>0. Len(hist) \in 1..MaxVersions /\ MaxVersions \in Nat
  BY CurrentIsVersion
<1>1. TypeOK'
  <2>1. TypeOK
    BY DEF WaitInv
  <2>2. start' \in 1..MaxVersions
    BY <1>0
  <2>3. /\ wrv' \in 0..MaxVersions /\ wpos' \in 0..MaxVersions /\ last' \in 0..MaxVersions
        /\ first' \in 0..MaxVersions /\ seen' \in 0..MaxVersions
        /\ now' \in Nat /\ deadline' \in Nat
    BY <1>0
  <2>4. hist' \in Seq(Contents) /\ Len(hist') \in 1..MaxVersions
    BY <2>1 DEF TypeOK
  <2>5. QED
    BY <2>1, <2>2, <2>3, <2>4 DEF TypeOK, Pcs, WatcherPcs
<1>2. Positions' /\ Resumes' /\ Timers' /\ NoVersionSkipped' /\ SuccessJustified'
  BY <1>0 DEF Positions, Resumes, Timers, NoVersionSkipped, SuccessJustified
<1>3. TimeoutHonest'
  BY TimeoutAssumption DEF TimeoutHonest
<1>4. QED
  BY <1>1, <1>2, <1>3 DEF WaitInv

\* A step that moves neither the handler's clock nor its view of the object:
\* enough for the steps between waits.
LEMMA QuietInv ==
  ASSUME WaitInv, TypeOK', UNCHANGED <<hist, watcher, mode, clock, last, history>>,
         outcome' = outcome, pc' = pc \/ pc' \in {"idle", "refresh"}
  PROVE  WaitInv'
<1>1. Positions' /\ Resumes' /\ NoVersionSkipped' /\ SuccessJustified'
  BY DEF WaitInv, Positions, Resumes, NoVersionSkipped, SuccessJustified, watcher, history
<1>2. Timers' /\ TimeoutHonest'
  BY DEF WaitInv, Timers, TimeoutHonest, clock
<1>3. QED
  BY <1>1, <1>2 DEF WaitInv

LEMMA QuietStepsInv ==
  ASSUME WaitInv, TakeResult \/ Read \/ Delete \/ Cancel \/ UNCHANGED vars
  PROVE  WaitInv'
<1>0. TypeOK
  BY DEF WaitInv
<1>a. /\ UNCHANGED <<hist, watcher, mode, clock, last, history>> /\ outcome' = outcome
      /\ stopped' = stopped
  BY DEF TakeResult, Read, Delete, Cancel, vars
<1>b. pc' \in Pcs /\ saved' \in {"none", "null", "value"} /\ cancelled' \in BOOLEAN
  <2>1. CASE TakeResult
    BY <1>0, <2>1 DEF TakeResult, Goto, TypeOK, Pcs
  <2>2. CASE Read
    BY <1>0, <2>2 DEF Read, Goto, TypeOK, Pcs
  <2>3. CASE Delete
    BY <1>0, <2>3 DEF Delete, Goto, TypeOK, Pcs
  <2>4. CASE Cancel
    BY <1>0, <2>4 DEF Cancel, TypeOK
  <2>5. CASE UNCHANGED vars
    BY <1>0, <2>5 DEF vars, TypeOK
  <2>6. QED
    BY <2>1, <2>2, <2>3, <2>4, <2>5
<1>1. TypeOK'
  BY <1>0, <1>a, <1>b DEF TypeOK, watcher, clock, history
<1>2. /\ UNCHANGED <<hist, watcher, mode, clock, last, history>> /\ outcome' = outcome
      /\ pc' = pc \/ pc' \in {"idle", "refresh"}
  BY DEF TakeResult, Read, Delete, Cancel, vars, Goto
<1>3. QED
  BY <1>1, <1>2, QuietInv

LEMMA TickInv ==
  ASSUME WaitInv, Tick
  PROVE  WaitInv'
<1> USE DEF Tick, Due, Waiting, history, watcher
<1>0. TypeOK /\ Timers /\ TimeoutHonest /\ now \in Nat /\ deadline \in Nat /\ Timeout \in Nat
  BY TimeoutAssumption DEF WaitInv, TypeOK
<1>1. TypeOK'
  BY <1>0 DEF TypeOK
<1>2. Positions' /\ Resumes' /\ NoVersionSkipped' /\ SuccessJustified'
  BY DEF WaitInv, Positions, Resumes, NoVersionSkipped, SuccessJustified
<1>3. Timers' /\ TimeoutHonest'
  BY <1>0 DEF Timers, TimeoutHonest
<1>4. QED
  BY <1>1, <1>2, <1>3 DEF WaitInv

LEMMA ExistInv ==
  ASSUME WaitInv, Exist
  PROVE  WaitInv'
<1> USE DEF Exist, Goto, clock, history, watcher
<1>0. TypeOK /\ Timers /\ TimeoutHonest /\ now \in Nat /\ Timeout \in Nat
  BY TimeoutAssumption DEF WaitInv, TypeOK
<1>1. CASE Fails("error") /\ UNCHANGED clock
  BY <1>1, FailsInv
<1>2. CASE ~(Fails("error") /\ UNCHANGED clock)
  <2>1. TypeOK'
    <3>1. deadline' \in Nat /\ now' \in Nat
      BY <1>0, <1>2 DEF TypeOK, Arms
    <3>2. /\ pc' \in Pcs
          /\ UNCHANGED <<stopped, saved, outcome>>
      BY <1>2 DEF Pcs
    <3>3. QED
      BY <1>0, <3>1, <3>2 DEF TypeOK
  <2>2. Positions' /\ Resumes' /\ NoVersionSkipped' /\ SuccessJustified'
    BY <1>2 DEF WaitInv, Positions, Resumes, NoVersionSkipped, SuccessJustified
  <2>3. Timers' /\ TimeoutHonest'
    BY <1>0, <1>2 DEF Timers, TimeoutHonest, Arms
  <2>4. QED
    BY <2>1, <2>2, <2>3 DEF WaitInv
<1>3. QED
  BY <1>1, <1>2

LEMMA AppearInv ==
  ASSUME WaitInv, Appear
  PROVE  WaitInv'
<1> USE DEF Appear, Goto, clock, history, watcher
<1>0. TypeOK /\ Timers /\ TimeoutHonest /\ now \in Nat /\ Timeout \in Nat
  BY TimeoutAssumption DEF WaitInv, TypeOK
<1>1. CASE Fails("error")
  BY <1>1, FailsInv
<1>2. CASE now >= deadline /\ Fails("timeout")
  BY <1>0, <1>2, FailsInv DEF Timers
<1>3. CASE Goto("check") /\ UNCHANGED <<stopped, saved, outcome>>
  <2>1. TypeOK'
    BY <1>0, <1>3 DEF TypeOK, Pcs
  <2>2. Positions' /\ Resumes' /\ NoVersionSkipped' /\ SuccessJustified'
    BY <1>3 DEF WaitInv, Positions, Resumes, NoVersionSkipped, SuccessJustified
  <2>3. Timers' /\ TimeoutHonest'
    BY <1>0, <1>3 DEF Timers, TimeoutHonest
  <2>4. QED
    BY <2>1, <2>2, <2>3 DEF WaitInv
<1>4. QED
  BY <1>1, <1>2, <1>3

\* The watch that starts at the version just examined, or without one.
LEMMA OpensInv ==
  ASSUME WaitInv, Arms, Goto("watch"), NEW rv \in 0..Len(hist), Opens(rv),
         rv # 0 => start <= rv, now <= Timeout,
         mode # "condition" => seen' = rv /\ (first' = 0 <=> rv = 0),
         mode # "condition" /\ rv # 0 => first' = rv /\ hist[rv] # "met",
         first' \in 0..MaxVersions, seen' \in 0..MaxVersions,
         UNCHANGED <<hist, stopped, cancelled, mode, last, saved, outcome, start>>
  PROVE  WaitInv'
<1> USE DEF Arms, Goto, Opens
<1>0. TypeOK /\ Timers /\ TimeoutHonest /\ now \in Nat /\ Timeout \in Nat
  BY TimeoutAssumption DEF WaitInv, TypeOK
<1>1. Len(hist) \in 1..MaxVersions /\ MaxVersions \in Nat
  BY CurrentIsVersion
<1>2. TypeOK'
  <2>1. wrv' \in 0..MaxVersions /\ wpos' \in 0..MaxVersions /\ deadline' \in Nat
    BY <1>0, <1>1
  <2>2. QED
    BY <1>0, <2>1 DEF TypeOK, Pcs, WatcherPcs
<1>3. Positions'
  BY <1>1 DEF WaitInv, Positions
<1>4. Resumes'
  BY <1>1 DEF Resumes
<1>5. NoVersionSkipped'
  BY <1>1 DEF NoVersionSkipped
<1>6. Timers' /\ TimeoutHonest'
  BY <1>0 DEF Timers, TimeoutHonest
<1>7. SuccessJustified'
  BY DEF WaitInv, SuccessJustified
<1>8. QED
  BY <1>2, <1>3, <1>4, <1>5, <1>6, <1>7 DEF WaitInv

\* Polling starts within twice the timeout and arms another one.
LEMMA PollsInv ==
  ASSUME WaitInv, Arms, Goto("poll"), now <= 2 * Timeout, TypeOK', Positions',
         UNCHANGED <<hist, mode, outcome, start>>
  PROVE  WaitInv'
<1> USE DEF Arms, Goto
<1>0. TypeOK /\ TimeoutHonest /\ now \in Nat /\ Timeout \in Nat
  BY TimeoutAssumption DEF WaitInv, TypeOK
<1>1. Resumes' /\ NoVersionSkipped'
  BY DEF Resumes, NoVersionSkipped
<1>2. Timers' /\ TimeoutHonest'
  BY <1>0 DEF Timers, TimeoutHonest
<1>3. SuccessJustified'
  BY DEF WaitInv, SuccessJustified
<1>4. QED
  BY <1>1, <1>2, <1>3 DEF WaitInv

LEMMA CheckInv ==
  ASSUME WaitInv, Check
  PROVE  WaitInv'
<1> USE DEF Check
<1>0. /\ TypeOK /\ Positions /\ Timers /\ TimeoutHonest
      /\ now \in Nat /\ Timeout \in Nat /\ now <= Timeout
      /\ first = 0 /\ seen = 0 /\ start \in 1..Len(hist)
  BY TimeoutAssumption DEF WaitInv, TypeOK, Timers, Resumes, Positions
<1>1. /\ Len(hist) \in 1..MaxVersions /\ MaxVersions \in Nat
      /\ Current = hist[Len(hist)]
  BY CurrentIsVersion
<1>2. CASE Gets("met") /\ Succeeds /\ Examines(Len(hist)) /\ UNCHANGED <<watcher, clock>>
  <2>1. TypeOK'
    BY <1>0, <1>1, <1>2 DEF TypeOK, Succeeds, Examines, Goto, Pcs, watcher, clock
  <2>2. Positions'
    BY <1>0, <1>2 DEF Positions, Examines, watcher
  <2>3. Len(hist) \in start..Len(hist) /\ hist[Len(hist)] = "met"
    BY <1>0, <1>1, <1>2 DEF Gets
  <2>4. QED
    BY <1>2, <2>1, <2>2, <2>3, SucceedsInv DEF Examines
<1>3. CASE /\ Gets("unmet") /\ mode # "condition" /\ Opens(Len(hist)) /\ Arms
           /\ Goto("watch") /\ Examines(Len(hist)) /\ UNCHANGED <<stopped, saved, outcome>>
  <2>1. first' = Len(hist) /\ seen' = Len(hist) /\ start' = start
    BY <1>0, <1>3 DEF Examines
  <2>2. Len(hist) \in 0..Len(hist) /\ start <= Len(hist) /\ Len(hist) # 0
    BY <1>0, <1>1
  <2>3. hist[Len(hist)] # "met"
    BY <1>1, <1>3 DEF Gets
  <2>4. first' \in 0..MaxVersions /\ seen' \in 0..MaxVersions
    BY <1>1, <2>1
  <2>5. QED
    BY <1>0, <1>3, <2>1, <2>2, <2>3, <2>4, OpensInv
<1>4. CASE /\ mode \in {"field", "rollout"} /\ Arms /\ Goto("poll")
           /\ UNCHANGED <<watcher, stopped, saved, outcome, history>>
  <2>1. TypeOK' /\ Positions'
    BY <1>0, <1>4 DEF TypeOK, Positions, Arms, Goto, Pcs, watcher, history
  <2>2. QED
    BY <1>0, <1>4, <2>1, PollsInv DEF history
<1>5. CASE /\ mode = "value" /\ Opens(0) /\ Arms /\ Goto("watch")
           /\ UNCHANGED <<stopped, saved, outcome, history>>
  <2>1. first' = 0 /\ seen' = 0 /\ start' = start /\ 0 \in 0..Len(hist)
    BY <1>0, <1>1, <1>5 DEF history
  <2>2. first' \in 0..MaxVersions /\ seen' \in 0..MaxVersions
    BY <1>1, <2>1
  <2>3. QED
    BY <1>0, <1>5, <2>1, <2>2, OpensInv
<1>6. CASE /\ mode = "condition" /\ Goto("open")
           /\ UNCHANGED <<watcher, clock, stopped, saved, outcome, history>>
  <2>1. TypeOK' /\ Positions'
    BY <1>0, <1>6 DEF TypeOK, Positions, Goto, Pcs, watcher, clock, history
  <2>2. Resumes' /\ NoVersionSkipped' /\ Timers' /\ TimeoutHonest'
    BY <1>0, <1>6 DEF Resumes, NoVersionSkipped, Timers, TimeoutHonest, Goto, clock
  <2>3. SuccessJustified'
    BY <1>6 DEF WaitInv, SuccessJustified, history
  <2>4. QED
    BY <2>1, <2>2, <2>3 DEF WaitInv
<1>7. QED
  BY <1>2, <1>3, <1>4, <1>5, <1>6

LEMMA OpenInv ==
  ASSUME WaitInv, Open
  PROVE  WaitInv'
<1> USE DEF Open
<1>0. /\ TypeOK /\ now <= Timeout /\ start <= Len(hist)
      /\ mode = "condition"
  BY DEF WaitInv, Timers, Positions, Resumes
<1>1. Len(hist) \in 1..MaxVersions /\ MaxVersions \in Nat
  BY CurrentIsVersion
<1>2. PICK rv \in {0, Len(hist)} : Opens(rv)
  OBVIOUS
<1>3. rv \in 0..Len(hist) /\ (rv # 0 => start <= rv)
  BY <1>0, <1>1
<1>4. QED
  BY <1>0, <1>2, <1>3, OpensInv DEF history, TypeOK

\* The central step: the version handed over is the one after the newest that
\* has been examined, or the first of all.
LEMMA ReceiveInv ==
  ASSUME WaitInv, NEW v \in 1..MaxVersions, Receive(v)
  PROVE  WaitInv'
<1> USE DEF Receive, SendsVersion, Examines
<1>0. /\ TypeOK /\ Positions /\ Resumes /\ NoVersionSkipped
      /\ start \in Nat /\ first \in Nat /\ seen \in Nat /\ wrv \in Nat /\ wpos \in Nat
  BY DEF WaitInv, TypeOK
<1>1. Len(hist) \in 1..MaxVersions /\ MaxVersions \in Nat
  BY CurrentIsVersion
<1>2. v \in start..Len(hist) /\ (wrv # 0 => v = wrv + 1)
  BY <1>0, <1>1 DEF Positions
<1>3. TypeOK'
  <2>1. /\ last' \in 0..MaxVersions /\ first' \in 0..MaxVersions
        /\ seen' \in 0..MaxVersions /\ wrv' \in 0..MaxVersions /\ wpos' \in 0..MaxVersions
    BY <1>0, <1>1 DEF TypeOK
  <2>2. /\ pc' \in Pcs /\ stopped' \in BOOLEAN /\ saved' \in {"none", "null", "value"}
        /\ outcome' \in {"none", "ok", "timeout", "error"}
    BY <1>0 DEF TypeOK, Succeeds, Goto, Pcs
  <2>3. QED
    BY <1>0, <2>1, <2>2 DEF TypeOK, clock
<1>4. Positions'
  BY <1>0, <1>1, <1>2 DEF Positions
<1>5. CASE hist[v] = "met"
  BY <1>2, <1>3, <1>4, <1>5, SucceedsInv
<1>6. CASE hist[v] # "met"
  <2>1. UNCHANGED <<pc, stopped, saved, outcome>>
    BY <1>6
  <2>2. Resumes'
    BY <1>0, <1>1, <1>2, <2>1 DEF Resumes
  <2>3. NoVersionSkipped'
    <3>1. SUFFICES ASSUME mode # "condition", NEW u \in first'..v, u > 0
                   PROVE  hist[u] # "met"
      BY <2>1 DEF NoVersionSkipped
    <3>2. CASE u = v
      BY <1>6, <3>2
    <3>3. CASE u # v
      <4>1. first # 0 /\ wrv # 0 /\ seen = wrv
        BY <1>0, <1>2, <3>1, <3>3 DEF Resumes
      <4>2. u \in first..seen
        BY <1>0, <1>2, <3>1, <3>3, <4>1
      <4>3. QED
        BY <1>0, <3>1, <4>2 DEF NoVersionSkipped
    <3>4. QED
      BY <3>2, <3>3
  <2>4. Timers' /\ TimeoutHonest' /\ SuccessJustified'
    BY <2>1 DEF WaitInv, Timers, TimeoutHonest, SuccessJustified, clock
  <2>5. QED
    BY <1>3, <1>4, <2>2, <2>3, <2>4 DEF WaitInv
<1>7. QED
  BY <1>5, <1>6

\* Both ways from watching to polling.
LEMMA ReceiveErrorInv ==
  ASSUME WaitInv, ReceiveError
  PROVE  WaitInv'
<1> USE DEF ReceiveError, SendsError, history
<1>0. TypeOK /\ Positions /\ now \in Nat /\ Timeout \in Nat /\ now <= 2 * Timeout
  BY TimeoutAssumption DEF WaitInv, TypeOK, Timers
<1>1. TypeOK'
  <2>1. deadline' \in Nat /\ now' \in Nat
    BY <1>0 DEF Arms
  <2>2. wpc' \in WatcherPcs /\ pc' \in Pcs /\ stopped' \in BOOLEAN
    BY <1>0 DEF TypeOK, WatcherPcs, Pcs, Goto
  <2>3. QED
    BY <1>0, <2>1, <2>2 DEF TypeOK
<1>2. Positions'
  BY <1>0 DEF Positions
<1>3. QED
  BY <1>0, <1>1, <1>2, PollsInv

LEMMA ReceiveClosedInv ==
  ASSUME WaitInv, ReceiveClosed
  PROVE  WaitInv'
<1> USE DEF ReceiveClosed, history, watcher
<1>0. TypeOK /\ Positions /\ now \in Nat /\ Timeout \in Nat /\ now <= 2 * Timeout
  BY TimeoutAssumption DEF WaitInv, TypeOK, Timers
<1>1. CASE Fails("error") /\ UNCHANGED clock
  BY <1>1, FailsInv
<1>2. CASE Goto("poll") /\ Arms /\ stopped' = TRUE /\ UNCHANGED <<saved, outcome>>
  <2>1. TypeOK'
    <3>1. deadline' \in Nat /\ now' \in Nat
      BY <1>0, <1>2 DEF Arms
    <3>2. pc' \in Pcs /\ stopped' \in BOOLEAN
      BY <1>2 DEF Pcs, Goto
    <3>3. QED
      BY <1>0, <1>2, <3>1, <3>2 DEF TypeOK
  <2>2. Positions'
    BY <1>0 DEF Positions
  <2>3. QED
    BY <1>0, <1>2, <2>1, <2>2, PollsInv
<1>3. QED
  BY <1>1, <1>2

\* The timers end the wait no earlier than the timeout.
LEMMA TimeoutsInv ==
  ASSUME WaitInv, WatchTimeout \/ Poll \/ Interrupted
  PROVE  WaitInv'
<1> USE DEF WatchTimeout, Poll, Interrupted
<1>0. TypeOK /\ Positions /\ Timers /\ now \in Nat /\ deadline \in Nat /\ Timeout \in Nat
  BY TimeoutAssumption DEF WaitInv, TypeOK
<1>1. /\ Len(hist) \in 1..MaxVersions /\ MaxVersions \in Nat
      /\ Current = hist[Len(hist)]
  BY CurrentIsVersion
<1>2. UNCHANGED <<hist, watcher, cancelled, mode, last>>
  OBVIOUS
<1>3. CASE Fails("error") /\ UNCHANGED <<clock, history>>
  BY <1>2, <1>3, FailsInv
<1>4. CASE Fails("timeout") /\ UNCHANGED <<clock, history>> /\ now >= Timeout
  BY <1>2, <1>4, FailsInv
<1>5. ASSUME Succeeds, NEW v \in start..Len(hist), hist[v] = "met", start' = start, UNCHANGED clock,
             first' \in 0..MaxVersions, seen' \in 0..MaxVersions
      PROVE  WaitInv'
  <2>1. TypeOK'
    BY <1>0, <1>2, <1>5 DEF TypeOK, Succeeds, Goto, Pcs, watcher, clock
  <2>2. Positions'
    BY <1>0, <1>2, <1>5 DEF Positions, watcher
  <2>3. QED
    BY <1>2, <1>5, <2>1, <2>2, SucceedsInv
<1>6. CASE WatchTimeout
  <2>1. now >= Timeout /\ UNCHANGED history
    BY <1>0, <1>6 DEF Timers, TimerFires
  <2>2. CASE Fails("timeout") /\ UNCHANGED clock
    BY <1>4, <2>1, <2>2
  <2>3. CASE Succeeds /\ TimeoutIsMet /\ UNCHANGED clock
    <3>1. start \in Nat /\ last \in Nat /\ start <= Len(hist) /\ last <= Len(hist)
      BY <1>0 DEF TypeOK, Positions
    <3>2. PICK v \in start..Len(hist) : hist[v] = "met"
      <4>1. CASE last # 0
        BY <1>0, <1>1, <2>3, <3>1, <4>1 DEF Positions, TimeoutIsMet
      <4>2. CASE last = 0
        BY <1>1, <2>3, <3>1, <4>2 DEF Gets, TimeoutIsMet
      <4>3. QED
        BY <4>1, <4>2
    <3>3. start' = start /\ first' \in 0..MaxVersions /\ seen' \in 0..MaxVersions
      BY <1>0, <2>1 DEF TypeOK, history
    <3>4. QED
      BY <1>5, <2>3, <3>2, <3>3
  <2>4. CASE Goto("poll") /\ Arms /\ stopped' = TRUE /\ UNCHANGED <<saved, outcome>>
    <3>1. TypeOK'
      <4>1. deadline' \in Nat /\ now' \in Nat
        BY <1>0, <2>4 DEF Arms
      <4>2. pc' \in Pcs /\ stopped' \in BOOLEAN
        BY <2>4 DEF Pcs, Goto
      <4>3. QED
        BY <1>0, <1>2, <2>1, <2>4, <4>1, <4>2 DEF TypeOK, watcher, history
    <3>2. Positions'
      BY <1>0, <1>2, <2>1 DEF Positions, watcher, history
    <3>3. now <= 2 * Timeout
      <4>1. pc = "watch"
        BY <1>6 DEF TimerFires
      <4>2. QED
        BY <1>0, <4>1 DEF Timers
    <3>4. QED
      BY <1>2, <2>1, <2>4, <3>1, <3>2, <3>3, PollsInv DEF history
  <2>5. QED
    BY <1>6, <2>2, <2>3, <2>4
<1>7. CASE Poll
  <2>c. UNCHANGED clock
    BY <1>7
  <2>1. CASE Gets("met") /\ Succeeds /\ Examines(Len(hist))
    <3>1. start \in Nat /\ start <= Len(hist)
      BY <1>0 DEF TypeOK, Positions
    <3>2. Len(hist) \in start..Len(hist) /\ hist[Len(hist)] = "met"
      BY <1>1, <2>1, <3>1 DEF Gets
    <3>3. start' = start /\ first' \in 0..MaxVersions /\ seen' \in 0..MaxVersions
      BY <1>0, <1>1, <2>1 DEF TypeOK, Examines
    <3>4. QED
      BY <1>5, <2>1, <2>c, <3>2, <3>3
  <2>2. CASE now > deadline /\ Fails("timeout") /\ UNCHANGED history
    <3>1. now >= Timeout
      BY <1>0, <1>7, <2>2 DEF Timers
    <3>2. QED
      BY <1>4, <2>2, <2>c, <3>1
  <2>3. QED
    BY <1>7, <2>1, <2>2
<1>8. CASE Interrupted
  BY <1>3, <1>8
<1>9. QED
  BY <1>6, <1>7, <1>8

\* A behaviour starts with the first version of the object and nothing saved.
LEMMA InitInv == Init => WaitInv
<1>1. SUFFICES ASSUME Init PROVE WaitInv
  OBVIOUS
<1>2. PICK c \in Contents : hist = <<c>>
  BY <1>1 DEF Init
<1>3. hist \in Seq(Contents) /\ Len(hist) = 1
  BY <1>2
<1>4. TypeOK
  <2>1. Len(hist) \in 1..MaxVersions /\ 1 \in 1..MaxVersions /\ 0 \in 0..MaxVersions
    BY <1>3, VersionAssumption
  <2>2. mode \in AllModes
    BY <1>1, ModeAssumption DEF Init
  <2>3. /\ wpc \in WatcherPcs /\ pc \in Pcs /\ now \in Nat /\ deadline \in Nat
        /\ stopped \in BOOLEAN /\ cancelled \in BOOLEAN
        /\ saved \in {"none", "null", "value"}
        /\ outcome \in {"none", "ok", "timeout", "error"}
    BY <1>1 DEF Init, WatcherPcs, Pcs
  <2>4. /\ wrv = 0 /\ wpos = 0 /\ last = 0 /\ start = 1 /\ first = 0 /\ seen = 0
    BY <1>1 DEF Init
  <2>5. QED
    BY <1>3, <2>1, <2>2, <2>3, <2>4 DEF TypeOK
<1>5. Positions /\ Resumes /\ NoVersionSkipped /\ SuccessJustified
  BY <1>1, <1>3 DEF Init, Positions, Resumes, NoVersionSkipped, SuccessJustified
<1>6. Timers /\ TimeoutHonest
  BY <1>1, TimeoutAssumption DEF Init, Timers, TimeoutHonest
<1>7. QED
  BY <1>4, <1>5, <1>6 DEF WaitInv

LEMMA NextInv == WaitInv /\ [Next]_vars => WaitInv'
<1>1. SUFFICES ASSUME WaitInv, [Next]_vars PROVE WaitInv'
  OBVIOUS
<1>2. CASE HandlerStep
  BY <1>1, <1>2, ExistInv, AppearInv, CheckInv, OpenInv, ReceiveInv, ReceiveErrorInv,
     ReceiveClosedInv, TimeoutsInv, QuietStepsInv DEF HandlerStep
<1>3. CASE Start
  BY <1>1, <1>3, StartInv
<1>4. CASE Read \/ Delete \/ Cancel \/ UNCHANGED vars
  BY <1>1, <1>4, QuietStepsInv
<1>5. CASE WatcherStep /\ Unrelated
  BY <1>1, <1>5, WatcherStepInv
<1>6. CASE Tick
  BY <1>1, <1>6, TickInv
<1>7. CASE ObjectChanges /\ UNCHANGED <<watcher, stopped, cancelled>> /\ Unrelated
  BY <1>1, <1>7, ObjectChangesInv
<1>8. QED
  BY <1>1, <1>2, <1>3, <1>4, <1>5, <1>6, <1>7 DEF Next

\* The inductive invariant of the wait, its watcher and its timers.
THEOREM WaitInvCorrect == Spec => []WaitInv
<1>1. QED
  BY InitInv, NextInv, PTL DEF Spec

\* However often the server ends the watch and the goroutine reconnects, a wait
\* that watches from the version it has checked misses no version that met it.
THEOREM NoVersionSkippedCorrect == Spec => []NoVersionSkipped
<1>1. WaitInv => NoVersionSkipped
  BY DEF WaitInv
<1>2. QED
  BY <1>1, WaitInvCorrect, PTL

\* Whether by a check, an event, a poll or the last look at the timeout: a wait
\* succeeds only if the object met it since the call.
THEOREM SuccessJustifiedCorrect == Spec => []SuccessJustified
<1>1. WaitInv => SuccessJustified
  BY DEF WaitInv
<1>2. QED
  BY <1>1, WaitInvCorrect, PTL

\* No timeout is reported early, and existence, watch and polling together take
\* at most three timeouts and a poll interval.
THEOREM TimeoutHonestCorrect == Spec => []TimeoutHonest
<1>1. WaitInv => TimeoutHonest
  BY DEF WaitInv
<1>2. QED
  BY <1>1, WaitInvCorrect, PTL
=============================================================================
