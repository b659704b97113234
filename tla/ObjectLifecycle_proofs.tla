----------------------- MODULE ObjectLifecycle_proofs -----------------------
(***************************************************************************)
(* Proofs about ObjectLifecycle for every set of instances and ids, every   *)
(* retry bound and every choice of faults and edits.                        *)
(***************************************************************************)
EXTENDS ObjectLifecycle, TLAPS

USE NoIdAssumption, BoundAssumption, OptAssumption

(* Type correctness.                                                        *)

LEMMA NoObjType == NoObj \in ObjRec
BY DEF NoObj, ObjRec

LEMMA NoStateType == NoState \in StateRec
BY DEF NoState, StateRec, AllOpts

LEMMA NoMemType == NoMem \in MemRec
<1>1. 0 \in 0..MaxRetries /\ 0 \in 0..(MaxDepTries - 1) /\ 0 \in 0..(MaxPolls - 1)
  OBVIOUS
<1>2. QED
  BY <1>1, NoObjType DEF NoMem, MemRec, AllOpts

LEMMA StampedType ==
  ASSUME obj \in ObjRec, NEW id \in Ids \cup {NoId}, NEW fin \in BOOLEAN
  PROVE  Stamped(id, fin) \in ObjRec
BY DEF ObjRec, Stamped

LEMMA DeletedType ==
  ASSUME obj \in ObjRec
  PROVE  Deleted \in ObjRec
BY NoObjType DEF ObjRec, Deleted

\* A handler that returns leaves well-typed variables if its state is.
LEMMA ReturnType ==
  ASSUME TypeOK, NEW r \in Instances, NEW s \in StateRec, Return(r, s)
  PROVE  /\ st' \in [Instances -> StateRec]
         /\ pc' \in [Instances -> Pcs]
         /\ mem' \in [Instances -> MemRec]
BY NoMemType DEF TypeOK, Return, Goto, Pcs

LEMMA GotoType ==
  ASSUME TypeOK, NEW r \in Instances, NEW l \in Pcs, Goto(r, l)
  PROVE  pc' \in [Instances -> Pcs]
BY DEF TypeOK, Goto

LEMMA LocalsType ==
  ASSUME NEW id \in Ids \cup {NoId}, NEW opt \in AllOpts
  PROVE  Locals(id, opt) \in MemRec
BY NoMemType DEF Locals, Discoverable, MemRec

LEMMA InitType == Init => TypeOK
BY NoObjType, NoStateType, NoMemType DEF Init, TypeOK, Pcs

\* The states the handlers return are well-typed.
LEMMA ReturnedTypes ==
  ASSUME TypeOK, NEW r \in Instances
  PROVE  /\ st[r] \in StateRec
         /\ [st[r] EXCEPT !.stale = TRUE] \in StateRec
         /\ Refreshed(r) \in StateRec
         /\ Created(r) \in StateRec
         /\ CreatedPending(r) \in StateRec
         /\ StillPending(r) \in StateRec
         /\ Updated(r) \in StateRec
         /\ UpdatedPending(r) \in StateRec
<1>1. st[r] \in StateRec /\ mem[r] \in MemRec
  BY DEF TypeOK
<1>2. mem[r].id \in Ids \cup {NoId} /\ mem[r].opt \in AllOpts
  BY <1>1 DEF MemRec
<1>3. [st[r] EXCEPT !.stale = TRUE] \in StateRec
  BY <1>1 DEF StateRec
<1>4. Refreshed(r) \in StateRec
  BY <1>1 DEF StateRec, Refreshed
<1>5. Created(r) \in StateRec
  BY <1>2, NoStateType DEF StateRec, Created
<1>6. CreatedPending(r) \in StateRec
  BY <1>5 DEF StateRec, CreatedPending
<1>7. /\ StillPending(r) \in StateRec
      /\ Updated(r) \in StateRec /\ UpdatedPending(r) \in StateRec
  BY <1>1, <1>2 DEF StateRec, StillPending, Updated, UpdatedPending
<1>8. QED
  BY <1>1, <1>3, <1>4, <1>5, <1>6, <1>7

\* Sending again and polling on only count.
LEMMA Counts ==
  ASSUME TypeOK, NEW r \in Instances, Resend(r) \/ PollsOn(r)
  PROVE  /\ UNCHANGED <<st, pc>>
         /\ mem' \in [Instances -> MemRec]
         /\ mem' = [mem EXCEPT ![r] = mem'[r]]
         /\ \A q \in Instances : mem'[q].id = mem[q].id /\ mem'[q].opt = mem[q].opt
<1>1. mem \in [Instances -> MemRec] /\ mem[r] \in MemRec
  BY DEF TypeOK
<1>2. CASE Resend(r)
  <2>1. mem[r].tries + 1 \in 0..MaxRetries
    BY <1>1, <1>2 DEF Resend, MemRec
  <2>2. [mem[r] EXCEPT !.tries = @ + 1] \in MemRec
    BY <1>1, <2>1 DEF MemRec
  <2>3. mem' = [mem EXCEPT ![r] = [mem[r] EXCEPT !.tries = @ + 1]]
    BY <1>1, <1>2 DEF Resend
  <2>4. /\ [mem[r] EXCEPT !.tries = @ + 1].id = mem[r].id
        /\ [mem[r] EXCEPT !.tries = @ + 1].opt = mem[r].opt
    BY <1>1 DEF MemRec
  <2>5. QED
    BY <1>1, <1>2, <2>2, <2>3, <2>4 DEF Resend
<1>3. CASE PollsOn(r)
  <2>1. mem[r].polls + 1 \in 0..(MaxPolls - 1)
    BY <1>1, <1>3 DEF PollsOn, MemRec
  <2>2. [mem[r] EXCEPT !.polls = @ + 1] \in MemRec
    BY <1>1, <2>1 DEF MemRec
  <2>3. mem' = [mem EXCEPT ![r] = [mem[r] EXCEPT !.polls = @ + 1]]
    BY <1>1, <1>3 DEF PollsOn
  <2>4. /\ [mem[r] EXCEPT !.polls = @ + 1].id = mem[r].id
        /\ [mem[r] EXCEPT !.polls = @ + 1].opt = mem[r].opt
    BY <1>1 DEF MemRec
  <2>5. QED
    BY <1>1, <1>3, <2>2, <2>3, <2>4 DEF PollsOn
<1>4. QED
  BY <1>2, <1>3

\* forceDestroy remembers the object and starts its counts again.
Snapped(r) == [mem[r] EXCEPT !.snap = obj, !.tries = 0, !.polls = 0]

LEMMA SnapType ==
  ASSUME TypeOK, NEW r \in Instances,
         mem' = [mem EXCEPT ![r].snap = obj, ![r].tries = 0, ![r].polls = 0]
  PROVE  /\ mem' \in [Instances -> MemRec]
         /\ mem' = [mem EXCEPT ![r] = mem'[r]]
         /\ \A q \in Instances : mem'[q].id = mem[q].id /\ mem'[q].opt = mem[q].opt
<1>1. mem \in [Instances -> MemRec] /\ mem[r] \in MemRec /\ obj \in ObjRec
  BY DEF TypeOK
<1>2. 0 \in 0..MaxRetries /\ 0 \in 0..(MaxPolls - 1)
  OBVIOUS
<1>3. Snapped(r) \in MemRec
  BY <1>1, <1>2 DEF MemRec, Snapped
<1>4. Snapped(r).id = mem[r].id /\ Snapped(r).opt = mem[r].opt
  BY <1>1 DEF MemRec, Snapped
<1>5. mem' = [mem EXCEPT ![r] = Snapped(r)]
  BY <1>1 DEF Snapped
<1>6. QED
  BY <1>1, <1>3, <1>4, <1>5

LEMMA UnfinalizedType ==
  ASSUME obj \in ObjRec
  PROVE  /\ Unfinalized \in ObjRec
         /\ Unfinalized.live => obj.live /\ Unfinalized.id = obj.id
         /\ Unfinalized.id \in {NoId, obj.id}
BY NoObjType DEF Unfinalized, NoObj, ObjRec

\* Giving up records an id of the right type.
LEMMA GiveUpType ==
  ASSUME TypeOK, NEW o \in ObjRec, NEW id, GiveUp(o, id)
  PROVE  given' \in Ids \cup {NoId}
BY DEF TypeOK, GiveUp, ObjRec

LEMMA ApplyType ==
  ASSUME TypeOK, NEW r \in Instances, Apply(r)
  PROVE  TypeOK'
<1> USE DEF TypeOK
<1>m. mem[r] \in MemRec /\ mem[r].id \in Ids \cup {NoId}
  BY DEF MemRec
<1>o. \A fin \in BOOLEAN : Stamped(mem[r].id, fin) \in ObjRec
  BY <1>m, StampedType
<1>1. CASE ApplySucceeds(r)
  BY <1>1, <1>o, GotoType DEF ApplySucceeds, Pcs, CreatePcs, UpdatePcs, Goto
<1>2. CASE ApplyResponseLost(r)
  <2>1. QED
    BY <1>2, <1>o, Counts DEF ApplyResponseLost
<1>3. CASE ApplyFails(r)
  <2>1. obj' \in ObjRec
    BY <1>3, <1>o DEF ApplyFails
  <2>2. given' \in Ids \cup {NoId}
    BY <1>3, <2>1, GiveUpType DEF ApplyFails
  <2>3. QED
    BY <1>3, <2>1, <2>2, ReturnType, ReturnedTypes DEF ApplyFails
<1>4. CASE ApplyDependencyMissing(r)
  <2>1. CASE mem[r].waits + 1 < MaxDepTries
    <3>w. mem[r].waits + 1 \in 0..(MaxDepTries - 1) /\ 0 \in 0..MaxRetries
      BY <2>1, <1>m DEF MemRec
    <3>1. [mem[r] EXCEPT !.waits = @ + 1, !.tries = 0] \in MemRec
      BY <3>w, <1>m DEF MemRec
    <3>2. mem' \in [Instances -> MemRec]
      BY <1>4, <2>1, <3>1 DEF ApplyDependencyMissing
    <3>3. QED
      BY <1>4, <2>1, <3>2 DEF ApplyDependencyMissing
  <2>2. CASE ~(mem[r].waits + 1 < MaxDepTries)
    BY <1>4, <2>2, ReturnType, ReturnedTypes DEF ApplyDependencyMissing
  <2>3. QED
    BY <2>1, <2>2
<1>5. QED
  BY <1>1, <1>2, <1>3, <1>4 DEF Apply

LEMMA CreateType ==
  ASSUME TypeOK, NEW r \in Instances, CreateStart(r) \/ CreateStep(r)
  PROVE  TypeOK'
<1> USE DEF TypeOK
<1>1. CASE CreateStart(r)
  <2>1. \A id \in Ids, opt \in DeleteOpts : Locals(id, opt) \in MemRec
    BY LocalsType
  <2>2. mem' \in [Instances -> MemRec]
    BY <1>1, <2>1 DEF CreateStart
  <2>3. QED
    BY <1>1, <2>2 DEF CreateStart, Goto, Pcs, CreatePcs
<1>2. CASE CreateCheck(r)
  BY <1>2, ReturnType, NoStateType DEF CreateCheck, Goto, Pcs, CreatePcs
<1>3. CASE CreateReadBack(r)
  BY <1>3, ReturnType, ReturnedTypes DEF CreateReadBack, Goto, Pcs, CreatePcs
<1>4. CASE CreateProject(r)
  BY <1>4, ReturnType, ReturnedTypes DEF CreateProject
<1>5. QED
  BY <1>1, <1>2, <1>3, <1>4 DEF CreateStep

LEMMA ReadUpdateType ==
  ASSUME TypeOK, NEW r \in Instances,
         ReadStart(r) \/ ReadGet(r) \/ UpdateStart(r) \/ UpdateGet(r)
  PROVE  TypeOK'
<1> USE DEF TypeOK
<1>1. CASE ReadStart(r)
  BY <1>1, ReturnType, ReturnedTypes, NoStateType DEF ReadStart, Goto, Pcs
<1>2. CASE ReadGet(r)
  BY <1>2, ReturnType, ReturnedTypes, NoStateType DEF ReadGet
<1>3. CASE UpdateStart(r)
  <2>1. st[r].id \in Ids \cup {NoId}
    BY DEF StateRec
  <2>2. \A opt \in DeleteOpts : Locals(st[r].id, opt) \in MemRec
    BY <2>1, LocalsType
  <2>3. mem' \in [Instances -> MemRec]
    BY <1>3, <2>2 DEF UpdateStart
  <2>4. QED
    BY <1>3, <2>3 DEF UpdateStart, Goto, Pcs, UpdatePcs
<1>4. CASE UpdateGet(r)
  BY <1>4, ReturnType, ReturnedTypes DEF UpdateGet
<1>5. QED
  BY <1>1, <1>2, <1>3, <1>4

LEMMA DeleteType ==
  ASSUME TypeOK, NEW r \in Instances, DeleteStart(r) \/ DeleteStep(r)
  PROVE  TypeOK'
<1> USE DEF TypeOK
<1>d. obj \in ObjRec /\ Deleted \in ObjRec
  BY DeletedType
<1>s. st[r] \in StateRec /\ mem[r] \in MemRec
  OBVIOUS
<1>1. CASE DeleteStart(r)
  <2>1. st[r].id \in Ids \cup {NoId} /\ st[r].opt \in AllOpts
    BY <1>s DEF StateRec
  <2>2. Locals(st[r].id, st[r].opt) \in MemRec
    BY <2>1, LocalsType
  <2>3. CASE Goto(r, "d_get") /\ mem' = [mem EXCEPT ![r] = Locals(st[r].id, st[r].opt)]
                 /\ UNCHANGED <<st, given>>
    BY <1>1, <2>2, <2>3 DEF DeleteStart, Goto, Pcs, DeletePcs
  <2>4. CASE Return(r, NoState) /\ GiveUp(obj, st[r].id)
    BY <1>1, <1>d, <2>4, ReturnType, NoStateType, GiveUpType DEF DeleteStart
  <2>5. QED
    BY <1>1, <2>3, <2>4 DEF DeleteStart
<1>2. CASE DeleteGet(r)
  BY <1>2, ReturnType, ReturnedTypes, NoStateType DEF DeleteGet, Goto, Pcs, DeletePcs
<1>3. CASE DeleteCall(r)
  <2>1. CASE Resend(r)
    BY <1>3, <1>d, <2>1, Counts DEF DeleteCall
  <2>2. CASE ~Resend(r)
    BY <1>3, <1>d, <2>2, ReturnType, ReturnedTypes DEF DeleteCall, Goto, Pcs, DeletePcs
  <2>3. QED
    BY <2>1, <2>2
<1>4. CASE DeleteRecheck(r)
  BY <1>4, <1>d, ReturnType, NoStateType, GiveUpType DEF DeleteRecheck, Goto, Pcs, DeletePcs
<1>5. CASE DeleteWait(r)
  <2>1. CASE PollsOn(r)
    BY <1>5, <2>1, Counts DEF DeleteWait
  <2>2. CASE ~PollsOn(r)
    BY <1>5, <2>2, ReturnType, NoStateType DEF DeleteWait, Goto, Pcs, DeletePcs
  <2>3. QED
    BY <2>1, <2>2
<1>6. CASE DeleteTimeout(r)
  BY <1>6, ReturnType, ReturnedTypes, NoStateType DEF DeleteTimeout
<1>7. CASE ForceGet(r)
  BY <1>7, <1>d, SnapType, ReturnType, NoStateType, GiveUpType DEF ForceGet, Goto, Pcs, DeletePcs
<1>8. CASE ForceApply(r)
  <2>1. obj' \in ObjRec
    BY <1>8, <1>d, UnfinalizedType DEF ForceApply
  <2>2. CASE Resend(r)
    BY <1>8, <2>1, <2>2, Counts, GiveUpType DEF ForceApply
  <2>3. CASE ~Resend(r)
    BY <1>8, <2>1, <2>3, ReturnType, NoStateType, GiveUpType
       DEF ForceApply, Goto, Pcs, DeletePcs
  <2>4. QED
    BY <2>2, <2>3
<1>9. CASE ForceDelete(r)
  <2>1. obj' \in ObjRec
    BY <1>9, <1>d DEF ForceDelete
  <2>2. CASE Resend(r)
    BY <1>9, <2>1, <2>2, Counts, GiveUpType DEF ForceDelete
  <2>3. CASE ~Resend(r)
    BY <1>9, <2>1, <2>3, ReturnType, NoStateType, GiveUpType
       DEF ForceDelete, Goto, Pcs, DeletePcs
  <2>4. QED
    BY <2>2, <2>3
<1>10. CASE ForceWait(r)
  <2>1. CASE PollsOn(r) /\ given' = given
    BY <1>10, <2>1, Counts DEF ForceWait
  <2>2. CASE Return(r, NoState) /\ GiveUp(obj, mem[r].id)
    BY <1>10, <1>d, <2>2, ReturnType, NoStateType, GiveUpType DEF ForceWait
  <2>3. QED
    BY <1>10, <2>1, <2>2 DEF ForceWait
<1>11. QED
  BY <1>1, <1>2, <1>3, <1>4, <1>5, <1>6, <1>7, <1>8, <1>9, <1>10 DEF DeleteStep

LEMMA ImportCrashType ==
  ASSUME TypeOK, NEW r \in Instances, Import(r) \/ Crash(r)
  PROVE  TypeOK'
<1> USE DEF TypeOK
<1>1. CASE Import(r)
  <2>1. \A id \in Ids :
          [NoState EXCEPT !.id = id, !.proj = "full", !.imported = TRUE] \in StateRec
    BY NoStateType DEF StateRec
  <2>2. QED
    BY <1>1, <2>1, ReturnType DEF Import
<1>2. CASE Crash(r)
  BY <1>2, ReturnType, ReturnedTypes, GiveUpType DEF Crash
<1>3. QED
  BY <1>1, <1>2

LEMMA EnvironmentType ==
  ASSUME TypeOK, Environment
  PROVE  TypeOK'
<1> USE DEF TypeOK
<1>d. /\ Deleted \in ObjRec /\ NoObj \in ObjRec
      /\ [obj EXCEPT !.id = NoId] \in ObjRec
      /\ [obj EXCEPT !.fin = FALSE] \in ObjRec
      /\ \A fin \in BOOLEAN : [NoObj EXCEPT !.live = TRUE, !.fin = fin] \in ObjRec
  BY DeletedType, NoObjType DEF ObjRec
<1>1. QED
  BY <1>d DEF Environment, KubectlCreate, KubectlDelete, StripAnnotation, FinalizerDone,
              DependencyArrives, DependencyLeaves, Deps

LEMMA StepType == TypeOK /\ [Next]_vars => TypeOK'
<1> SUFFICES ASSUME TypeOK, [Next]_vars PROVE TypeOK'
  OBVIOUS
<1>1. ASSUME NEW r \in Instances, HandlerStep(r) PROVE TypeOK'
  BY <1>1, ApplyType, CreateType, ReadUpdateType, DeleteType DEF HandlerStep
<1>2. ASSUME NEW r \in Instances, Start(r) PROVE TypeOK'
  BY <1>2, CreateType, ReadUpdateType, DeleteType, ImportCrashType DEF Start
<1>3. ASSUME NEW r \in Instances, Crash(r) PROVE TypeOK'
  BY <1>3, ImportCrashType
<1>4. CASE Environment
  BY <1>4, EnvironmentType
<1>5. CASE UNCHANGED vars
  BY <1>5 DEF vars, TypeOK
<1>6. QED
  BY <1>1, <1>2, <1>3, <1>4, <1>5 DEF Next

\* Every reachable state is well-typed, whatever fails and whoever interferes.
THEOREM TypeCorrect == Spec => []TypeOK
BY InitType, StepType, PTL DEF Spec

-----------------------------------------------------------------------------
(* Every annotated object is accounted for.                                 *)

\* Only r's own entries change when r's handler returns.
LEMMA OthersKeep ==
  ASSUME TypeOK, NEW r \in Instances, NEW s, Return(r, s),
         NEW q \in Instances, q # r, NEW id, LooksAfter(q, id)
  PROVE  LooksAfter(q, id)'
BY DEF TypeOK, Return, Goto, LooksAfter

\* The session facts of the other instances survive a return.
LEMMA SessionsReturn ==
  ASSUME TypeOK, Sessions, NEW r \in Instances, NEW s, Return(r, s)
  PROVE  Sessions'
BY DEF TypeOK, Sessions, Return, Goto, Held, CreatePcs, UpdatePcs, DeletePcs

\* ... and a step from one label to another of the same operation.
LEMMA SessionsGoto ==
  ASSUME TypeOK, Sessions, NEW r \in Instances, NEW l, Goto(r, l),
         UNCHANGED st,
         mem' \in [Instances -> MemRec],
         \A q \in Instances : mem'[q].id = mem[q].id,
         \/ l \in CreatePcs /\ pc[r] \in CreatePcs
         \/ l \in UpdatePcs \cup DeletePcs /\ pc[r] \in UpdatePcs \cup DeletePcs
  PROVE  Sessions'
BY DEF TypeOK, Sessions, Goto, Held, CreatePcs, UpdatePcs, DeletePcs

\* A handler that is not a Create and keeps the id in the state loses nothing.
LEMMA KeepAccounted ==
  ASSUME TypeOK, Accounted, NEW r \in Instances, NEW s \in StateRec, Return(r, s),
         s.id = st[r].id, pc[r] \notin CreatePcs, UNCHANGED <<obj, given>>
  PROVE  Accounted'
<1>1. \A q \in Instances : LooksAfter(q, obj.id) => LooksAfter(q, obj.id)'
  BY DEF TypeOK, Return, Goto, LooksAfter
<1>2. QED
  BY <1>1 DEF Accounted

\* Dropping the state is sound when the object is gone or another's.
LEMMA DropAccounted ==
  ASSUME TypeOK, Accounted, NEW r \in Instances, NEW s, Return(r, s),
         UNCHANGED <<obj, given>>,
         ~obj.live \/ ~LooksAfter(r, obj.id)
  PROVE  Accounted'
<1>1. \A q \in Instances : q # r /\ LooksAfter(q, obj.id) => LooksAfter(q, obj.id)'
  BY OthersKeep
<1>2. QED
  BY <1>1 DEF Accounted

\* Giving the object up is recorded, so that dropping the state is, too.
LEMMA GiveUpAccounted ==
  ASSUME TypeOK, Accounted, NEW r \in Instances, NEW s, Return(r, s),
         obj'.live => obj'.id = obj.id /\ obj.live, NEW id, GiveUp(obj', id),
         \A x : LooksAfter(r, x) => x = id \/ x = NoId
  PROVE  Accounted'
<1>1. \A q \in Instances : \A x : q # r /\ LooksAfter(q, x) => LooksAfter(q, x)'
  BY OthersKeep
<1>2. SUFFICES ASSUME obj'.live, obj'.id # NoId, obj'.id # given'
               PROVE  \E q \in Instances : LooksAfter(q, obj.id)'
  BY DEF Accounted, LooksAfter
<1>3. QED
  BY <1>1, <1>2 DEF Accounted, GiveUp

LEMMA InitAccounted == Init => AccountedInv
BY InitType DEF Init, AccountedInv, DependencyFirst, Sessions, FreshUntilApplied, Accounted,
                NoObj, CreatePcs, UpdatePcs, DeletePcs

\* Whoever applies stamps the object with the id it is looking after.
LEMMA ApplyAccounted ==
  ASSUME AccountedInv, NEW r \in Instances, Apply(r)
  PROVE  DependencyFirst' /\ Sessions' /\ Accounted'
<1> USE DEF AccountedInv
<1>0. LooksAfter(r, mem[r].id)
  BY DEF Apply, ApplySucceeds, ApplyResponseLost, ApplyFails, ApplyDependencyMissing,
         Applying, Sessions, LooksAfter, CreatePcs, UpdatePcs
<1>1. CASE ApplySucceeds(r)
  <2>1. Sessions'
    BY <1>1 DEF ApplySucceeds, Applying, Sessions, TypeOK, Goto, Held,
                CreatePcs, UpdatePcs, DeletePcs
  <2>2. LooksAfter(r, mem[r].id)' /\ obj'.id = mem'[r].id
    BY <1>0, <1>1 DEF ApplySucceeds, Applying, TypeOK, Goto, LooksAfter, CreatePcs,
                     UpdatePcs, Stamped
  <2>3. Accounted'
    BY <2>2 DEF Accounted
  <2>4. QED
    BY <1>1, <2>1, <2>3 DEF ApplySucceeds, DependencyFirst
<1>2. CASE ApplyResponseLost(r)
  <2>1. /\ mem' \in [Instances -> MemRec] /\ UNCHANGED <<st, pc>>
        /\ \A q \in Instances : mem'[q].id = mem[q].id
    BY <1>2, Counts DEF ApplyResponseLost
  <2>2. Sessions'
    BY <2>1 DEF Sessions, Held
  <2>3. LooksAfter(r, mem[r].id)' /\ obj'.id = mem'[r].id
    BY <1>0, <1>2, <2>1 DEF ApplyResponseLost, LooksAfter, Stamped
  <2>4. Accounted'
    BY <2>3 DEF Accounted
  <2>5. QED
    BY <1>2, <2>2, <2>4 DEF ApplyResponseLost, DependencyFirst
<1>3. CASE ApplyFails(r)
  <2>1. Return(r, st[r]) /\ dep' = dep
    BY <1>3 DEF ApplyFails
  <2>2. Sessions'
    BY <2>1, SessionsReturn
  <2>3. DependencyFirst'
    BY <1>3 DEF ApplyFails, DependencyFirst
  <2>4. st' = st
    BY <2>1 DEF Return, TypeOK
  <2>5. obj' = obj \/ obj'.id = mem[r].id
    BY <1>3 DEF ApplyFails, Stamped
  <2>6. ASSUME Held(r) PROVE Accounted'
    <3>1. mem[r].id = st[r].id /\ pc[r] \notin CreatePcs
      BY <1>3, <2>6 DEF ApplyFails, Applying, Sessions, CreatePcs, UpdatePcs
    <3>2. CASE obj' = obj
      <4>1. st[r] \in StateRec /\ given' = given
        BY <1>3, <2>6 DEF ApplyFails, TypeOK
      <4>2. QED
        BY <2>1, <3>1, <3>2, <4>1, KeepAccounted
    <3>3. CASE obj'.id = mem[r].id
      BY <2>4, <3>1, <3>3 DEF Accounted, LooksAfter
    <3>4. QED
      BY <2>5, <3>2, <3>3
  <2>7. ASSUME ~Held(r) PROVE Accounted'
    <3>1. GiveUp(obj', mem[r].id)
      BY <1>3, <2>7 DEF ApplyFails
    <3>2. \A x : LooksAfter(r, x) => x = mem[r].id \/ x = NoId
      BY <2>7 DEF LooksAfter, Held
    <3>3. CASE obj' = obj
      BY <2>1, <3>1, <3>2, <3>3, GiveUpAccounted
    <3>4. CASE obj'.id = mem[r].id
      BY <3>1, <3>4 DEF GiveUp, Accounted
    <3>5. QED
      BY <2>5, <3>3, <3>4
  <2>8. QED
    BY <2>2, <2>3, <2>6, <2>7
<1>4. CASE ApplyDependencyMissing(r)
  <2>1. ~obj'.live /\ dep' = dep
    BY <1>4 DEF ApplyDependencyMissing, DependencyFirst
  <2>2. CASE mem[r].waits + 1 < MaxDepTries
    <3>1. \A q \in Instances : mem'[q].id = mem[q].id
      BY <1>4, <2>2 DEF ApplyDependencyMissing, TypeOK, MemRec
    <3>2. Sessions'
      BY <1>4, <2>2, <3>1 DEF ApplyDependencyMissing, Sessions, Held
    <3>3. QED
      BY <2>1, <3>2 DEF Accounted, DependencyFirst
  <2>3. CASE ~(mem[r].waits + 1 < MaxDepTries)
    BY <1>4, <2>1, <2>3, SessionsReturn
       DEF ApplyDependencyMissing, Accounted, DependencyFirst
  <2>4. QED
    BY <2>2, <2>3
<1>5. QED
  BY <1>1, <1>2, <1>3, <1>4 DEF Apply

LEMMA CreateAccounted ==
  ASSUME AccountedInv, NEW r \in Instances, CreateStart(r) \/ CreateStep(r)
  PROVE  DependencyFirst' /\ Sessions' /\ Accounted'
<1> USE DEF AccountedInv
<1>o. UNCHANGED <<obj, dep, given>>
  BY DEF CreateStart, CreateStep, CreateCheck, CreateReadBack, CreateProject
<1>d. DependencyFirst'
  BY <1>o DEF DependencyFirst
<1>1. CASE CreateStart(r)
  <2>1. \A q \in Instances : q # r => mem'[q] = mem[q] /\ pc'[q] = pc[q]
    BY <1>1 DEF CreateStart, Goto, TypeOK
  <2>2. pc'[r] \in CreatePcs /\ pc[r] = "idle" /\ ~Held(r) /\ st' = st
    BY <1>1 DEF CreateStart, CanStart, Goto, TypeOK, CreatePcs
  <2>3. Sessions'
    BY <2>1, <2>2 DEF Sessions, Held, CreatePcs, UpdatePcs, DeletePcs
  <2>4. \A q \in Instances : \A x : x # NoId /\ LooksAfter(q, x) => LooksAfter(q, x)'
    BY <2>1, <2>2 DEF LooksAfter, Held, CreatePcs
  <2>5. Accounted'
    BY <1>o, <2>4 DEF Accounted
  <2>6. QED
    BY <1>d, <2>3, <2>5
<1>2. CASE /\ pc[r] \in CreatePcs
           /\ UNCHANGED <<st, mem>>
           /\ Goto(r, "c_apply") \/ Goto(r, "c_proj")
  <2>1. pc'[r] \in CreatePcs /\ \A q \in Instances : q # r => pc'[q] = pc[q]
    BY <1>2 DEF Goto, TypeOK, CreatePcs
  <2>2. Sessions'
    BY <1>2, <2>1 DEF Sessions, Held, CreatePcs, UpdatePcs, DeletePcs
  <2>3. \A q \in Instances : \A x : LooksAfter(q, x) => LooksAfter(q, x)'
    BY <1>2, <2>1 DEF LooksAfter
  <2>4. QED
    BY <1>o, <1>d, <2>2, <2>3 DEF Accounted
<1>3. CASE /\ pc[r] \in CreatePcs
           /\ Return(r, Created(r)) \/ Return(r, CreatedPending(r))
  <2>1. Sessions'
    BY <1>3, SessionsReturn
  <2>2. st'[r].id = mem[r].id
    <3>1. Created(r).id = mem[r].id /\ CreatedPending(r).id = mem[r].id
      BY DEF Created, CreatedPending, NoState
    <3>2. QED
      BY <1>3, <3>1 DEF Return, TypeOK
  <2>3. \A x : x # NoId /\ LooksAfter(r, x) => LooksAfter(r, x)'
    BY <1>3, <2>2 DEF LooksAfter, Sessions, Held
  <2>4. \A q \in Instances : \A x : q # r /\ LooksAfter(q, x) => LooksAfter(q, x)'
    BY <1>3, OthersKeep
  <2>5. QED
    BY <1>o, <1>d, <2>1, <2>3, <2>4 DEF Accounted
<1>4. CASE CreateCheck(r) /\ Return(r, NoState)
  \* refused before it applied: its id is on no object
  <2>1. Sessions'
    BY <1>4, SessionsReturn
  <2>2. obj.id # NoId => ~LooksAfter(r, obj.id)
    BY <1>4 DEF CreateCheck, FreshUntilApplied, LooksAfter, Sessions, Held, CreatePcs
  <2>3. Accounted'
    BY <1>4, <1>o, <2>2, DropAccounted DEF Accounted
  <2>4. QED
    BY <1>d, <2>1, <2>3
<1>5. QED
  BY <1>1, <1>2, <1>3, <1>4
     DEF CreateStep, CreateCheck, CreateReadBack, CreateProject, CreatePcs

LEMMA ReadUpdateAccounted ==
  ASSUME AccountedInv, NEW r \in Instances,
         ReadStart(r) \/ ReadGet(r) \/ UpdateStart(r) \/ UpdateGet(r)
  PROVE  DependencyFirst' /\ Sessions' /\ Accounted'
<1> USE DEF AccountedInv
<1>o. UNCHANGED <<obj, dep, given>>
  BY DEF ReadStart, ReadGet, UpdateStart, UpdateGet
<1>d. DependencyFirst'
  BY <1>o DEF DependencyFirst
<1>p. pc[r] \notin CreatePcs
  BY DEF ReadStart, ReadGet, UpdateStart, UpdateGet, CanStart, CreatePcs
<1>1. CASE Return(r, NoState) /\ ~obj.live
  BY <1>1, <1>o, <1>d, SessionsReturn, DropAccounted
<1>2. ASSUME NEW s \in StateRec, Return(r, s), s.id = st[r].id
      PROVE  DependencyFirst' /\ Sessions' /\ Accounted'
  BY <1>2, <1>o, <1>d, <1>p, SessionsReturn, KeepAccounted
<1>3. CASE ReadStart(r) /\ Goto(r, "r_get") /\ UNCHANGED <<st, mem>>
  <2>1. Sessions'
    BY <1>3 DEF Goto, TypeOK, Sessions, Held, CreatePcs, UpdatePcs, DeletePcs
  <2>2. \A q \in Instances : \A x : LooksAfter(q, x) => LooksAfter(q, x)'
    BY <1>3, <1>p DEF Goto, TypeOK, LooksAfter
  <2>3. QED
    BY <1>o, <1>d, <2>1, <2>2 DEF Accounted
<1>4. CASE UpdateStart(r)
  <2>1. mem'[r].id = st[r].id
    BY <1>4 DEF UpdateStart, Locals, NoMem, TypeOK
  <2>2. /\ \A q \in Instances : q # r => mem'[q] = mem[q] /\ pc'[q] = pc[q]
        /\ pc'[r] = "u_apply" /\ st' = st /\ Held(r)
    BY <1>4 DEF UpdateStart, Goto, TypeOK
  <2>3. Sessions'
    BY <2>1, <2>2 DEF Sessions, Held, CreatePcs, UpdatePcs, DeletePcs
  <2>4. \A q \in Instances : \A x : LooksAfter(q, x) => LooksAfter(q, x)'
    BY <1>p, <2>2 DEF LooksAfter
  <2>5. QED
    BY <1>o, <1>d, <2>3, <2>4 DEF Accounted
<1>5. st[r] \in StateRec
  BY DEF TypeOK
<1>6. /\ [st[r] EXCEPT !.stale = TRUE].id = st[r].id
      /\ Refreshed(r).id = st[r].id
      /\ StillPending(r).id = st[r].id
      /\ Updated(r).id = st[r].id /\ UpdatedPending(r).id = st[r].id
  BY <1>5 DEF Refreshed, StillPending, Updated, UpdatedPending, StateRec
<1>7. CASE ReadStart(r)
  BY <1>1, <1>2, <1>3, <1>6, <1>7, ReturnedTypes DEF ReadStart, DependencyFirst
<1>8. CASE ReadGet(r)
  BY <1>1, <1>2, <1>5, <1>6, <1>8, ReturnedTypes DEF ReadGet
<1>9. CASE UpdateGet(r)
  BY <1>2, <1>5, <1>6, <1>9, ReturnedTypes DEF UpdateGet
<1>10. QED
  BY <1>4, <1>7, <1>8, <1>9

\* Deleting, marking for deletion and losing finalizers leave the id alone.
LEMMA DeletedId == Deleted.live => obj.live /\ Deleted.id = obj.id
<1>1. CASE obj.fin
  BY <1>1 DEF Deleted
<1>2. CASE ~obj.fin
  BY <1>2 DEF Deleted, NoObj
<1>3. QED
  BY <1>1, <1>2

\* An object that keeps its id stays accounted for while nobody lets go of it.
LEMMA SameIdAccounted ==
  ASSUME Accounted, obj'.live => obj.live /\ obj'.id = obj.id, UNCHANGED given,
         \A q \in Instances : \A x : x # NoId /\ LooksAfter(q, x) => LooksAfter(q, x)'
  PROVE  Accounted'
<1>1. SUFFICES ASSUME obj'.live, obj'.id # NoId, obj'.id # given
               PROVE  \E q \in Instances : LooksAfter(q, obj.id)'
  BY DEF Accounted, LooksAfter
<1>2. PICK q \in Instances : LooksAfter(q, obj.id)
  BY <1>1 DEF Accounted
<1>3. \A x : x = obj'.id => LooksAfter(q, x)'
  BY <1>1, <1>2
<1>4. LooksAfter(q, obj.id)'
  BY <1>3 DEF LooksAfter
<1>5. QED
  BY <1>4

\* No call of Delete writes an annotation.
LEMMA DeleteObject ==
  ASSUME TypeOK, NEW r \in Instances, DeleteStart(r) \/ DeleteStep(r)
  PROVE  dep' = dep /\ (obj'.live => obj.live /\ obj'.id = obj.id)
BY DeletedId, UnfinalizedType
   DEF DeleteStart, DeleteStep, DeleteGet, DeleteCall, DeleteRecheck, DeleteWait,
       DeleteTimeout, ForceGet, ForceApply, ForceDelete, ForceWait, TypeOK

LEMMA DeleteAccounted ==
  ASSUME AccountedInv, NEW r \in Instances, DeleteStart(r) \/ DeleteStep(r)
  PROVE  DependencyFirst' /\ Sessions' /\ Accounted'
<1> USE DEF AccountedInv
<1>o. dep' = dep /\ (obj'.live => obj.live /\ obj'.id = obj.id)
  BY DeleteObject
<1>d. DependencyFirst'
  BY <1>o DEF DependencyFirst
<1>p. pc[r] \in DeletePcs \cup {"idle"} /\ pc[r] \notin CreatePcs
  BY DEF DeleteStart, DeleteStep, DeleteGet, DeleteCall, DeleteRecheck, DeleteWait,
     DeleteTimeout, ForceGet, ForceApply, ForceDelete, ForceWait, DeletePcs, CreatePcs, CanStart
<1>i. pc[r] # "idle" => mem[r].id = st[r].id
  BY <1>p DEF Sessions
<1>l. \A x : LooksAfter(r, x) => x = st[r].id
  BY <1>p DEF LooksAfter
<1>1. ASSUME Goto(r, "d_get"), mem' = [mem EXCEPT ![r] = Locals(st[r].id, st[r].opt)],
             UNCHANGED <<st, given>>, Held(r), pc[r] = "idle"
      PROVE  Sessions' /\ Accounted'
  <2>1. mem'[r].id = st[r].id
    BY <1>1 DEF Locals, NoMem, TypeOK
  <2>2. /\ \A q \in Instances : q # r => mem'[q] = mem[q] /\ pc'[q] = pc[q]
        /\ pc'[r] = "d_get"
    BY <1>1 DEF Goto, TypeOK
  <2>3. Sessions'
    BY <1>1, <2>1, <2>2 DEF Sessions, Held, CreatePcs, UpdatePcs, DeletePcs
  <2>4. \A q \in Instances : \A x : LooksAfter(q, x) => LooksAfter(q, x)'
    BY <1>1, <1>p, <2>2 DEF LooksAfter
  <2>5. QED
    BY <1>o, <1>1, <2>3, <2>4, SameIdAccounted
<1>2. ASSUME NEW l \in DeletePcs, Goto(r, l), pc[r] \in DeletePcs, UNCHANGED <<st, given>>,
             \A q \in Instances : mem'[q].id = mem[q].id
      PROVE  Sessions' /\ Accounted'
  <2>1. \A q \in Instances : q # r => pc'[q] = pc[q]
    BY <1>2 DEF Goto, TypeOK
  <2>2. pc'[r] = l
    BY <1>2 DEF Goto, TypeOK
  <2>3. Sessions'
    BY <1>2, <2>1, <2>2 DEF Sessions, Held, CreatePcs, UpdatePcs, DeletePcs
  <2>4. \A q \in Instances : \A x : LooksAfter(q, x) => LooksAfter(q, x)'
    BY <1>2, <1>p, <2>1, <2>2 DEF LooksAfter
  <2>5. QED
    BY <1>o, <1>2, <2>3, <2>4, SameIdAccounted
<1>3. ASSUME Return(r, st[r]), UNCHANGED given
      PROVE  Sessions' /\ Accounted'
  <2>1. \A q \in Instances : \A x : LooksAfter(q, x) => LooksAfter(q, x)'
    BY <1>3, <1>p DEF Return, Goto, TypeOK, LooksAfter
  <2>2. QED
    BY <1>o, <1>3, <2>1, SameIdAccounted, SessionsReturn
<1>n. ASSUME Resend(r) \/ PollsOn(r), UNCHANGED given
      PROVE  Sessions' /\ Accounted'
  <2>1. UNCHANGED <<st, pc>> /\ \A q \in Instances : mem'[q].id = mem[q].id
    BY <1>n, Counts
  <2>2. Sessions' /\ \A q \in Instances : \A x : LooksAfter(q, x) => LooksAfter(q, x)'
    BY <2>1 DEF Sessions, Held, LooksAfter
  <2>3. QED
    BY <1>o, <1>n, <2>2, SameIdAccounted
<1>4. ASSUME Return(r, NoState), UNCHANGED <<obj, given>>,
             ~obj.live \/ Foreign(st[r].id)
      PROVE  Sessions' /\ Accounted'
  BY <1>4, <1>l, SessionsReturn, DropAccounted DEF Foreign
<1>5. ASSUME Return(r, NoState), GiveUp(obj', st[r].id)
      PROVE  Sessions' /\ Accounted'
  BY <1>o, <1>5, <1>l, SessionsReturn, GiveUpAccounted
<1>a. CASE DeleteStart(r)
  BY <1>1, <1>5, <1>d, <1>a DEF DeleteStart, CanStart
<1>b. CASE DeleteGet(r)
  BY <1>2, <1>3, <1>4, <1>i, <1>d, <1>b DEF DeleteGet, DeletePcs
<1>c. CASE DeleteCall(r)
  <2>1. CASE Resend(r)
    BY <1>n, <1>c, <1>d, <2>1 DEF DeleteCall
  <2>2. CASE Goto(r, "d_recheck") /\ UNCHANGED <<st, mem, given>>
    BY <1>2, <1>c, <1>d, <2>2 DEF DeleteCall, DeletePcs
  <2>3. CASE Return(r, st[r]) /\ UNCHANGED given
    BY <1>3, <1>d, <2>3
  <2>4. QED
    BY <1>c, <2>1, <2>2, <2>3 DEF DeleteCall
<1>e. CASE DeleteRecheck(r)
  BY <1>2, <1>4, <1>5, <1>i, <1>d, <1>e DEF DeleteRecheck, DeletePcs
<1>f. CASE DeleteWait(r)
  BY <1>2, <1>4, <1>n, <1>i, <1>d, <1>f DEF DeleteWait, DeletePcs
<1>g. CASE DeleteTimeout(r)
  BY <1>3, <1>4, <1>d, <1>g DEF DeleteTimeout
<1>h. CASE ForceGet(r)
  <2>1. CASE /\ mem' = [mem EXCEPT ![r].snap = obj, ![r].tries = 0, ![r].polls = 0]
             /\ UNCHANGED <<st, given>>
    <3>1. \A q \in Instances : mem'[q].id = mem[q].id
      BY <2>1, SnapType
    <3>2. QED
      BY <1>2, <1>5, <1>i, <1>d, <1>h, <2>1, <3>1 DEF ForceGet, DeletePcs
  <2>2. CASE Return(r, NoState) /\ GiveUp(obj, mem[r].id)
    BY <1>5, <1>i, <1>d, <1>h, <2>2 DEF ForceGet
  <2>3. QED
    BY <1>h, <2>1, <2>2 DEF ForceGet
<1>j. CASE ForceApply(r)
  BY <1>2, <1>5, <1>n, <1>i, <1>d, <1>j DEF ForceApply, DeletePcs
<1>k. CASE ForceDelete(r)
  BY <1>2, <1>5, <1>n, <1>i, <1>d, <1>k DEF ForceDelete, DeletePcs
<1>m. CASE ForceWait(r)
  BY <1>5, <1>n, <1>i, <1>d, <1>m DEF ForceWait
<1>q. QED
  BY <1>a, <1>b, <1>c, <1>e, <1>f, <1>g, <1>h, <1>j, <1>k, <1>m DEF DeleteStep

LEMMA ImportCrashAccounted ==
  ASSUME AccountedInv, NEW r \in Instances, Import(r) \/ Crash(r)
  PROVE  DependencyFirst' /\ Sessions' /\ Accounted'
<1> USE DEF AccountedInv
<1>1. UNCHANGED <<obj, dep>>
  BY DEF Import, Crash
<1>2. DependencyFirst'
  BY <1>1 DEF DependencyFirst
<1>3. CASE Import(r)
  <2>1. PICK s : Return(r, s)
    BY <1>3 DEF Import
  <2>2. Sessions'
    BY <2>1, SessionsReturn
  <2>3. \A q \in Instances : \A x : q # r /\ LooksAfter(q, x) => LooksAfter(q, x)'
    BY <2>1, OthersKeep
  <2>4. \A x : LooksAfter(r, x) => x = NoId
    BY <1>3 DEF Import, CanStart, LooksAfter, Held, CreatePcs
  <2>5. Accounted'
    BY <1>1, <1>3, <2>3, <2>4 DEF Import, Accounted
  <2>6. QED
    BY <1>2, <2>2, <2>5
<1>4. CASE Crash(r)
  <2>1. Return(r, st[r])
    BY <1>4 DEF Crash
  <2>2. Sessions'
    BY <2>1, SessionsReturn
  <2>3. ASSUME Held(r) PROVE Accounted'
    <3>1. pc[r] \notin CreatePcs /\ given' = given /\ st[r] \in StateRec
      BY <1>4, <2>3 DEF Crash, Sessions, TypeOK
    <3>2. QED
      BY <1>1, <2>1, <3>1, KeepAccounted
  <2>4. ASSUME ~Held(r) PROVE Accounted'
    <3>1. GiveUp(obj', mem[r].id)
      BY <1>1, <1>4, <2>4 DEF Crash
    <3>2. \A x : LooksAfter(r, x) => x = mem[r].id \/ x = NoId
      BY <2>4 DEF LooksAfter, Held
    <3>3. QED
      BY <1>1, <2>1, <3>1, <3>2, GiveUpAccounted
  <2>5. QED
    BY <1>2, <2>2, <2>3, <2>4
<1>5. QED
  BY <1>3, <1>4

\* The others strip or remove the annotation, but write none.
LEMMA EnvironmentId ==
  ASSUME TypeOK, Environment
  PROVE  /\ obj'.live => obj'.id = NoId \/ (obj.live /\ obj'.id = obj.id)
         /\ obj'.live /\ ~obj.live => "create" \in Edits
<1>e. /\ ~NoObj.live /\ obj \in ObjRec
      /\ \A fin \in BOOLEAN : [NoObj EXCEPT !.live = TRUE, !.fin = fin].id = NoId
      /\ [obj EXCEPT !.id = NoId].id = NoId
      /\ [obj EXCEPT !.id = NoId].live = obj.live
      /\ [obj EXCEPT !.fin = FALSE].id = obj.id
      /\ [obj EXCEPT !.fin = FALSE].live = obj.live
  BY DEF NoObj, TypeOK, ObjRec
<1>1. CASE KubectlCreate
  BY <1>e, <1>1 DEF KubectlCreate
<1>2. CASE StripAnnotation
  BY <1>e, <1>2 DEF StripAnnotation
<1>3. CASE FinalizerDone
  BY <1>e, <1>3 DEF FinalizerDone
<1>4. CASE KubectlDelete
  BY DeletedId, <1>4 DEF KubectlDelete
<1>5. CASE DependencyArrives \/ DependencyLeaves
  BY <1>e, <1>5 DEF DependencyArrives, DependencyLeaves
<1>6. QED
  BY <1>1, <1>2, <1>3, <1>4, <1>5 DEF Environment

LEMMA EnvironmentAccounted ==
  ASSUME AccountedInv, Environment
  PROVE  DependencyFirst' /\ Sessions' /\ Accounted'
<1> USE DEF AccountedInv
<1>1. UNCHANGED <<st, pc, mem, given>>
  BY DEF Environment, KubectlCreate, KubectlDelete, StripAnnotation, FinalizerDone,
         DependencyArrives, DependencyLeaves
<1>2. Sessions' /\ \A q \in Instances : \A x : LooksAfter(q, x) => LooksAfter(q, x)'
  BY <1>1 DEF Sessions, Held, LooksAfter
<1>e. /\ ~NoObj.live /\ obj \in ObjRec
      /\ \A fin \in BOOLEAN : [NoObj EXCEPT !.live = TRUE, !.fin = fin].id = NoId
      /\ [obj EXCEPT !.id = NoId].id = NoId
      /\ [obj EXCEPT !.id = NoId].live = obj.live
      /\ [obj EXCEPT !.fin = FALSE].id = obj.id
      /\ [obj EXCEPT !.fin = FALSE].live = obj.live
  BY DEF NoObj, TypeOK, ObjRec
<1>3. obj'.live => obj'.id = NoId \/ (obj.live /\ obj'.id = obj.id)
  BY EnvironmentId
<1>4. DependencyFirst'
  <2>1. CASE KubectlCreate
    BY <2>1 DEF KubectlCreate, DependencyFirst
  <2>2. CASE StripAnnotation
    BY <1>e, <2>2 DEF StripAnnotation, DependencyFirst
  <2>3. CASE FinalizerDone
    BY <1>e, <2>3 DEF FinalizerDone, DependencyFirst
  <2>4. CASE KubectlDelete
    BY DeletedId, <2>4 DEF KubectlDelete, DependencyFirst
  <2>5. CASE DependencyArrives \/ DependencyLeaves
    BY <1>e, <2>5 DEF DependencyArrives, DependencyLeaves, DependencyFirst
  <2>6. QED
    BY <2>1, <2>2, <2>3, <2>4, <2>5 DEF Environment
<1>5. CASE obj'.live /\ obj'.id = NoId
  BY <1>2, <1>4, <1>5 DEF Accounted
<1>6. CASE obj'.live => obj.live /\ obj'.id = obj.id
  BY <1>1, <1>2, <1>4, <1>6, SameIdAccounted
<1>7. QED
  BY <1>3, <1>5, <1>6

-----------------------------------------------------------------------------
(* Where ids come from: a step of q moves around only the ids that are on   *)
(* the object, in q's state and in q's memory, or makes a fresh one.        *)

Known(q) == {NoId, obj.id, st[q].id, mem[q].id}

Provenance(q) ==
    /\ obj'.id \in {NoId, obj.id, mem[q].id}
    /\ given' \in {given, st[q].id, mem[q].id}
    /\ st'[q].id \in Known(q) \/ st'[q].id \notin UsedIds
    /\ mem'[q].id \in Known(q) \/ mem'[q].id \notin UsedIds
    /\ \A p \in Instances \ {q} : st'[p] = st[p] /\ mem'[p] = mem[p] /\ pc'[p] = pc[p]
    /\ pc'[q] = "c_check" =>
          /\ CreateStart(q)
          /\ mem'[q].id \in Ids /\ mem'[q].id \notin UsedIds

\* A step that follows its provenance tells no id that was not told before.
LEMMA ProvenanceKeepsFresh ==
  ASSUME TypeOK, TypeOK', FreshUntilApplied, NEW q \in Instances, Provenance(q)
  PROVE  FreshUntilApplied'
<1> SUFFICES ASSUME NEW r \in Instances, pc'[r] = "c_check"
             PROVE  /\ mem'[r].id \notin {NoId, obj'.id, given'}
                    /\ \A p \in Instances \ {r} : mem'[r].id \notin {st'[p].id, mem'[p].id}
  BY DEF FreshUntilApplied
<1>1. CASE r = q
  <2>1. mem'[r].id \in Ids /\ mem'[r].id \notin UsedIds
    BY <1>1 DEF Provenance
  <2>2. /\ UNCHANGED <<obj, given>>
        /\ \A p \in Instances \ {r} : st'[p] = st[p] /\ mem'[p] = mem[p]
    BY <1>1 DEF Provenance, CreateStart
  <2>3. /\ obj.id \in UsedIds /\ given \in UsedIds
        /\ \A p \in Instances : st[p].id \in UsedIds /\ mem[p].id \in UsedIds
    BY DEF UsedIds
  <2>4. mem'[r].id # NoId
    BY <2>1
  <2>5. mem'[r].id \notin {obj'.id, given'}
    BY <2>1, <2>2, <2>3
  <2>6. \A p \in Instances \ {r} : mem'[r].id \notin {st'[p].id, mem'[p].id}
    BY <2>1, <2>2, <2>3
  <2>7. QED
    BY <2>4, <2>5, <2>6
<1>2. CASE r # q
  <2>1. /\ pc[r] = "c_check" /\ mem'[r] = mem[r] /\ st'[r] = st[r]
        /\ \A p \in Instances \ {q} : st'[p] = st[p] /\ mem'[p] = mem[p]
    BY <1>2 DEF Provenance
  <2>2. /\ mem[r].id \notin {NoId, obj.id, given, st[q].id, mem[q].id}
        /\ \A p \in Instances \ {r} : mem[r].id \notin {st[p].id, mem[p].id}
    BY <1>2, <2>1 DEF FreshUntilApplied
  <2>3. mem[r].id \in UsedIds
    BY DEF UsedIds
  <2>4. mem[r].id \notin {st'[q].id, mem'[q].id, obj'.id, given'}
    BY <2>2, <2>3 DEF Provenance, Known
  <2>5. QED
    BY <2>1, <2>2, <2>4
<1>3. QED
  BY <1>1, <1>2

\* Only q's entries change, and to something known, when q's handler returns.
LEMMA ReturnProvenance ==
  ASSUME TypeOK, NEW q \in Instances, NEW s, Return(q, s),
         s.id \in Known(q) \/ s.id \notin UsedIds,
         obj'.id \in {NoId, obj.id, mem[q].id},
         given' \in {given, st[q].id, mem[q].id}
  PROVE  Provenance(q)
<1>1. /\ \A p \in Instances \ {q} : st'[p] = st[p] /\ mem'[p] = mem[p] /\ pc'[p] = pc[p]
      /\ st'[q] = s /\ mem'[q] = NoMem /\ pc'[q] = "idle"
  BY DEF Return, Goto, TypeOK
<1>2. mem'[q].id \in Known(q)
  BY <1>1 DEF NoMem, Known
<1>3. QED
  BY <1>1, <1>2 DEF Provenance

\* A step to another label that sets at most q's memory, to a known id.
LEMMA GotoProvenance ==
  ASSUME TypeOK, NEW q \in Instances, NEW l, Goto(q, l), l # "c_check",
         UNCHANGED <<st, given>>,
         NEW m, mem' = [mem EXCEPT ![q] = m], m.id \in Known(q),
         obj'.id \in {NoId, obj.id, mem[q].id}
  PROVE  Provenance(q)
<1>1. /\ \A p \in Instances \ {q} : st'[p] = st[p] /\ mem'[p] = mem[p] /\ pc'[p] = pc[p]
      /\ st'[q] = st[q] /\ mem'[q] = m /\ pc'[q] = l
  BY DEF Goto, TypeOK
<1>2. QED
  BY <1>1 DEF Provenance, Known

\* The same when the memory does not change at all.
LEMMA StayProvenance ==
  ASSUME TypeOK, NEW q \in Instances, NEW l, Goto(q, l), l # "c_check",
         UNCHANGED <<st, mem, given>>,
         obj'.id \in {NoId, obj.id, mem[q].id}
  PROVE  Provenance(q)
<1>1. mem' = [mem EXCEPT ![q] = mem[q]] /\ mem[q].id \in Known(q)
  BY DEF TypeOK, Known
<1>2. QED
  BY <1>1, GotoProvenance

LEMMA StampedId ==
  ASSUME NEW id, NEW fin PROVE Stamped(id, fin).id = id
BY DEF Stamped

LEMMA GiveUpProvenance ==
  ASSUME NEW o, NEW id, GiveUp(o, id) PROVE given' \in {given, id}
BY DEF GiveUp

\* Ids of the states that handlers return.
LEMMA ReturnedIds ==
  ASSUME TypeOK, NEW q \in Instances
  PROVE  /\ NoState.id = NoId
         /\ [st[q] EXCEPT !.stale = TRUE].id = st[q].id
         /\ Refreshed(q).id = st[q].id
         /\ Created(q).id = mem[q].id
         /\ CreatedPending(q).id = mem[q].id
         /\ StillPending(q).id = st[q].id
         /\ Updated(q).id = st[q].id
         /\ UpdatedPending(q).id = st[q].id
<1>1. st[q] \in StateRec
  BY DEF TypeOK
<1>2. QED
  BY <1>1 DEF StateRec, NoState, Refreshed, StillPending, Created, CreatedPending,
              Updated, UpdatedPending

\* A step that only counts.
LEMMA CountProvenance ==
  ASSUME TypeOK, NEW q \in Instances, Resend(q) \/ PollsOn(q), pc[q] # "c_check",
         given' = given, obj'.id \in {NoId, obj.id, mem[q].id}
  PROVE  Provenance(q)
<1>1. /\ UNCHANGED <<st, pc>> /\ mem'[q].id \in Known(q)
      /\ mem' = [mem EXCEPT ![q] = mem'[q]]
  BY Counts DEF Known
<1>2. Goto(q, pc[q])
  BY <1>1 DEF Goto, TypeOK
<1>3. QED
  BY <1>1, <1>2, GotoProvenance

LEMMA ApplyProvenance ==
  ASSUME TypeOK, NEW q \in Instances, Apply(q)
  PROVE  Provenance(q)
<1>m. mem[q] \in MemRec
  BY DEF TypeOK
<1>1. CASE ApplySucceeds(q)
  BY <1>1, StampedId, StayProvenance DEF ApplySucceeds
<1>2. CASE ApplyResponseLost(q)
  BY <1>2, StampedId, CountProvenance DEF ApplyResponseLost, Applying
<1>3. CASE ApplyFails(q)
  <2>1. given' \in {given, mem[q].id}
    BY <1>3, GiveUpProvenance DEF ApplyFails
  <2>2. obj'.id \in {obj.id, mem[q].id}
    BY <1>3, StampedId DEF ApplyFails
  <2>3. st[q].id \in Known(q)
    BY DEF Known
  <2>4. QED
    BY <1>3, <2>1, <2>2, <2>3, ReturnProvenance DEF ApplyFails
<1>4. CASE ApplyDependencyMissing(q)
  <2>1. CASE mem[q].waits + 1 < MaxDepTries
    <3>1. /\ mem' = [mem EXCEPT ![q] = [mem[q] EXCEPT !.waits = @ + 1, !.tries = 0]]
          /\ [mem[q] EXCEPT !.waits = @ + 1, !.tries = 0].id = mem[q].id
      BY <1>4, <1>m, <2>1 DEF ApplyDependencyMissing, TypeOK, MemRec
    <3>2. Goto(q, pc[q]) /\ pc[q] # "c_check" /\ mem[q].id \in Known(q)
      BY <1>4, <2>1 DEF ApplyDependencyMissing, Applying, Goto, TypeOK, Known
    <3>3. QED
      BY <1>4, <2>1, <3>1, <3>2, GotoProvenance DEF ApplyDependencyMissing
  <2>2. CASE ~(mem[q].waits + 1 < MaxDepTries)
    <3>1. st[q].id \in Known(q)
      BY DEF Known
    <3>2. QED
      BY <1>4, <2>2, <3>1, ReturnProvenance DEF ApplyDependencyMissing
  <2>3. QED
    BY <2>1, <2>2
<1>5. QED
  BY <1>1, <1>2, <1>3, <1>4 DEF Apply

LEMMA StartProvenance ==
  ASSUME TypeOK, NEW q \in Instances, Start(q)
  PROVE  Provenance(q)
<1>k. /\ NoId \in Known(q) /\ st[q].id \in Known(q) /\ mem[q].id \in Known(q)
      /\ obj.id \in Known(q)
  BY DEF Known
<1>l. \A id, opt : Locals(id, opt).id = id
  BY DEF Locals, NoMem
<1>1. CASE CreateStart(q)
  <2>1. PICK id \in Ids \ UsedIds, opt \in DeleteOpts :
               mem' = [mem EXCEPT ![q] = Locals(id, opt)]
    BY <1>1 DEF CreateStart
  <2>2. /\ mem'[q].id = id
        /\ \A p \in Instances \ {q} : mem'[p] = mem[p] /\ pc'[p] = pc[p]
        /\ UNCHANGED <<obj, st, given>>
    BY <1>1, <1>l, <2>1 DEF CreateStart, Goto, TypeOK
  <2>3. QED
    BY <1>1, <1>k, <2>2 DEF Provenance
<1>2. CASE ReadStart(q)
  BY <1>2, <1>k, ReturnedIds, ReturnProvenance, StayProvenance DEF ReadStart
<1>3. CASE UpdateStart(q)
  BY <1>3, <1>k, <1>l, GotoProvenance DEF UpdateStart
<1>4. CASE DeleteStart(q)
  <2>1. CASE /\ mem' = [mem EXCEPT ![q] = Locals(st[q].id, st[q].opt)]
             /\ Goto(q, "d_get") /\ UNCHANGED <<st, given>>
    BY <1>4, <1>k, <1>l, <2>1, GotoProvenance DEF DeleteStart
  <2>2. CASE Return(q, NoState) /\ GiveUp(obj, st[q].id)
    <3>1. given' \in {given, st[q].id}
      BY <2>2, GiveUpProvenance
    <3>2. QED
      BY <1>4, <1>k, <2>2, <3>1, ReturnedIds, ReturnProvenance DEF DeleteStart
  <2>3. QED
    BY <1>4, <2>1, <2>2 DEF DeleteStart
<1>5. CASE Import(q)
  <2>1. PICK id \in Ids :
          /\ IF obj.id # NoId THEN id = obj.id ELSE id \notin UsedIds
          /\ Return(q, [NoState EXCEPT !.id = id, !.proj = "full", !.imported = TRUE])
    BY <1>5 DEF Import
  <2>2. [NoState EXCEPT !.id = id, !.proj = "full", !.imported = TRUE].id = id
    BY DEF NoState
  <2>3. QED
    BY <1>5, <1>k, <2>1, <2>2, ReturnProvenance DEF Import
<1>6. QED
  BY <1>1, <1>2, <1>3, <1>4, <1>5 DEF Start

LEMMA CreateReadUpdateProvenance ==
  ASSUME TypeOK, NEW q \in Instances,
         CreateStep(q) \/ ReadGet(q) \/ UpdateGet(q) \/ Crash(q)
  PROVE  Provenance(q)
<1>k. NoId \in Known(q) /\ st[q].id \in Known(q) /\ mem[q].id \in Known(q)
  BY DEF Known
<1>1. CASE CreateCheck(q)
  BY <1>1, <1>k, ReturnedIds, ReturnProvenance, StayProvenance DEF CreateCheck
<1>2. CASE CreateReadBack(q)
  BY <1>2, <1>k, ReturnedIds, ReturnProvenance, StayProvenance DEF CreateReadBack
<1>3. CASE CreateProject(q)
  BY <1>3, <1>k, ReturnedIds, ReturnProvenance DEF CreateProject
<1>4. CASE ReadGet(q)
  BY <1>4, <1>k, ReturnedIds, ReturnProvenance DEF ReadGet
<1>5. CASE UpdateGet(q)
  BY <1>5, <1>k, ReturnedIds, ReturnProvenance DEF UpdateGet
<1>6. CASE Crash(q)
  <2>1. given' \in {given, mem[q].id}
    BY <1>6, GiveUpProvenance DEF Crash
  <2>2. QED
    BY <1>6, <1>k, <2>1, ReturnProvenance DEF Crash
<1>7. QED
  BY <1>1, <1>2, <1>3, <1>4, <1>5, <1>6 DEF CreateStep

LEMMA DeleteProvenance ==
  ASSUME TypeOK, NEW q \in Instances, DeleteStep(q)
  PROVE  Provenance(q)
<1>k. NoId \in Known(q) /\ st[q].id \in Known(q) /\ mem[q].id \in Known(q)
  BY DEF Known
<1>m. mem[q] \in MemRec /\ obj \in ObjRec
  BY DEF TypeOK
<1>o. /\ Deleted.id \in {NoId, obj.id}
      /\ Unfinalized.id \in {NoId, obj.id}
  BY <1>m, UnfinalizedType DEF Deleted, NoObj, ObjRec
<1>g. ASSUME NEW o, GiveUp(o, mem[q].id) PROVE given' \in {given, mem[q].id}
  BY <1>g, GiveUpProvenance
<1>1. CASE DeleteGet(q)
  BY <1>1, <1>k, ReturnedIds, ReturnProvenance, StayProvenance DEF DeleteGet
<1>2. CASE DeleteCall(q)
  <2>1. obj'.id \in {NoId, obj.id}
    BY <1>2, <1>o DEF DeleteCall
  <2>2. CASE Resend(q)
    BY <1>2, <2>1, <2>2, CountProvenance DEF DeleteCall
  <2>3. CASE Goto(q, "d_recheck") /\ UNCHANGED <<st, mem, given>>
    BY <2>1, <2>3, StayProvenance
  <2>4. CASE Return(q, st[q]) /\ UNCHANGED given
    BY <1>k, <2>1, <2>4, ReturnProvenance
  <2>5. QED
    BY <1>2, <2>2, <2>3, <2>4 DEF DeleteCall
<1>3. CASE DeleteRecheck(q)
  BY <1>3, <1>k, <1>g, ReturnedIds, ReturnProvenance, StayProvenance DEF DeleteRecheck
<1>4. CASE DeleteWait(q)
  BY <1>4, <1>k, ReturnedIds, ReturnProvenance, StayProvenance, CountProvenance DEF DeleteWait
<1>5. CASE DeleteTimeout(q)
  BY <1>5, <1>k, ReturnedIds, ReturnProvenance DEF DeleteTimeout
<1>6. CASE ForceGet(q)
  <2>1. CASE Return(q, NoState) /\ GiveUp(obj, mem[q].id)
    BY <1>6, <1>k, <1>g, <2>1, ReturnedIds, ReturnProvenance DEF ForceGet
  <2>2. CASE /\ mem' = [mem EXCEPT ![q].snap = obj, ![q].tries = 0, ![q].polls = 0]
             /\ UNCHANGED <<st, given>>
    <3>1. mem' = [mem EXCEPT ![q] = mem'[q]] /\ mem'[q].id = mem[q].id
      BY <2>2, SnapType
    <3>2. QED
      BY <1>6, <1>k, <2>2, <3>1, <1>g, ReturnedIds, GotoProvenance, ReturnProvenance DEF ForceGet
  <2>3. QED
    BY <1>6, <2>1, <2>2 DEF ForceGet
<1>7. CASE ForceApply(q)
  <2>1. obj'.id \in {NoId, obj.id}
    BY <1>7, <1>o DEF ForceApply
  <2>2. QED
    BY <1>7, <1>k, <1>g, <2>1, ReturnedIds, ReturnProvenance, StayProvenance, CountProvenance
       DEF ForceApply
<1>8. CASE ForceDelete(q)
  <2>1. obj'.id \in {NoId, obj.id}
    BY <1>8, <1>o DEF ForceDelete
  <2>2. QED
    BY <1>8, <1>k, <1>g, <2>1, ReturnedIds, ReturnProvenance, StayProvenance, CountProvenance
       DEF ForceDelete
<1>9. CASE ForceWait(q)
  BY <1>9, <1>k, <1>g, ReturnedIds, ReturnProvenance, CountProvenance DEF ForceWait
<1>10. QED
  BY <1>1, <1>2, <1>3, <1>4, <1>5, <1>6, <1>7, <1>8, <1>9 DEF DeleteStep

LEMMA EnvironmentFresh ==
  ASSUME TypeOK, FreshUntilApplied, Environment
  PROVE  FreshUntilApplied'
<1>1. UNCHANGED <<st, pc, mem, given>>
  BY DEF Environment, KubectlCreate, KubectlDelete, StripAnnotation, FinalizerDone,
         DependencyArrives, DependencyLeaves
<1>2. /\ Deleted.id \in {NoId, obj.id} /\ NoObj.id = NoId
      /\ [obj EXCEPT !.fin = FALSE].id = obj.id
      /\ [obj EXCEPT !.id = NoId].id = NoId
      /\ \A fin \in BOOLEAN : [NoObj EXCEPT !.live = TRUE, !.fin = fin].id = NoId
  BY DEF TypeOK, Deleted, NoObj, ObjRec
<1>3. obj'.id \in {NoId, obj.id}
  BY <1>2 DEF Environment, KubectlCreate, KubectlDelete, StripAnnotation, FinalizerDone,
              DependencyArrives, DependencyLeaves
<1>4. QED
  BY <1>1, <1>3 DEF FreshUntilApplied

LEMMA StepAccounted == AccountedInv /\ [Next]_vars => AccountedInv'
<1> SUFFICES ASSUME AccountedInv, [Next]_vars PROVE AccountedInv'
  OBVIOUS
<1>t. TypeOK /\ TypeOK' /\ FreshUntilApplied
  BY StepType DEF AccountedInv
<1>1. ASSUME NEW q \in Instances, HandlerStep(q) \/ Start(q) \/ Crash(q)
      PROVE  AccountedInv'
  <2>1. Provenance(q)
    BY <1>t, <1>1, ApplyProvenance, StartProvenance, CreateReadUpdateProvenance,
       DeleteProvenance DEF HandlerStep
  <2>2. FreshUntilApplied'
    BY <1>t, <2>1, ProvenanceKeepsFresh
  <2>3. DependencyFirst' /\ Sessions' /\ Accounted'
    BY <1>1, ApplyAccounted, CreateAccounted, ReadUpdateAccounted, DeleteAccounted,
       ImportCrashAccounted DEF HandlerStep, Start
  <2>4. QED
    BY <1>t, <2>2, <2>3 DEF AccountedInv
<1>2. CASE Environment
  BY <1>2, <1>t, EnvironmentAccounted, EnvironmentFresh DEF AccountedInv
<1>3. CASE UNCHANGED vars
  BY <1>3, <1>t DEF vars, AccountedInv, TypeOK, DependencyFirst, Sessions, FreshUntilApplied,
                    Accounted, Held, LooksAfter
<1>4. QED
  BY <1>1, <1>2, <1>3 DEF Next

\* The inductive invariant holds in every reachable state.
THEOREM AccountedInvCorrect == Spec => []AccountedInv
BY InitAccounted, StepAccounted, PTL DEF Spec

\* No annotated object is ever orphaned behind a handler's back: the id on the
\* object is in a state, in a Create still running, or it is the one a handler
\* gave up when it failed, died or stopped waiting (ADR-006).
THEOREM AccountedCorrect == Spec => []Accounted
<1>1. AccountedInv => Accounted
  BY DEF AccountedInv
<1>2. QED
  BY <1>1, AccountedInvCorrect, PTL

\* A Create that has not applied yet has told its id to nobody: whatever it
\* finds on the object when it checks is not its own (ADR-003).
THEOREM FreshUntilAppliedCorrect == Spec => []FreshUntilApplied
<1>1. AccountedInv => FreshUntilApplied
  BY DEF AccountedInv
<1>2. QED
  BY <1>1, AccountedInvCorrect, PTL

-----------------------------------------------------------------------------
(* What a handler may leave in the state, and why it drops the instance.    *)

ForcePcs == {"f_get", "f_apply", "f_del", "f_wait"}

\* A Create is refused; the object is gone; discovery fails; the object is
\* another's; Delete does not wait; Delete force-destroys.
DropReason(r) ==
    \/ pc[r] = "c_check"
    \/ ~obj.live /\ obj' = obj
    \/ DeleteStart(r) /\ CallFails
    \/ pc[r] \in DeletePcs /\ obj' = obj /\ Foreign(mem[r].id)
    \/ pc[r] = "d_recheck" /\ mem[r].opt = "nowait"
    \/ pc[r] \in ForcePcs

\* A refresh or an update of the same instance, a Create, an import, a drop.
Writes(r) ==
    \/ st'[r] \in {st[r], [st[r] EXCEPT !.stale = TRUE], Refreshed(r), StillPending(r),
                   Updated(r), UpdatedPending(r)}
    \/ pc[r] \in CreatePcs /\ st'[r] \in {Created(r), CreatedPending(r)}
    \/ /\ ~Held(r)
       /\ \E id \in Ids :
             st'[r] = [NoState EXCEPT !.id = id, !.proj = "full", !.imported = TRUE]
    \/ st'[r] = NoState /\ DropReason(r)

LEMMA ReturnedState ==
  ASSUME TypeOK, NEW r \in Instances, NEW s, Return(r, s)
  PROVE  st'[r] = s
BY DEF TypeOK, Return

LEMMA ApplyWrites ==
  ASSUME TypeOK, NEW r \in Instances, Apply(r) \/ Crash(r)
  PROVE  Writes(r)
<1>1. CASE ApplySucceeds(r) \/ ApplyResponseLost(r)
  BY <1>1 DEF ApplySucceeds, ApplyResponseLost, Resend, Writes
<1>2. CASE UNCHANGED st \/ Return(r, st[r])
  BY <1>2, ReturnedState DEF Writes
<1>3. QED
  BY <1>1, <1>2 DEF Apply, ApplyFails, ApplyDependencyMissing, Crash

LEMMA CreateWrites ==
  ASSUME TypeOK, NEW r \in Instances, CreateStart(r) \/ CreateStep(r)
  PROVE  Writes(r)
<1>1. CASE UNCHANGED st
  BY <1>1 DEF Writes
<1>2. CASE pc[r] = "c_check" /\ Return(r, NoState)
  BY <1>2, ReturnedState DEF Writes, DropReason
<1>3. CASE pc[r] \in CreatePcs /\ (Return(r, Created(r)) \/ Return(r, CreatedPending(r)))
  BY <1>3, ReturnedState DEF Writes
<1>4. QED
  BY <1>1, <1>2, <1>3
     DEF CreateStart, CreateStep, CreateCheck, CreateReadBack, CreateProject, CreatePcs

LEMMA ReadUpdateImportWrites ==
  ASSUME TypeOK, DependencyFirst, NEW r \in Instances,
         ReadStart(r) \/ ReadGet(r) \/ UpdateStart(r) \/ UpdateGet(r) \/ Import(r)
  PROVE  Writes(r)
<1>1. CASE UNCHANGED st
  BY <1>1 DEF Writes
<1>2. CASE \/ Return(r, st[r]) \/ Return(r, [st[r] EXCEPT !.stale = TRUE])
           \/ Return(r, Refreshed(r)) \/ Return(r, StillPending(r))
           \/ Return(r, Updated(r)) \/ Return(r, UpdatedPending(r))
  BY <1>2, ReturnedState DEF Writes
<1>3. CASE ~obj.live /\ obj' = obj /\ Return(r, NoState)
  BY <1>3, ReturnedState DEF Writes, DropReason
<1>4. CASE Import(r)
  BY <1>4, ReturnedState DEF Import, Writes
<1>5. CASE ReadStart(r)
  BY <1>1, <1>2, <1>3, <1>5 DEF ReadStart, DependencyFirst
<1>6. CASE ReadGet(r)
  BY <1>2, <1>3, <1>6 DEF ReadGet
<1>7. CASE UpdateStart(r) \/ UpdateGet(r)
  BY <1>1, <1>2, <1>7 DEF UpdateStart, UpdateGet
<1>8. QED
  BY <1>4, <1>5, <1>6, <1>7

LEMMA DeleteWrites ==
  ASSUME TypeOK, DependencyFirst, NEW r \in Instances, DeleteStart(r) \/ DeleteStep(r)
  PROVE  Writes(r)
<1>1. CASE UNCHANGED st \/ Return(r, st[r])
  BY <1>1, ReturnedState DEF Writes
<1>2. CASE DropReason(r) /\ Return(r, NoState)
  BY <1>2, ReturnedState DEF Writes
<1>3. CASE DeleteStart(r)
  BY <1>1, <1>2, <1>3
     DEF DeleteStart, CanStart, DropReason, Discoverable, DependencyFirst
<1>4. CASE DeleteGet(r) \/ DeleteRecheck(r) \/ DeleteWait(r)
  BY <1>1, <1>2, <1>4 DEF DeleteGet, DeleteRecheck, DeleteWait, PollsOn, DropReason, DeletePcs
<1>5. CASE DeleteCall(r) \/ DeleteTimeout(r)
  BY <1>1, <1>2, <1>5 DEF DeleteCall, Resend, DeleteTimeout, DropReason
<1>6. CASE ForceGet(r) \/ ForceApply(r) \/ ForceDelete(r) \/ ForceWait(r)
  BY <1>1, <1>2, <1>6
     DEF ForceGet, ForceApply, ForceDelete, ForceWait, Resend, PollsOn, DropReason, ForcePcs
<1>7. QED
  BY <1>3, <1>4, <1>5, <1>6 DEF DeleteStep

\* A step writes the state of the instance whose handler makes it, and no other.
LEMMA StepWrites ==
  ASSUME TypeOK, DependencyFirst, [Next]_vars, NEW r \in Instances
  PROVE  st'[r] = st[r] \/ Writes(r)
<1>1. ASSUME NEW q \in Instances, HandlerStep(q) \/ Start(q) \/ Crash(q)
      PROVE  st'[r] = st[r] \/ Writes(r)
  <2>1. CASE r = q
    BY <1>1, <2>1, ApplyWrites, CreateWrites, ReadUpdateImportWrites, DeleteWrites
       DEF HandlerStep, Start
  <2>2. CASE r # q
    <3>1. Provenance(q)
      BY <1>1, ApplyProvenance, StartProvenance, CreateReadUpdateProvenance,
         DeleteProvenance DEF HandlerStep
    <3>2. QED
      BY <2>2, <3>1 DEF Provenance
  <2>3. QED
    BY <2>1, <2>2
<1>2. CASE Environment \/ UNCHANGED vars
  BY <1>2 DEF Environment, KubectlCreate, KubectlDelete, StripAnnotation, FinalizerDone,
              DependencyArrives, DependencyLeaves, vars
<1>3. QED
  BY <1>1, <1>2 DEF Next

\* The flags of the states a handler writes.
LEMMA WrittenPending ==
  ASSUME TypeOK, PendingForcesDiff, NEW r \in Instances, Writes(r)
  PROVE  st'[r].pending => st'[r].proj = "empty"
<1>1. st[r] \in StateRec /\ (st[r].pending => st[r].proj = "empty")
  BY DEF TypeOK, PendingForcesDiff
<1>2. /\ [st[r] EXCEPT !.stale = TRUE].pending = st[r].pending
      /\ [st[r] EXCEPT !.stale = TRUE].proj = st[r].proj
      /\ ~Refreshed(r).pending /\ ~Updated(r).pending
      /\ StillPending(r).proj = "empty" /\ UpdatedPending(r).proj = "empty"
  BY <1>1 DEF StateRec, Refreshed, StillPending, Updated, UpdatedPending
<1>3. /\ ~Created(r).pending /\ CreatedPending(r).proj = "empty" /\ ~NoState.pending
      /\ \A id \in Ids :
            ~[NoState EXCEPT !.id = id, !.proj = "full", !.imported = TRUE].pending
  BY DEF Created, CreatedPending, NoState
<1>4. QED
  BY <1>1, <1>2, <1>3 DEF Writes

\* The recovery flag of ADR-006 never comes with a projection: the refresh and
\* the update that fill the projection clear it, the failed read that keeps it
\* keeps both.
THEOREM PendingForcesDiffCorrect == Spec => []PendingForcesDiff
<1>1. Init => PendingForcesDiff
  BY DEF Init, PendingForcesDiff, NoState
<1>2. AccountedInv /\ PendingForcesDiff /\ [Next]_vars => PendingForcesDiff'
  <2> SUFFICES ASSUME AccountedInv, PendingForcesDiff, [Next]_vars, NEW r \in Instances
               PROVE  st'[r].pending => st'[r].proj = "empty"
    BY DEF PendingForcesDiff
  <2>1. TypeOK /\ DependencyFirst
    BY DEF AccountedInv
  <2>2. QED
    BY <2>1, StepWrites, WrittenPending DEF PendingForcesDiff
<1>3. QED
  BY <1>1, <1>2, AccountedInvCorrect, PTL DEF Spec

\* The ids of the states a handler writes.
LEMMA WrittenId ==
  ASSUME TypeOK, Sessions, NEW r \in Instances, Writes(r), Held(r)
  PROVE  st'[r].id = st[r].id \/ (st'[r] = NoState /\ DropReason(r))
<1>1. pc[r] \notin CreatePcs
  BY DEF Sessions
<1>2. /\ [st[r] EXCEPT !.stale = TRUE].id = st[r].id
      /\ Refreshed(r).id = st[r].id /\ StillPending(r).id = st[r].id
      /\ Updated(r).id = st[r].id /\ UpdatedPending(r).id = st[r].id
  BY ReturnedIds
<1>3. QED
  BY <1>1, <1>2 DEF Writes

\* An instance that stays in the state keeps its id: no handler takes over the
\* annotation it finds on the object (ADR-003).
THEOREM IdStableCorrect == Spec => IdStable
<1>1. AccountedInv /\ [Next]_vars
        => [\A r \in Instances : Held(r) /\ Held(r)' => st'[r].id = st[r].id]_vars
  <2> SUFFICES ASSUME AccountedInv, [Next]_vars, NEW r \in Instances, Held(r), Held(r)'
               PROVE  st'[r].id = st[r].id
    OBVIOUS
  <2>1. TypeOK /\ DependencyFirst /\ Sessions
    BY DEF AccountedInv
  <2>2. st'[r] # NoState
    BY DEF Held, NoState
  <2>3. QED
    BY <2>1, <2>2, StepWrites, WrittenId
<1>2. QED
  BY <1>1, AccountedInvCorrect, PTL DEF Spec, IdStable

-----------------------------------------------------------------------------
(* Delete works with the options of the state.                              *)

\* A Delete that runs has the options the state has: they do not protect the
\* instance, and they say "force" once it force-destroys.
OptionsKept ==
    \A r \in Instances : pc[r] \in DeletePcs =>
        /\ mem[r].opt = st[r].opt
        /\ st[r].opt # "protected"
        /\ pc[r] \in ForcePcs => st[r].opt = "force"

LEMMA ReturnedPc ==
  ASSUME TypeOK, NEW r \in Instances, NEW s, Return(r, s)
  PROVE  pc'[r] = "idle" /\ mem'[r] = NoMem
BY DEF TypeOK, Return, Goto

LEMMA GonePc ==
  ASSUME TypeOK, NEW r \in Instances, NEW l, Goto(r, l)
  PROVE  pc'[r] = l
BY DEF TypeOK, Goto

\* Only Delete leads into Delete.
LEMMA IntoDelete ==
  ASSUME TypeOK, NEW r \in Instances, HandlerStep(r) \/ Start(r) \/ Crash(r),
         pc'[r] \in DeletePcs
  PROVE  DeleteStart(r) \/ DeleteStep(r)
<1> USE DEF DeletePcs
<1>1. ~Apply(r)
  BY ReturnedPc, GonePc
     DEF Apply, ApplySucceeds, ApplyResponseLost, ApplyFails, ApplyDependencyMissing, Applying, Resend
<1>2. ~CreateStart(r) /\ ~CreateStep(r)
  BY ReturnedPc, GonePc DEF CreateStart, CreateStep, CreateCheck, CreateReadBack, CreateProject
<1>3. ~ReadStart(r) /\ ~ReadGet(r) /\ ~UpdateStart(r) /\ ~UpdateGet(r)
  BY ReturnedPc, GonePc DEF ReadStart, ReadGet, UpdateStart, UpdateGet
<1>4. ~Import(r) /\ ~Crash(r)
  BY ReturnedPc DEF Import, Crash
<1>5. QED
  BY <1>1, <1>2, <1>3, <1>4 DEF HandlerStep, Start

\* A Delete that goes on keeps its memory of the options.
LEMMA DeleteOptions ==
  ASSUME TypeOK, OptionsKept, NEW r \in Instances, DeleteStart(r) \/ DeleteStep(r),
         pc'[r] \in DeletePcs
  PROVE  /\ st'[r] = st[r] /\ mem'[r].opt = st[r].opt /\ st[r].opt # "protected"
         /\ pc'[r] \in ForcePcs => st[r].opt = "force"
<1>r. \A s : ~Return(r, s)
  BY ReturnedPc DEF DeletePcs
<1>m. mem[r] \in MemRec
  BY DEF TypeOK
<1>o. pc[r] \in DeletePcs =>
        /\ mem[r].opt = st[r].opt /\ st[r].opt # "protected"
        /\ pc[r] \in ForcePcs => st[r].opt = "force"
  BY DEF OptionsKept
<1>1. CASE DeleteStart(r)
  <2>1. mem' = [mem EXCEPT ![r] = Locals(st[r].id, st[r].opt)] /\ UNCHANGED st
    BY <1>1, <1>r DEF DeleteStart
  <2>2. mem'[r].opt = st[r].opt
    BY <2>1 DEF TypeOK, Locals, NoMem
  <2>3. pc'[r] = "d_get" /\ st[r].opt # "protected"
    BY <1>1, <1>r, GonePc DEF DeleteStart
  <2>4. QED
    BY <2>1, <2>2, <2>3 DEF ForcePcs
<1>2. CASE UNCHANGED <<st, mem>> /\ pc[r] \in DeletePcs
           /\ (pc'[r] \in ForcePcs => pc[r] \in ForcePcs \/ mem[r].opt = "force")
  BY <1>2, <1>o
<1>n. ASSUME Resend(r) \/ PollsOn(r), pc[r] \in DeletePcs
      PROVE  /\ st'[r] = st[r] /\ mem'[r].opt = st[r].opt /\ st[r].opt # "protected"
             /\ pc'[r] \in ForcePcs => st[r].opt = "force"
  BY <1>n, <1>o, Counts
<1>3. CASE DeleteGet(r) \/ DeleteRecheck(r) \/ DeleteWait(r) \/ DeleteTimeout(r)
  BY <1>2, <1>n, <1>3, <1>r, GonePc
     DEF DeleteGet, DeleteRecheck, DeleteWait, DeleteTimeout, DeletePcs, ForcePcs
<1>4. CASE DeleteCall(r)
  <2>1. CASE Resend(r)
    BY <1>n, <1>4, <2>1 DEF DeleteCall, DeletePcs
  <2>2. CASE Goto(r, "d_recheck") /\ UNCHANGED <<st, mem>>
    BY <1>2, <1>4, <2>2, GonePc DEF DeleteCall, DeletePcs, ForcePcs
  <2>3. QED
    BY <1>4, <1>r, <2>1, <2>2 DEF DeleteCall
<1>5. CASE ForceGet(r)
  <2>1. /\ mem' = [mem EXCEPT ![r].snap = obj, ![r].tries = 0, ![r].polls = 0]
        /\ st' = st /\ pc[r] = "f_get"
    BY <1>5, <1>r DEF ForceGet
  <2>2. mem'[r].opt = mem[r].opt
    BY <2>1, SnapType
  <2>3. QED
    BY <1>o, <2>1, <2>2 DEF DeletePcs, ForcePcs
<1>6. CASE ForceApply(r) \/ ForceDelete(r) \/ ForceWait(r)
  BY <1>2, <1>n, <1>6, <1>r, GonePc DEF ForceApply, ForceDelete, ForceWait, DeletePcs, ForcePcs
<1>7. QED
  BY <1>1, <1>3, <1>4, <1>5, <1>6 DEF DeleteStep

LEMMA StepOptions == AccountedInv /\ OptionsKept /\ [Next]_vars => OptionsKept'
<1> SUFFICES ASSUME AccountedInv, OptionsKept, [Next]_vars,
                    NEW r \in Instances, pc'[r] \in DeletePcs
             PROVE  /\ mem'[r].opt = st'[r].opt /\ st'[r].opt # "protected"
                    /\ pc'[r] \in ForcePcs => st'[r].opt = "force"
  BY DEF OptionsKept
<1>t. TypeOK
  BY DEF AccountedInv
<1>1. CASE st'[r] = st[r] /\ mem'[r] = mem[r] /\ pc'[r] = pc[r]
  BY <1>1 DEF OptionsKept
<1>2. ASSUME NEW q \in Instances, HandlerStep(q) \/ Start(q) \/ Crash(q), q # r
      PROVE  st'[r] = st[r] /\ mem'[r] = mem[r] /\ pc'[r] = pc[r]
  <2>1. Provenance(q)
    BY <1>t, <1>2, ApplyProvenance, StartProvenance, CreateReadUpdateProvenance,
       DeleteProvenance DEF HandlerStep
  <2>2. QED
    BY <1>2, <2>1 DEF Provenance
<1>3. CASE HandlerStep(r) \/ Start(r) \/ Crash(r)
  BY <1>t, <1>3, IntoDelete, DeleteOptions
<1>4. CASE Environment \/ UNCHANGED vars
  BY <1>1, <1>4 DEF Environment, KubectlCreate, KubectlDelete, StripAnnotation, FinalizerDone,
                    DependencyArrives, DependencyLeaves, vars
<1>5. QED
  BY <1>1, <1>2, <1>3, <1>4 DEF Next

\* Delete never works with options the state does not have: its protection is
\* off, and what force-destroys was told to.
THEOREM OptionsKeptCorrect == Spec => []OptionsKept
<1>1. Init => OptionsKept
  BY DEF Init, OptionsKept, DeletePcs
<1>2. QED
  BY <1>1, StepOptions, AccountedInvCorrect, PTL DEF Spec

\* What a drop of an instance with a state says about the object.
LEMMA DropMeaning ==
  ASSUME AccountedInv, OptionsKept, NEW r \in Instances, Held(r), DropReason(r)
  PROVE  \/ ~obj.live /\ obj' = obj
         \/ DeleteStart(r) /\ CallFails /\ st[r].opt # "protected"
         \/ obj' = obj /\ Foreign(st[r].id) /\ st[r].opt # "protected"
         \/ st[r].opt \in {"force", "nowait"}
<1>1. pc[r] # "c_check" /\ (pc[r] \in DeletePcs => mem[r].id = st[r].id)
  BY DEF AccountedInv, Sessions, CreatePcs
<1>2. pc[r] \in DeletePcs =>
        /\ mem[r].opt = st[r].opt /\ st[r].opt # "protected"
        /\ pc[r] \in ForcePcs => st[r].opt = "force"
  BY DEF OptionsKept
<1>3. ForcePcs \subseteq DeletePcs /\ "d_recheck" \in DeletePcs
  BY DEF ForcePcs, DeletePcs
<1>4. QED
  BY <1>1, <1>2, <1>3 DEF DropReason, DeleteStart

\* A step that drops an instance has one of those reasons.
LEMMA Dropped ==
  ASSUME AccountedInv, [Next]_vars, NEW r \in Instances, Held(r), ~Held(r)'
  PROVE  DropReason(r)
<1>1. TypeOK /\ DependencyFirst /\ Sessions
  BY DEF AccountedInv
<1>2. st'[r].id # st[r].id
  BY DEF Held
<1>3. QED
  BY <1>1, <1>2, StepWrites, WrittenId

\* delete_protection: a protected instance leaves the state only in a step that
\* finds the object gone; no failing refresh and no Delete drops it (ADR-023).
THEOREM ProtectedStaysCorrect == Spec => ProtectedStays
<1>1. AccountedInv /\ OptionsKept /\ [Next]_vars
        => [\A r \in Instances :
              Held(r) /\ st[r].opt = "protected" /\ ~Held(r)' => ~obj.live]_vars
  <2> SUFFICES ASSUME AccountedInv, OptionsKept, [Next]_vars, NEW r \in Instances,
                      Held(r), st[r].opt = "protected", ~Held(r)'
               PROVE  ~obj.live
    OBVIOUS
  <2>1. QED
    BY Dropped, DropMeaning
<1>2. QED
  BY <1>1, AccountedInvCorrect, OptionsKeptCorrect, PTL DEF Spec, ProtectedStays

\* An instance is dropped from the state only when its object is gone or
\* another's, or when a starting Delete took a discovery failure (an expired
\* token is one) for "deleted", or Delete did not wait (delete_timeout "0") or force-destroyed.
THEOREM DropJustifiedCorrect == Spec => DropJustified
<1>1. AccountedInv /\ OptionsKept /\ [Next]_vars
        => [\A r \in Instances : Held(r) /\ ~Held(r)' =>
              \/ ~obj'.live \/ obj'.id \notin {NoId, st[r].id}
              \/ DeleteStart(r) /\ CallFails
              \/ st[r].opt \in {"force", "nowait"}]_vars
  <2> SUFFICES ASSUME AccountedInv, OptionsKept, [Next]_vars, NEW r \in Instances,
                      Held(r), ~Held(r)'
               PROVE  \/ ~obj'.live \/ obj'.id \notin {NoId, st[r].id}
                      \/ DeleteStart(r) /\ CallFails
                      \/ st[r].opt \in {"force", "nowait"}
    OBVIOUS
  <2>1. QED
    BY Dropped, DropMeaning DEF Foreign
<1>2. QED
  BY <1>1, AccountedInvCorrect, OptionsKeptCorrect, PTL DEF Spec, DropJustified

-----------------------------------------------------------------------------
(* When nothing is left behind.                                             *)

\* The calls are answered in the end, with tokens that have not expired (a
\* Delete whose discovery is unauthorized drops a live object), no process
\* dies, and no configuration tells Delete to return before the object is gone.
Reliable ==
    /\ "error" \notin Faults /\ "auth" \notin Faults /\ "crash" \notin Faults
    /\ "force" \notin DeleteOpts /\ "nowait" \notin DeleteOpts

Configured == DeleteOpts \cup {"plain"}

OptionsConfigured ==
    \A r \in Instances : st[r].opt \in Configured /\ mem[r].opt \in Configured

\* Options come from the configuration, from the state or from the memory.
OptionsFrom(r) == mem'[r].opt \in {mem[r].opt, st[r].opt} \cup Configured

LEMMA ReturnedOptions ==
  ASSUME TypeOK, NEW r \in Instances, NEW s, Return(r, s)
  PROVE  OptionsFrom(r)
BY ReturnedPc DEF OptionsFrom, Configured, NoMem

LEMMA HandlerOptions ==
  ASSUME TypeOK, NEW r \in Instances, HandlerStep(r) \/ Start(r) \/ Crash(r)
  PROVE  OptionsFrom(r)
<1>m. mem \in [Instances -> MemRec] /\ mem[r] \in MemRec
  BY DEF TypeOK
<1>l. \A id, opt : Locals(id, opt).opt = opt
  BY DEF Locals, NoMem
<1>1. CASE UNCHANGED mem
  BY <1>1 DEF OptionsFrom
<1>2. CASE \E s : Return(r, s)
  BY <1>2, ReturnedOptions
<1>3. CASE \E id, opt : /\ mem' = [mem EXCEPT ![r] = Locals(id, opt)]
                        /\ opt \in DeleteOpts \cup {st[r].opt}
  BY <1>3, <1>m, <1>l DEF OptionsFrom, Configured
<1>4. CASE \/ Resend(r) \/ PollsOn(r)
           \/ mem' = [mem EXCEPT ![r].waits = @ + 1, ![r].tries = 0]
           \/ mem' = [mem EXCEPT ![r].snap = obj, ![r].tries = 0, ![r].polls = 0]
  BY <1>4, <1>m, Counts, SnapType DEF OptionsFrom, MemRec
<1>5. CASE Apply(r)
  BY <1>1, <1>2, <1>4, <1>5
     DEF Apply, ApplySucceeds, ApplyResponseLost, ApplyFails, ApplyDependencyMissing
<1>6. CASE CreateStep(r) \/ ReadGet(r) \/ UpdateGet(r) \/ Crash(r)
  BY <1>1, <1>2, <1>6
     DEF CreateStep, CreateCheck, CreateReadBack, CreateProject, ReadGet, UpdateGet, Crash
<1>7. CASE Start(r)
  BY <1>1, <1>2, <1>3, <1>7
     DEF Start, CreateStart, ReadStart, UpdateStart, DeleteStart, Import
<1>8. CASE DeleteStep(r)
  BY <1>1, <1>2, <1>4, <1>8
     DEF DeleteStep, DeleteGet, DeleteCall, DeleteRecheck, DeleteWait, DeleteTimeout,
         ForceGet, ForceApply, ForceDelete, ForceWait
<1>9. QED
  BY <1>5, <1>6, <1>7, <1>8 DEF HandlerStep

LEMMA WrittenOptions ==
  ASSUME TypeOK, OptionsConfigured, NEW r \in Instances, Writes(r)
  PROVE  st'[r].opt \in Configured
<1>1. st[r] \in StateRec /\ st[r].opt \in Configured /\ mem[r].opt \in Configured
  BY DEF TypeOK, OptionsConfigured
<1>2. /\ [st[r] EXCEPT !.stale = TRUE].opt = st[r].opt
      /\ Refreshed(r).opt = st[r].opt
      /\ Updated(r).opt = mem[r].opt
  BY <1>1 DEF StateRec, Refreshed, Updated
<1>u. StillPending(r).opt = st[r].opt /\ UpdatedPending(r).opt = mem[r].opt
  BY <1>1 DEF StateRec, StillPending, UpdatedPending
<1>3. /\ Created(r).opt = mem[r].opt /\ CreatedPending(r).opt = mem[r].opt
      /\ NoState.opt = "plain"
      /\ \A id \in Ids :
            [NoState EXCEPT !.id = id, !.proj = "full", !.imported = TRUE].opt = "plain"
  BY DEF Created, CreatedPending, NoState
<1>4. QED
  BY <1>1, <1>2, <1>u, <1>3 DEF Writes, Configured

LEMMA StepConfigured ==
  AccountedInv /\ OptionsConfigured /\ [Next]_vars => OptionsConfigured'
<1> SUFFICES ASSUME AccountedInv, OptionsConfigured, [Next]_vars, NEW r \in Instances
             PROVE  st'[r].opt \in Configured /\ mem'[r].opt \in Configured
  BY DEF OptionsConfigured, Configured
<1>t. TypeOK /\ DependencyFirst
  BY DEF AccountedInv
<1>o. st[r].opt \in Configured /\ mem[r].opt \in Configured
  BY DEF OptionsConfigured
<1>1. st'[r].opt \in Configured
  BY <1>t, <1>o, StepWrites, WrittenOptions
<1>2. ASSUME NEW q \in Instances, HandlerStep(q) \/ Start(q) \/ Crash(q), q # r
      PROVE  mem'[r] = mem[r]
  <2>1. Provenance(q)
    BY <1>t, <1>2, ApplyProvenance, StartProvenance, CreateReadUpdateProvenance,
       DeleteProvenance DEF HandlerStep
  <2>2. QED
    BY <1>2, <2>1 DEF Provenance
<1>3. CASE HandlerStep(r) \/ Start(r) \/ Crash(r)
  BY <1>t, <1>o, <1>1, <1>3, HandlerOptions DEF OptionsFrom
<1>4. CASE Environment \/ UNCHANGED vars
  BY <1>o, <1>1, <1>4
     DEF Environment, KubectlCreate, KubectlDelete, StripAnnotation, FinalizerDone,
         DependencyArrives, DependencyLeaves, vars
<1>5. QED
  BY <1>o, <1>1, <1>2, <1>3, <1>4 DEF Next

\* Why a handler gives the object up.
GiveUpReason(r) ==
    \/ CallFails \/ "crash" \in Faults
    \/ pc[r] = "d_recheck" /\ mem[r].opt = "nowait"
    \/ pc[r] \in ForcePcs

LEMMA GivenUp ==
  ASSUME TypeOK, DependencyFirst, NEW r \in Instances, HandlerStep(r) \/ Start(r) \/ Crash(r)
  PROVE  given' = given \/ GiveUpReason(r)
<1>1. ~obj.live /\ obj' = obj => \A id : GiveUp(obj, id) => given' = given
  BY DEF GiveUp
<1>2. CASE Apply(r)
  BY <1>1, <1>2 DEF Apply, ApplySucceeds, ApplyResponseLost, ApplyFails,
                    ApplyDependencyMissing, CallFails, GiveUpReason, DependencyFirst, GiveUp
<1>3. CASE CreateStep(r) \/ ReadGet(r) \/ UpdateGet(r)
  BY <1>3 DEF CreateStep, CreateCheck, CreateReadBack, CreateProject, ReadGet, UpdateGet
<1>4. CASE Crash(r)
  BY <1>4 DEF Crash, GiveUpReason
<1>5. CASE Start(r)
  BY <1>1, <1>5 DEF Start, CreateStart, ReadStart, UpdateStart, DeleteStart, Import,
                    GiveUpReason, Discoverable, DependencyFirst
<1>6. CASE DeleteStep(r)
  BY <1>6 DEF DeleteStep, DeleteGet, DeleteCall, DeleteRecheck, DeleteWait, DeleteTimeout,
              ForceGet, ForceApply, ForceDelete, ForceWait, GiveUpReason, ForcePcs
<1>7. QED
  BY <1>2, <1>3, <1>4, <1>5, <1>6 DEF HandlerStep

LEMMA StepAbandons ==
  ASSUME Reliable, AccountedInv, OptionsKept, OptionsConfigured, NothingAbandoned,
         [Next]_vars
  PROVE  NothingAbandoned'
<1>1. ASSUME NEW r \in Instances, HandlerStep(r) \/ Start(r) \/ Crash(r)
      PROVE  given' = given
  <2>1. mem[r].opt \in Configured /\ st[r].opt \in Configured
    BY DEF OptionsConfigured
  <2>2. pc[r] \notin ForcePcs
    BY <2>1 DEF OptionsKept, Reliable, Configured, ForcePcs, DeletePcs
  <2>3. ~GiveUpReason(r)
    BY <2>1, <2>2 DEF GiveUpReason, CallFails, Reliable, Configured
  <2>4. QED
    BY <1>1, <2>3, GivenUp DEF AccountedInv
<1>2. CASE Environment \/ UNCHANGED vars
  BY <1>2 DEF Environment, KubectlCreate, KubectlDelete, StripAnnotation, FinalizerDone,
              DependencyArrives, DependencyLeaves, vars, NothingAbandoned
<1>3. QED
  BY <1>1, <1>2 DEF Next, NothingAbandoned

\* When the calls are answered in the end and Delete is told to wait, no
\* handler leaves an object with its id behind, whatever kubectl, controllers,
\* lost responses and parallel handlers do meanwhile.
THEOREM NothingAbandonedCorrect ==
  ASSUME Reliable
  PROVE  Spec => []NothingAbandoned
<1>1. Init => NothingAbandoned /\ OptionsConfigured
  BY DEF Init, NothingAbandoned, OptionsConfigured, Configured, NoState, NoMem
<1>2. AccountedInv /\ OptionsKept /\ OptionsConfigured /\ NothingAbandoned /\ [Next]_vars
        => OptionsConfigured' /\ NothingAbandoned'
  BY StepConfigured, StepAbandons
<1>3. QED
  BY <1>1, <1>2, AccountedInvCorrect, OptionsKeptCorrect, PTL DEF Spec

\* Then every annotated object is looked after by the instance with its id.
THEOREM EveryObjectHasItsInstance ==
  ASSUME Reliable
  PROVE  Spec => [](obj.live /\ obj.id # NoId
                      => \E r \in Instances : LooksAfter(r, obj.id))
<1>1. Accounted /\ NothingAbandoned
        => (obj.live /\ obj.id # NoId => \E r \in Instances : LooksAfter(r, obj.id))
  BY DEF Accounted, NothingAbandoned
<1>2. QED
  BY <1>1, AccountedCorrect, NothingAbandonedCorrect, PTL

=============================================================================
