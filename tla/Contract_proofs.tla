--------------------------- MODULE Contract_proofs ---------------------------
(***************************************************************************)
(* Handlers that run one at a time (terraform apply -parallelism=1 and one  *)
(* state): what the check before an API call still says when the call is    *)
(* made, and that the handlers then keep the contract of the annotation.    *)
(***************************************************************************)
EXTENDS MCContract, ObjectLifecycle_proofs

USE NoIdAssumption, BoundAssumption, OptAssumption, AbsentAssumption

(* One handler at a time.                                                   *)

Alone ==
    \A p, q \in Instances : pc[p] # "idle" /\ pc[q] # "idle" => p = q

LEMMA Running ==
  ASSUME NEW r \in Instances, HandlerStep(r) \/ Crash(r)
  PROVE  pc[r] # "idle"
BY DEF HandlerStep, Apply, ApplySucceeds, ApplyResponseLost, ApplyFails,
       ApplyDependencyMissing, Applying, CreateStep, CreateCheck, CreateReadBack,
       CreateProject, ReadGet, UpdateGet, DeleteStep, DeleteGet, DeleteCall, DeleteRecheck,
       DeleteWait, DeleteTimeout, ForceGet, ForceApply, ForceDelete, ForceWait, Crash

\* While one handler makes a step, the others are idle and stay so.
LEMMA OthersIdle ==
  ASSUME Serial, Alone, TypeOK, NEW r \in Instances,
         HandlerStep(r) \/ Start(r) \/ Crash(r), NEW q \in Instances, q # r
  PROVE  pc[q] = "idle" /\ pc'[q] = "idle"
<1>1. Provenance(r)
  BY ApplyProvenance, StartProvenance, CreateReadUpdateProvenance, DeleteProvenance
     DEF HandlerStep
<1>2. CASE Start(r)
  BY <1>1, <1>2
     DEF Provenance, Start, CreateStart, ReadStart, UpdateStart, DeleteStart, Import, CanStart
<1>3. CASE HandlerStep(r) \/ Crash(r)
  BY <1>1, <1>3, Running DEF Provenance, Alone
<1>4. QED
  BY <1>2, <1>3

LEMMA QuietPcs ==
  ASSUME Environment \/ UNCHANGED vars
  PROVE  UNCHANGED <<st, pc, mem, given>>
BY DEF Environment, KubectlCreate, KubectlDelete, StripAnnotation, FinalizerDone,
       DependencyArrives, DependencyLeaves, vars

LEMMA StepAlone ==
  ASSUME Serial, AccountedInv, Alone, [Next]_vars
  PROVE  Alone'
<1>1. ASSUME NEW r \in Instances, HandlerStep(r) \/ Start(r) \/ Crash(r)
      PROVE  Alone'
  BY <1>1, OthersIdle DEF AccountedInv, Alone
<1>2. CASE Environment \/ UNCHANGED vars
  BY <1>2, QuietPcs DEF Alone
<1>3. QED
  BY <1>1, <1>2 DEF Next

-----------------------------------------------------------------------------
(* What Delete's check says about its later calls.                          *)

\* Once it has checked the annotation, Delete works on no object of another's.
DeleteAlone ==
    \A r \in Instances :
        pc[r] \in DeletePcs \ {"d_get"} /\ obj.live => ~Foreign(mem[r].id)

LEMMA DeleteKeepsId ==
  ASSUME AccountedInv, AccountedInv', OptionsKept, NEW r \in Instances, DeleteStep(r),
         pc'[r] \in DeletePcs
  PROVE  mem'[r].id = mem[r].id
<1>1. st'[r] = st[r]
  BY DeleteOptions DEF AccountedInv
<1>2. mem'[r].id = st'[r].id
  BY DEF AccountedInv, Sessions
<1>3. pc[r] \in DeletePcs
  BY DEF DeleteStep, DeleteGet, DeleteCall, DeleteRecheck, DeleteWait, DeleteTimeout,
         ForceGet, ForceApply, ForceDelete, ForceWait, DeletePcs
<1>4. mem[r].id = st[r].id
  BY <1>3 DEF AccountedInv, Sessions
<1>5. QED
  BY <1>1, <1>2, <1>4

LEMMA StepDeleteAlone ==
  ASSUME Serial, AccountedInv, AccountedInv', OptionsKept, Alone, DeleteAlone, [Next]_vars
  PROVE  DeleteAlone'
<1> SUFFICES ASSUME NEW r \in Instances, pc'[r] \in DeletePcs \ {"d_get"}, obj'.live
             PROVE  obj'.id = NoId \/ obj'.id = mem'[r].id
  BY DEF DeleteAlone, Foreign
<1>t. TypeOK
  BY DEF AccountedInv
<1>1. ASSUME NEW q \in Instances, HandlerStep(q) \/ Start(q) \/ Crash(q)
      PROVE  obj'.id = NoId \/ obj'.id = mem'[r].id
  <2>1. q = r
    BY <1>t, <1>1, OthersIdle DEF DeletePcs
  <2>2. DeleteStep(r)
    <3>1. ~DeleteStart(r)
      BY <1>t, GonePc, ReturnedPc DEF DeleteStart, DeletePcs
    <3>2. QED
      BY <1>t, <1>1, <2>1, <3>1, IntoDelete
  <2>3. mem'[r].id = mem[r].id /\ obj.live /\ obj'.id = obj.id
    BY <1>t, <2>2, DeleteKeepsId, DeleteObject
  <2>4. CASE pc[r] = "d_get"
    <3>1. DeleteGet(r)
      BY <2>2, <2>4 DEF DeleteStep, DeleteGet, DeleteCall, DeleteRecheck, DeleteWait,
         DeleteTimeout, ForceGet, ForceApply, ForceDelete, ForceWait
    <3>2. ~Foreign(mem[r].id)
      BY <1>t, <3>1, ReturnedPc DEF DeleteGet, DeletePcs
    <3>3. QED
      BY <2>3, <3>2 DEF Foreign
  <2>5. CASE pc[r] # "d_get"
    <3>1. pc[r] \in DeletePcs
      BY <2>2 DEF DeleteStep, DeleteGet, DeleteCall, DeleteRecheck, DeleteWait,
         DeleteTimeout, ForceGet, ForceApply, ForceDelete, ForceWait, DeletePcs
    <3>2. QED
      BY <2>3, <2>5, <3>1 DEF DeleteAlone, Foreign
  <2>6. QED
    BY <2>4, <2>5
<1>2. CASE Environment \/ UNCHANGED vars
  <2>1. UNCHANGED <<pc, mem>>
    BY <1>2, QuietPcs
  <2>2. obj'.id = NoId \/ (obj.live /\ obj'.id = obj.id)
    BY <1>t, <1>2, EnvironmentId DEF vars
  <2>3. QED
    BY <2>1, <2>2 DEF DeleteAlone, Foreign
<1>3. QED
  BY <1>1, <1>2 DEF Next

LEMMA InitAlone == Init => Alone /\ DeleteAlone
BY DEF Init, Alone, DeleteAlone, DeletePcs

\* One handler at a time: the check before the DELETE still holds when the
\* DELETE, and every call of force_destroy after it, is made.
THEOREM SerialDelete ==
  ASSUME Serial
  PROVE  Spec => [](Alone /\ DeleteAlone)
<1>1. AccountedInv /\ AccountedInv' /\ OptionsKept /\ Alone /\ DeleteAlone /\ [Next]_vars
        => Alone' /\ DeleteAlone'
  BY StepAlone, StepDeleteAlone
<1>2. QED
  BY <1>1, InitAlone, AccountedInvCorrect, OptionsKeptCorrect, PTL DEF Spec

\* One handler at a time: Delete and force_destroy leave an object that carries
\* another instance's id as it is.
THEOREM ForeignUntouchedCorrect ==
  ASSUME Serial
  PROVE  Spec => ForeignUntouched
<1>1. AccountedInv /\ DeleteAlone /\ [Next]_vars
        => [\A r \in Instances :
              pc[r] \in DeletePcs /\ obj.live /\ Foreign(mem[r].id) /\ pc'[r] # pc[r]
                => obj' = obj]_vars
  <2> SUFFICES ASSUME AccountedInv, DeleteAlone, [Next]_vars, NEW r \in Instances,
                      pc[r] \in DeletePcs, obj.live, Foreign(mem[r].id), pc'[r] # pc[r]
               PROVE  obj' = obj
    OBVIOUS
  <2>t. TypeOK /\ pc[r] = "d_get"
    BY DEF AccountedInv, DeleteAlone
  <2>1. HandlerStep(r) \/ Start(r) \/ Crash(r)
    <3>1. ASSUME NEW q \in Instances, HandlerStep(q) \/ Start(q) \/ Crash(q), q # r
          PROVE  FALSE
      <4>1. Provenance(q)
        BY <2>t, <3>1, ApplyProvenance, StartProvenance, CreateReadUpdateProvenance,
           DeleteProvenance DEF HandlerStep
      <4>2. QED
        BY <3>1, <4>1 DEF Provenance
    <3>2. ~(Environment \/ UNCHANGED vars)
      BY QuietPcs
    <3>3. QED
      BY <3>1, <3>2 DEF Next
  <2>2. ~Start(r)
    BY <2>t DEF Start, CreateStart, ReadStart, UpdateStart, DeleteStart, Import, CanStart
  <2>3. HandlerStep(r) => DeleteGet(r)
    BY <2>t DEF HandlerStep, Apply, ApplySucceeds, ApplyResponseLost, ApplyFails,
       ApplyDependencyMissing, Applying, CreateStep, CreateCheck, CreateReadBack,
       CreateProject, ReadGet, UpdateGet, DeleteStep, DeleteCall, DeleteRecheck,
       DeleteWait, DeleteTimeout, ForceGet, ForceApply, ForceDelete, ForceWait
  <2>4. QED
    BY <2>1, <2>2, <2>3 DEF DeleteGet, Crash
<1>2. QED
  BY <1>1, AccountedInvCorrect, SerialDelete, PTL DEF Spec, ForeignUntouched

-----------------------------------------------------------------------------
(* What Create's check says about its Apply.                                *)

\* Create applies where there is no object, or over one that an earlier Apply
\* of its own wrote, even if the annotation has been stripped since.
CreateAlone ==
    \A r \in Instances : pc[r] = "c_apply" /\ obj.live =>
        /\ obj.id \in {mem[r].id, NoId}
        /\ mem[r].tries > 0

\* The ways to the next Apply of a Create.
LEMMA IntoApply ==
  ASSUME TypeOK, NEW r \in Instances, HandlerStep(r) \/ Start(r) \/ Crash(r),
         pc'[r] = "c_apply"
  PROVE  \/ CreateStart(r) /\ dep = "no_crd"
         \/ CreateCheck(r) /\ mem' = mem /\ (~obj.live \/ obj.id = mem[r].id)
         \/ ApplyResponseLost(r)
         \/ ApplyDependencyMissing(r)
<1>r. \A s : ~Return(r, s)
  BY ReturnedPc
<1>1. ~ApplySucceeds(r) /\ ~ApplyFails(r)
  BY <1>r, GonePc DEF ApplySucceeds, ApplyFails, Applying
<1>2. ~CreateReadBack(r) /\ ~CreateProject(r)
  BY <1>r, GonePc DEF CreateReadBack, CreateProject
<1>3. CreateCheck(r) => mem' = mem /\ (~obj.live \/ obj.id = mem[r].id)
  BY <1>r DEF CreateCheck
<1>4. CreateStart(r) => dep = "no_crd"
  BY GonePc DEF CreateStart
<1>5. ~ReadStart(r) /\ ~ReadGet(r) /\ ~UpdateStart(r) /\ ~UpdateGet(r) /\ ~Import(r) /\ ~Crash(r)
  BY <1>r, GonePc DEF ReadStart, ReadGet, UpdateStart, UpdateGet, Import, Crash
<1>6. ~DeleteStart(r)
  BY <1>r, GonePc DEF DeleteStart
<1>7. ~DeleteStep(r)
  BY <1>r, GonePc DEF DeleteStep, DeleteGet, DeleteCall, DeleteRecheck, DeleteWait,
     DeleteTimeout, ForceGet, ForceApply, ForceDelete, ForceWait, Resend, PollsOn
<1>8. QED
  BY <1>1, <1>2, <1>3, <1>4, <1>5, <1>6, <1>7 DEF HandlerStep, Start, Apply, CreateStep

LEMMA StepCreateAlone ==
  ASSUME Serial, "create" \notin Edits, AccountedInv, Alone, CreateAlone, [Next]_vars
  PROVE  CreateAlone'
<1> SUFFICES ASSUME NEW r \in Instances, pc'[r] = "c_apply", obj'.live
             PROVE  obj'.id \in {mem'[r].id, NoId} /\ mem'[r].tries > 0
  BY DEF CreateAlone
<1>t. TypeOK /\ DependencyFirst /\ mem \in [Instances -> MemRec] /\ mem[r] \in MemRec
  BY DEF AccountedInv, TypeOK
<1>1. ASSUME NEW q \in Instances, HandlerStep(q) \/ Start(q) \/ Crash(q)
      PROVE  obj'.id \in {mem'[r].id, NoId} /\ mem'[r].tries > 0
  <2>1. q = r
    BY <1>t, <1>1, OthersIdle
  <2>2. ~(CreateStart(r) /\ dep = "no_crd")
    BY <1>t DEF CreateStart, DependencyFirst
  <2>3. ~(CreateCheck(r) /\ mem' = mem /\ (~obj.live \/ obj.id = mem[r].id))
    BY DEF CreateCheck, AccountedInv, FreshUntilApplied
  <2>4. ~ApplyDependencyMissing(r)
    BY <1>t DEF ApplyDependencyMissing, DependencyFirst
  <2>5. ApplyResponseLost(r)
    BY <1>t, <1>1, <2>1, <2>2, <2>3, <2>4, IntoApply
  <2>6. mem'[r] = [mem[r] EXCEPT !.tries = @ + 1] /\ obj'.id = mem[r].id
    BY <1>t, <2>5, StampedId DEF ApplyResponseLost, Resend
  <2>7. mem'[r].id = mem[r].id /\ mem'[r].tries = mem[r].tries + 1 /\ mem[r].tries \in Nat
    BY <1>t, <2>6 DEF MemRec
  <2>8. QED
    BY <2>6, <2>7
<1>2. CASE Environment \/ UNCHANGED vars
  <2>1. UNCHANGED <<pc, mem>>
    BY <1>2, QuietPcs
  <2>2. obj.live /\ obj'.id \in {obj.id, NoId}
    BY <1>t, <1>2, EnvironmentId DEF vars
  <2>3. QED
    BY <2>1, <2>2 DEF CreateAlone
<1>3. QED
  BY <1>1, <1>2 DEF Next

\* One handler at a time, and nobody else creating objects: when Create applies
\* it writes the object where there is none, or over its own from a lost answer.
THEOREM SerialCreate ==
  ASSUME Serial, "create" \notin Edits
  PROVE  Spec => []CreateAlone
<1>1. Init => CreateAlone
  BY DEF Init, CreateAlone
<1>2. AccountedInv /\ Alone /\ CreateAlone /\ [Next]_vars => CreateAlone'
  BY StepCreateAlone
<1>3. QED
  BY <1>1, <1>2, AccountedInvCorrect, SerialDelete, PTL DEF Spec

\* ... so that Create never takes over an object that somebody else made.
THEOREM CreateNeverAdoptsCorrect ==
  ASSUME Serial, "create" \notin Edits
  PROVE  Spec => CreateNeverAdopts
<1>1. CreateAlone /\ [Next]_vars
        => [\A r \in Instances :
              pc[r] = "c_apply" /\ obj.live /\ obj' # obj /\ obj'.id = mem[r].id
                 => \/ obj.id = mem[r].id
                    \/ obj.id = NoId /\ mem[r].tries > 0]_vars
  BY DEF CreateAlone
<1>2. QED
  BY <1>1, SerialCreate, PTL DEF Spec, CreateNeverAdopts

-----------------------------------------------------------------------------
(* Without lost responses nothing is sent again.                            *)

NoRetry == \A r \in Instances : mem[r].tries = 0

LEMMA HandlerNoRetry ==
  ASSUME "lost" \notin Faults, TypeOK, NEW r \in Instances, mem[r].tries = 0,
         HandlerStep(r) \/ Start(r) \/ Crash(r)
  PROVE  mem'[r].tries = 0
<1>m. mem \in [Instances -> MemRec] /\ mem[r] \in MemRec
  BY DEF TypeOK
<1>l. NoMem.tries = 0 /\ \A id, opt : Locals(id, opt).tries = 0
  BY DEF Locals, NoMem
<1>1. CASE UNCHANGED mem
  BY <1>1
<1>2. CASE \E s : Return(r, s)
  BY <1>2, <1>l, ReturnedPc
<1>3. CASE \E id, opt : mem' = [mem EXCEPT ![r] = Locals(id, opt)]
  BY <1>3, <1>m, <1>l
<1>4. CASE \/ mem' = [mem EXCEPT ![r].waits = @ + 1, ![r].tries = 0]
           \/ mem' = [mem EXCEPT ![r].polls = @ + 1]
           \/ mem' = [mem EXCEPT ![r].snap = obj, ![r].tries = 0, ![r].polls = 0]
  BY <1>4, <1>m DEF MemRec
<1>5. CASE Apply(r)
  BY <1>1, <1>2, <1>4, <1>5
     DEF Apply, ApplySucceeds, ApplyResponseLost, ApplyFails, ApplyDependencyMissing, Resend
<1>6. CASE CreateStep(r) \/ ReadGet(r) \/ UpdateGet(r) \/ Crash(r)
  BY <1>1, <1>2, <1>6
     DEF CreateStep, CreateCheck, CreateReadBack, CreateProject, ReadGet, UpdateGet, Crash
<1>7. CASE Start(r)
  BY <1>1, <1>2, <1>3, <1>7
     DEF Start, CreateStart, ReadStart, UpdateStart, DeleteStart, Import
<1>8. CASE DeleteStep(r)
  BY <1>1, <1>2, <1>4, <1>8
     DEF DeleteStep, DeleteGet, DeleteCall, DeleteRecheck, DeleteWait, DeleteTimeout,
         ForceGet, ForceApply, ForceDelete, ForceWait, Resend, PollsOn
<1>9. QED
  BY <1>5, <1>6, <1>7, <1>8 DEF HandlerStep

LEMMA StepNoRetry ==
  ASSUME "lost" \notin Faults, TypeOK, NoRetry, [Next]_vars
  PROVE  NoRetry'
<1> SUFFICES ASSUME NEW r \in Instances PROVE mem'[r].tries = 0
  BY DEF NoRetry
<1>0. mem[r].tries = 0
  BY DEF NoRetry
<1>1. ASSUME NEW q \in Instances, HandlerStep(q) \/ Start(q) \/ Crash(q), q # r
      PROVE  mem'[r].tries = 0
  <2>1. Provenance(q)
    BY <1>1, ApplyProvenance, StartProvenance, CreateReadUpdateProvenance,
       DeleteProvenance DEF HandlerStep
  <2>2. QED
    BY <1>0, <1>1, <2>1 DEF Provenance
<1>2. CASE Environment \/ UNCHANGED vars
  BY <1>0, <1>2, QuietPcs
<1>3. QED
  BY <1>0, <1>1, <1>2, HandlerNoRetry DEF Next

-----------------------------------------------------------------------------
(* A Create in progress has its id.                                         *)

CreateNamed == \A r \in Instances : pc[r] \in CreatePcs => mem[r].id \in Ids

\* A handler is in a Create because it starts one or has been in one.
LEMMA IntoCreate ==
  ASSUME TypeOK, NEW r \in Instances, HandlerStep(r) \/ Start(r) \/ Crash(r),
         pc'[r] \in CreatePcs
  PROVE  CreateStart(r) \/ (pc[r] \in CreatePcs /\ mem'[r].id = mem[r].id)
<1> USE DEF CreatePcs
<1>r. \A s : ~Return(r, s)
  BY ReturnedPc
<1>m. mem \in [Instances -> MemRec] /\ mem[r] \in MemRec
  BY DEF TypeOK
<1>1. CASE Apply(r)
  <2>1. pc[r] = "c_apply"
    BY <1>1, <1>r, GonePc DEF Apply, ApplySucceeds, ApplyResponseLost, ApplyFails,
                              ApplyDependencyMissing, Applying, Resend
  <2>2. CASE mem' = mem
    BY <2>1, <2>2
  <2>3. CASE \/ mem' = [mem EXCEPT ![r].waits = @ + 1, ![r].tries = 0]
             \/ mem' = [mem EXCEPT ![r].tries = @ + 1]
    BY <1>m, <2>1, <2>3 DEF MemRec
  <2>4. QED
    BY <1>1, <1>r, <2>2, <2>3 DEF Apply, ApplySucceeds, ApplyResponseLost, ApplyFails,
                                  ApplyDependencyMissing, Resend
<1>2. CASE CreateStep(r)
  BY <1>2, <1>r DEF CreateStep, CreateCheck, CreateReadBack, CreateProject
<1>3. ~ReadStart(r) /\ ~ReadGet(r) /\ ~UpdateStart(r) /\ ~UpdateGet(r) /\ ~Import(r) /\ ~Crash(r)
  BY <1>r, GonePc DEF ReadStart, ReadGet, UpdateStart, UpdateGet, Import, Crash
<1>4. ~DeleteStart(r)
  BY <1>r, GonePc DEF DeleteStart
<1>5. ~DeleteStep(r)
  BY <1>r, GonePc DEF DeleteStep, DeleteGet, DeleteCall, DeleteRecheck, DeleteWait,
     DeleteTimeout, ForceGet, ForceApply, ForceDelete, ForceWait, Resend, PollsOn
<1>6. QED
  BY <1>1, <1>2, <1>3, <1>4, <1>5 DEF HandlerStep, Start

LEMMA StepNamed ==
  ASSUME TypeOK, CreateNamed, [Next]_vars
  PROVE  CreateNamed'
<1> SUFFICES ASSUME NEW r \in Instances, pc'[r] \in CreatePcs PROVE mem'[r].id \in Ids
  BY DEF CreateNamed
<1>1. ASSUME NEW q \in Instances, HandlerStep(q) \/ Start(q) \/ Crash(q), q # r
      PROVE  mem'[r] = mem[r] /\ pc'[r] = pc[r]
  <2>1. Provenance(q)
    BY <1>1, ApplyProvenance, StartProvenance, CreateReadUpdateProvenance,
       DeleteProvenance DEF HandlerStep
  <2>2. QED
    BY <1>1, <2>1 DEF Provenance
<1>2. CASE CreateStart(r)
  BY <1>2 DEF CreateStart, TypeOK, Locals, NoMem
<1>3. CASE HandlerStep(r) \/ Start(r) \/ Crash(r)
  BY <1>2, <1>3, IntoCreate DEF CreateNamed
<1>4. CASE Environment \/ UNCHANGED vars
  BY <1>4, QuietPcs DEF CreateNamed
<1>5. QED
  BY <1>1, <1>3, <1>4 DEF Next, CreateNamed

-----------------------------------------------------------------------------
(* The refinement: every step of the handlers is a step of the contract.    *)

\* What the contract asks of the setting: handlers that do not overlap, an API
\* that answers each call once and accepts the token (see Reliable), nobody else
\* creating objects.
Orderly == Serial /\ Reliable /\ "lost" \notin Faults /\ "create" \notin Edits

OrderlyInv ==
    /\ AccountedInv /\ OptionsKept /\ OptionsConfigured
    /\ Alone /\ DeleteAlone /\ CreateAlone /\ NoRetry /\ CreateNamed

LEMMA InitOrderly == Init => OrderlyInv
BY InitAccounted, InitAlone DEF Init, OrderlyInv, OptionsKept, OptionsConfigured, Configured,
   CreateAlone, NoRetry, CreateNamed, NoState, NoMem, DeletePcs, CreatePcs

LEMMA StepOrderly ==
  ASSUME Orderly, OrderlyInv, [Next]_vars
  PROVE  OrderlyInv'
<1> USE DEF Orderly, OrderlyInv
<1>1. AccountedInv' /\ OptionsKept' /\ OptionsConfigured'
  BY StepAccounted, StepOptions, StepConfigured
<1>2. Alone' /\ DeleteAlone' /\ CreateAlone'
  BY <1>1, StepAlone, StepDeleteAlone, StepCreateAlone
<1>3. NoRetry' /\ CreateNamed'
  BY StepNoRetry, StepNamed DEF AccountedInv
<1>4. QED
  BY <1>1, <1>2, <1>3

\* A step of r's handler touches r's entries of the books only.
LEMMA OwnEntries ==
  ASSUME TypeOK, NEW r \in Instances, Provenance(r)
  PROVE  /\ Book' = [Book EXCEPT ![r] = st'[r].id]
         /\ Making' = [Making EXCEPT ![r] = MakingOf(r)']
<1>1. \A q \in Instances \ {r} : st'[q] = st[q] /\ MakingOf(q)' = MakingOf(q)
  BY DEF Provenance, MakingOf
<1>2. QED
  BY <1>1 DEF Book, Making

\* A step of r's handler that keeps r's id and what r is making keeps the books.
LEMMA SameEntries ==
  ASSUME TypeOK, NEW r \in Instances, Provenance(r),
         st'[r].id = st[r].id, MakingOf(r)' = MakingOf(r)
  PROVE  /\ Book' = Book /\ Making' = Making
         /\ Book[r] = st[r].id /\ Making[r] = MakingOf(r)
<1>1. Book[r] = st[r].id /\ Making[r] = MakingOf(r)
  BY DEF Book, Making
<1>2. Book' = [Book EXCEPT ![r] = Book[r]] /\ Making' = [Making EXCEPT ![r] = Making[r]]
  BY <1>1, OwnEntries
<1>3. QED
  BY <1>1, <1>2 DEF Book, Making

\* A step that changes no entry of r and not the owner is none of the contract's.
LEMMA Stutter ==
  ASSUME TypeOK, NEW r \in Instances, Provenance(r),
         Owner' = Owner, st'[r].id = st[r].id, MakingOf(r)' = MakingOf(r)
  PROVE  UNCHANGED Contract!vars
<1>1. Book' = Book /\ Making' = Making
  BY SameEntries
<1>2. QED
  BY <1>1 DEF Contract!vars

\* The handler ends with the instance's id in the state as it was.
LEMMA ReturnStutter ==
  ASSUME TypeOK, NEW r \in Instances, Provenance(r), Return(r, st[r]),
         pc[r] \notin CreatePcs, Owner' = Owner
  PROVE  UNCHANGED Contract!vars
<1>1. st'[r].id = st[r].id
  BY ReturnedState
<1>2. MakingOf(r)' = MakingOf(r)
  BY ReturnedPc DEF MakingOf, CreatePcs
<1>3. QED
  BY <1>1, <1>2, Stutter

\* Dropping the state is Forget where the object is gone or another's.
LEMMA DropForgets ==
  ASSUME TypeOK, NEW r \in Instances, Provenance(r), Return(r, NoState),
         Held(r), pc[r] \notin CreatePcs, obj' = obj, ~obj.live \/ Foreign(st[r].id)
  PROVE  Contract!Forget(r)
<1>1. st[r].id \in Ids /\ st'[r].id = NoId
  BY ReturnedState DEF TypeOK, StateRec, Held, NoState
<1>2. MakingOf(r)' = MakingOf(r)
  BY ReturnedPc DEF MakingOf, CreatePcs
<1>3. Book' = [Book EXCEPT ![r] = NoId] /\ Making' = Making /\ Book[r] = st[r].id
  BY <1>1, <1>2, OwnEntries DEF Book, Making
<1>4. Owner' = Owner /\ Owner \notin {st[r].id, NoId}
  BY <1>1 DEF Owner, Foreign
<1>5. QED
  BY <1>1, <1>3, <1>4 DEF Contract!Forget

\* A Create that ends without state leaves no object with its id.
LEMMA EndRefuses ==
  ASSUME TypeOK, Sessions, NEW r \in Instances, Provenance(r),
         NEW s, Return(r, s), s.id = NoId, pc[r] \in CreatePcs, mem[r].id # NoId,
         obj' = obj, ~obj.live \/ obj.id # mem[r].id
  PROVE  Contract!Refuse(r)
<1>1. st'[r].id = st[r].id
  BY ReturnedState DEF Sessions, Held
<1>2. Making[r] = mem[r].id /\ MakingOf(r)' = NoId
  BY ReturnedPc DEF Making, MakingOf, CreatePcs
<1>3. Book' = Book /\ Making' = [Making EXCEPT ![r] = NoId]
  BY <1>1, <1>2, OwnEntries DEF Book
<1>4. mem[r].id \in Ids
  BY DEF TypeOK, MemRec
<1>5. Owner' = Owner /\ Owner # mem[r].id
  BY <1>4 DEF Owner
<1>6. QED
  BY <1>2, <1>3, <1>5 DEF Contract!Refuse

\* Only Make and Reassert write an owner.
LEMMA ApplyRefines ==
  ASSUME Orderly, OrderlyInv, NEW r \in Instances, Apply(r)
  PROVE  Contract!Make(r) \/ Contract!Reassert(r) \/ Contract!Refuse(r)
         \/ UNCHANGED Contract!vars
<1>t. TypeOK /\ Sessions /\ DependencyFirst /\ Provenance(r)
  BY ApplyProvenance DEF OrderlyInv, AccountedInv
<1>p. Applying(r) /\ pc[r] \in CreatePcs \cup UpdatePcs
  BY DEF Apply, ApplySucceeds, ApplyResponseLost, ApplyFails, ApplyDependencyMissing,
         Applying, CreatePcs, UpdatePcs
<1>1. CASE ApplySucceeds(r)
  <2>1. st' = st /\ mem' = mem /\ Owner' = mem[r].id
    BY <1>1 DEF ApplySucceeds, Owner, Stamped
  <2>2. CASE pc[r] = "c_apply"
    <3>1. mem[r].id \in Ids /\ ~obj.live
      BY <2>2 DEF OrderlyInv, CreateNamed, CreateAlone, NoRetry, CreatePcs
    <3>2. pc'[r] = "c_read"
      BY <1>t, <1>1, <2>2, GonePc DEF ApplySucceeds
    <3>3. MakingOf(r) = mem[r].id /\ MakingOf(r)' = mem[r].id
      BY <2>1, <2>2, <3>2 DEF MakingOf, CreatePcs
    <3>4. Book' = Book /\ Making' = Making /\ Making[r] = mem[r].id
      BY <1>t, <2>1, <3>3, SameEntries
    <3>5. QED
      BY <2>1, <3>1, <3>4 DEF Contract!Make, Owner
  <2>3. CASE pc[r] = "u_apply"
    <3>1. mem[r].id = st[r].id /\ st[r].id # NoId
      BY <1>t, <2>3 DEF Sessions, UpdatePcs, Held
    <3>2. pc'[r] = "u_get"
      BY <1>t, <1>1, <2>3, GonePc DEF ApplySucceeds
    <3>3. MakingOf(r)' = MakingOf(r)
      BY <2>3, <3>2 DEF MakingOf, CreatePcs
    <3>4. Book' = Book /\ Making' = Making /\ Book[r] = st[r].id
      BY <1>t, <2>1, <3>3, SameEntries
    <3>5. QED
      BY <2>1, <3>1, <3>4 DEF Contract!Reassert
  <2>4. QED
    BY <1>p, <2>2, <2>3 DEF Applying
<1>2. ASSUME Return(r, st[r]), obj' = obj, ~obj.live
      PROVE  Contract!Refuse(r) \/ UNCHANGED Contract!vars
  <2>1. CASE pc[r] \in CreatePcs
    <3>1. mem[r].id # NoId /\ st[r].id = NoId
      BY <1>t, <2>1 DEF OrderlyInv, CreateNamed, Sessions, Held
    <3>2. QED
      BY <1>t, <1>2, <2>1, <3>1, EndRefuses
  <2>2. CASE pc[r] \notin CreatePcs
    BY <1>t, <1>2, <2>2, ReturnStutter DEF Owner
  <2>3. QED
    BY <2>1, <2>2
<1>3. CASE ApplyFails(r)
  <2>1. dep = "no_kind" /\ obj' = obj /\ Return(r, st[r])
    BY <1>3 DEF ApplyFails, CallFails, Orderly, Reliable
  <2>2. QED
    BY <1>t, <1>2, <2>1 DEF DependencyFirst
<1>4. CASE ApplyDependencyMissing(r)
  <2>1. obj' = obj /\ ~obj.live
    BY <1>t, <1>4 DEF ApplyDependencyMissing, DependencyFirst
  <2>2. CASE mem' = [mem EXCEPT ![r].waits = @ + 1, ![r].tries = 0] /\ UNCHANGED <<pc, st>>
    <3>1. mem'[r].id = mem[r].id
      BY <1>t, <2>2 DEF TypeOK, MemRec
    <3>2. MakingOf(r)' = MakingOf(r)
      BY <2>2, <3>1 DEF MakingOf
    <3>3. QED
      BY <1>t, <2>1, <2>2, <3>2, Stutter DEF Owner
  <2>3. CASE Return(r, st[r])
    BY <1>2, <2>1, <2>3
  <2>4. QED
    BY <1>4, <2>2, <2>3 DEF ApplyDependencyMissing
<1>5. ~ApplyResponseLost(r)
  BY DEF ApplyResponseLost, Resend, Orderly
<1>6. QED
  BY <1>1, <1>3, <1>4, <1>5 DEF Apply

LEMMA CreateRefines ==
  ASSUME Orderly, OrderlyInv, NEW r \in Instances, CreateStart(r) \/ CreateStep(r)
  PROVE  Contract!Begin(r) \/ Contract!Record(r) \/ Contract!Refuse(r)
         \/ UNCHANGED Contract!vars
<1>o. obj' = obj /\ Owner' = Owner
  BY DEF CreateStart, CreateStep, CreateCheck, CreateReadBack, CreateProject, Owner
<1>t. TypeOK /\ Sessions /\ Provenance(r)
  BY StartProvenance, CreateReadUpdateProvenance DEF OrderlyInv, AccountedInv, Start
<1>1. CASE CreateStart(r)
  <2>1. PICK id \in Ids \ UsedIds, opt \in DeleteOpts : mem' = [mem EXCEPT ![r] = Locals(id, opt)]
    BY <1>1 DEF CreateStart
  <2>2. mem'[r].id = id /\ st' = st
    BY <1>t, <1>1, <2>1 DEF CreateStart, TypeOK, Locals, NoMem
  <2>3. pc'[r] \in CreatePcs /\ pc[r] = "idle" /\ ~Held(r)
    BY <1>t, <1>1, GonePc DEF CreateStart, CanStart, CreatePcs
  <2>4. MakingOf(r)' = id /\ MakingOf(r) = NoId
    BY <2>2, <2>3 DEF MakingOf, CreatePcs
  <2>5. /\ Book' = Book /\ Making' = [Making EXCEPT ![r] = id]
        /\ Book[r] = NoId /\ Making[r] = NoId
    BY <1>t, <2>2, <2>3, <2>4, OwnEntries DEF Book, Making, Held
  <2>6. /\ id \in Ids /\ id # obj.id
        /\ \A q \in Instances : st[q].id # id /\ mem[q].id # id
    BY DEF UsedIds
  <2>7. Owner # id /\ \A q \in Instances : Book[q] # id /\ Making[q] # id
    BY <2>6 DEF Owner, Book, Making, MakingOf
  <2>8. QED
    BY <1>o, <2>5, <2>6, <2>7 DEF Contract!Begin, Contract!Fresh
<1>2. CASE /\ pc[r] \in CreatePcs /\ UNCHANGED <<st, mem>>
           /\ Goto(r, "c_apply") \/ Goto(r, "c_proj")
  <2>1. MakingOf(r)' = MakingOf(r)
    BY <1>t, <1>2, GonePc DEF MakingOf, CreatePcs
  <2>2. QED
    BY <1>o, <1>t, <1>2, <2>1, Stutter
<1>3. CASE pc[r] \in CreatePcs /\ (Return(r, Created(r)) \/ Return(r, CreatedPending(r)))
  <2>1. st'[r].id = mem[r].id /\ mem[r].id \in Ids
    BY <1>t, <1>3, ReturnedState, ReturnedIds DEF OrderlyInv, CreateNamed
  <2>2. MakingOf(r) = mem[r].id /\ MakingOf(r)' = NoId
    BY <1>t, <1>3, ReturnedPc DEF MakingOf, CreatePcs
  <2>3. /\ Book' = [Book EXCEPT ![r] = mem[r].id]
        /\ Making' = [Making EXCEPT ![r] = NoId] /\ Making[r] = mem[r].id
    BY <1>t, <2>1, <2>2, OwnEntries DEF Making
  <2>4. QED
    BY <1>o, <2>1, <2>3 DEF Contract!Record
<1>4. CASE CreateCheck(r) /\ Return(r, NoState)
  <2>1. pc[r] = "c_check" /\ pc[r] \in CreatePcs
    BY <1>4 DEF CreateCheck, CreatePcs
  <2>2. mem[r].id # NoId /\ mem[r].id # obj.id
    BY <2>1 DEF OrderlyInv, AccountedInv, FreshUntilApplied
  <2>3. QED
    BY <1>o, <1>t, <1>4, <2>1, <2>2, EndRefuses DEF NoState
<1>5. QED
  BY <1>1, <1>2, <1>3, <1>4
     DEF CreateStep, CreateCheck, CreateReadBack, CreateProject, CreatePcs

LEMMA ReadUpdateRefines ==
  ASSUME Orderly, OrderlyInv, NEW r \in Instances,
         ReadStart(r) \/ ReadGet(r) \/ UpdateStart(r) \/ UpdateGet(r)
  PROVE  Contract!Forget(r) \/ UNCHANGED Contract!vars
<1>o. obj' = obj /\ Owner' = Owner
  BY DEF ReadStart, ReadGet, UpdateStart, UpdateGet, Owner
<1>t. TypeOK /\ Sessions /\ DependencyFirst /\ Provenance(r)
  BY StartProvenance, CreateReadUpdateProvenance DEF OrderlyInv, AccountedInv, Start
<1>p. pc[r] \notin CreatePcs
  BY DEF ReadStart, ReadGet, UpdateStart, UpdateGet, CanStart, CreatePcs
<1>1. ASSUME Return(r, NoState), ~obj.live
      PROVE  Contract!Forget(r) \/ UNCHANGED Contract!vars
  <2>1. CASE Held(r)
    BY <1>o, <1>t, <1>p, <1>1, <2>1, DropForgets
  <2>2. CASE ~Held(r)
    <3>1. st'[r].id = st[r].id
      BY <1>t, <1>1, <2>2, ReturnedState DEF Held, NoState
    <3>2. MakingOf(r)' = MakingOf(r)
      BY <1>t, <1>p, <1>1, ReturnedPc DEF MakingOf, CreatePcs
    <3>3. QED
      BY <1>o, <1>t, <3>1, <3>2, Stutter
  <2>3. QED
    BY <2>1, <2>2
<1>2. ASSUME NEW s, Return(r, s), s.id = st[r].id
      PROVE  UNCHANGED Contract!vars
  <2>1. st'[r].id = st[r].id
    BY <1>t, <1>2, ReturnedState
  <2>2. MakingOf(r)' = MakingOf(r)
    BY <1>t, <1>p, <1>2, ReturnedPc DEF MakingOf, CreatePcs
  <2>3. QED
    BY <1>o, <1>t, <2>1, <2>2, Stutter
<1>3. ASSUME st' = st, Goto(r, "r_get") \/ Goto(r, "u_apply")
      PROVE  UNCHANGED Contract!vars
  <2>1. MakingOf(r)' = MakingOf(r)
    BY <1>t, <1>p, <1>3, GonePc DEF MakingOf, CreatePcs
  <2>2. QED
    BY <1>o, <1>t, <1>3, <2>1, Stutter
<1>4. CASE ReadStart(r)
  BY <1>1, <1>2, <1>3, <1>4, <1>t, ReturnedIds DEF ReadStart, DependencyFirst
<1>5. CASE ReadGet(r)
  BY <1>1, <1>2, <1>5, <1>t, ReturnedIds DEF ReadGet
<1>6. CASE UpdateStart(r)
  BY <1>3, <1>6 DEF UpdateStart
<1>7. CASE UpdateGet(r)
  BY <1>2, <1>7, <1>t, ReturnedIds DEF UpdateGet
<1>8. QED
  BY <1>4, <1>5, <1>6, <1>7

\* Deleted leaves no object, or marks the same one.
LEMMA DeletedOwner ==
  ASSUME obj' = Deleted
  PROVE  Owner' = Owner \/ (obj.live /\ Owner' = Absent)
<1>1. CASE obj.fin
  <2>1. (obj'.live = obj.live /\ obj'.id = obj.id) \/ (~obj.live /\ ~obj'.live)
    BY <1>1 DEF Deleted
  <2>2. QED
    BY <2>1 DEF Owner
<1>2. CASE ~obj.fin
  BY <1>2 DEF Deleted, NoObj, Owner
<1>3. QED
  BY <1>1, <1>2

LEMMA DeleteRefines ==
  ASSUME Orderly, OrderlyInv, NEW r \in Instances, DeleteStart(r) \/ DeleteStep(r)
  PROVE  Contract!Forget(r) \/ Contract!Remove(r) \/ UNCHANGED Contract!vars
<1>t. TypeOK /\ Sessions /\ DependencyFirst /\ Provenance(r)
  BY StartProvenance, DeleteProvenance DEF OrderlyInv, AccountedInv, Start
<1>p. pc[r] \notin CreatePcs /\ pc[r] \in DeletePcs \cup {"idle"}
  BY DEF DeleteStart, DeleteStep, DeleteGet, DeleteCall, DeleteRecheck, DeleteWait,
         DeleteTimeout, ForceGet, ForceApply, ForceDelete, ForceWait, CanStart,
         CreatePcs, DeletePcs
<1>h. Held(r) /\ (pc[r] # "idle" => mem[r].id = st[r].id)
  BY <1>t, <1>p DEF Sessions, DeleteStart, DeleteStep, DeleteGet, DeleteCall, DeleteRecheck,
     DeleteWait, DeleteTimeout, ForceGet, ForceApply, ForceDelete, ForceWait, DeletePcs
<1>f. pc[r] \notin ForcePcs /\ mem[r].opt # "force" /\ mem[r].opt # "nowait"
  <2>1. mem[r].opt \in Configured /\ st[r].opt \in Configured
    BY DEF OrderlyInv, OptionsConfigured
  <2>2. pc[r] \in ForcePcs => st[r].opt = "force"
    BY DEF OrderlyInv, OptionsKept, ForcePcs, DeletePcs
  <2>3. QED
    BY <2>1, <2>2 DEF Configured, Orderly, Reliable
<1>1. ASSUME Return(r, NoState), obj' = obj, ~obj.live \/ Foreign(st[r].id)
      PROVE  Contract!Forget(r)
  BY <1>t, <1>p, <1>h, <1>1, DropForgets
<1>2. ASSUME NEW l \in DeletePcs, Goto(r, l), UNCHANGED <<st>>, Owner' = Owner
      PROVE  UNCHANGED Contract!vars
  <2>1. MakingOf(r)' = MakingOf(r)
    BY <1>t, <1>p, <1>2, GonePc DEF MakingOf, CreatePcs, DeletePcs
  <2>2. QED
    BY <1>t, <1>2, <2>1, Stutter
<1>o. obj' = obj => Owner' = Owner
  BY DEF Owner
<1>3. ASSUME Return(r, st[r]), obj' = obj
      PROVE  UNCHANGED Contract!vars
  BY <1>t, <1>p, <1>3, <1>o, ReturnStutter
<1>4. CASE DeleteStart(r)
  <2>1. \/ Return(r, NoState) /\ ~Discoverable /\ obj' = obj
        \/ Goto(r, "d_get") /\ st' = st /\ obj' = obj
    BY <1>4 DEF DeleteStart, CallFails, Orderly, Reliable
  <2>2. ~Discoverable => ~obj.live
    BY <1>t DEF Discoverable, DependencyFirst
  <2>3. QED
    BY <1>1, <1>2, <1>o, <2>1, <2>2 DEF DeletePcs
<1>5. CASE DeleteGet(r)
  BY <1>1, <1>2, <1>h, <1>o, <1>5 DEF DeleteGet, CallFails, DeletePcs, Orderly, Reliable
<1>6. CASE DeleteCall(r)
  <2>1. obj' = Deleted /\ Goto(r, "d_recheck") /\ UNCHANGED <<st, mem>> /\ pc[r] = "d_del"
    BY <1>6 DEF DeleteCall, Resend, CallFails, Orderly, Reliable
  <2>2. CASE Owner' = Owner
    BY <1>2, <2>1, <2>2 DEF DeletePcs
  <2>3. CASE obj.live /\ Owner' = Absent
    <3>1. ~Foreign(mem[r].id)
      BY <2>1, <2>3 DEF OrderlyInv, DeleteAlone, DeletePcs
    <3>2. Book[r] = st[r].id /\ st[r].id # NoId /\ Owner \in {st[r].id, NoId}
      BY <1>h, <2>1, <2>3, <3>1 DEF Book, Held, Foreign, Owner
    <3>3. MakingOf(r)' = MakingOf(r)
      BY <1>t, <2>1, GonePc DEF MakingOf, CreatePcs
    <3>4. Book' = Book /\ Making' = Making
      BY <1>t, <2>1, <3>3, OwnEntries DEF Book, Making
    <3>5. QED
      BY <2>3, <3>2, <3>4 DEF Contract!Remove
  <2>4. QED
    BY <2>1, <2>2, <2>3, DeletedOwner
<1>7. CASE DeleteRecheck(r)
  <2>1. \/ Return(r, NoState) /\ Foreign(st[r].id) /\ obj' = obj
        \/ Goto(r, "d_wait") /\ st' = st /\ obj' = obj
    BY <1>h, <1>f, <1>7 DEF DeleteRecheck
  <2>2. QED
    BY <1>1, <1>2, <1>o, <2>1 DEF DeletePcs
<1>8. CASE DeleteWait(r)
  <2>1. CASE PollsOn(r)
    <3>1. UNCHANGED <<st, pc>> /\ mem'[r].id = mem[r].id
      BY <1>t, <2>1, Counts
    <3>2. QED
      BY <1>t, <1>o, <1>8, <3>1, Stutter DEF DeleteWait, MakingOf
  <2>2. CASE ~PollsOn(r)
    BY <1>1, <1>2, <1>h, <1>f, <1>o, <1>8, <2>2 DEF DeleteWait, DeletePcs
  <2>3. QED
    BY <2>1, <2>2
<1>9. CASE DeleteTimeout(r)
  BY <1>1, <1>3, <1>h, <1>9 DEF DeleteTimeout
<1>10. ~ForceGet(r) /\ ~ForceApply(r) /\ ~ForceDelete(r) /\ ~ForceWait(r)
  BY <1>f DEF ForceGet, ForceApply, ForceDelete, ForceWait, ForcePcs
<1>11. QED
  BY <1>4, <1>5, <1>6, <1>7, <1>8, <1>9, <1>10 DEF DeleteStep

LEMMA ImportRefines ==
  ASSUME OrderlyInv, NEW r \in Instances, Import(r)
  PROVE  Contract!Adopt(r)
<1>t. TypeOK /\ Provenance(r)
  BY StartProvenance DEF OrderlyInv, AccountedInv, Start
<1>1. PICK id \in Ids :
        /\ IF obj.id # NoId THEN id = obj.id ELSE id \notin UsedIds
        /\ Return(r, [NoState EXCEPT !.id = id, !.proj = "full", !.imported = TRUE])
  BY DEF Import
<1>2. /\ st'[r].id = id /\ st[r].id = NoId
      /\ pc[r] = "idle" /\ pc'[r] = "idle" /\ obj.live /\ obj' = obj
  <2>1. st'[r] = [NoState EXCEPT !.id = id, !.proj = "full", !.imported = TRUE]
    BY <1>t, <1>1, ReturnedState
  <2>2. pc'[r] = "idle"
    BY <1>t, <1>1, ReturnedPc
  <2>3. st'[r].id = id
    BY <2>1 DEF NoState
  <2>4. QED
    BY <2>2, <2>3 DEF Import, Held, CanStart
<1>3. MakingOf(r) = NoId /\ MakingOf(r)' = NoId
  BY <1>2 DEF MakingOf, CreatePcs
<1>4. /\ Book' = [Book EXCEPT ![r] = id] /\ Making' = Making
      /\ Book[r] = NoId /\ Making[r] = NoId
  BY <1>t, <1>2, <1>3, OwnEntries DEF Book, Making
<1>5. Owner = obj.id /\ Owner' = Owner /\ Owner # Absent
  BY <1>t, <1>2 DEF Owner, TypeOK, ObjRec
<1>6. id = Owner \/ (Owner = NoId /\ Contract!Fresh(id))
  <2>1. CASE obj.id # NoId
    BY <1>1, <1>5, <2>1
  <2>2. CASE obj.id = NoId
    <3>1. /\ id \notin {obj.id, NoId}
          /\ \A q \in Instances : st[q].id # id /\ mem[q].id # id
      BY <1>1, <2>2 DEF UsedIds
    <3>2. \A q \in Instances : Book[q] # id /\ Making[q] # id
      BY <3>1 DEF Book, Making, MakingOf
    <3>3. QED
      BY <1>5, <2>2, <3>1, <3>2 DEF Contract!Fresh
  <2>3. QED
    BY <2>1, <2>2
<1>7. QED
  BY <1>4, <1>5, <1>6 DEF Contract!Adopt

LEMMA EnvironmentRefines ==
  ASSUME Orderly, OrderlyInv, Environment \/ UNCHANGED vars
  PROVE  Contract!Outside \/ UNCHANGED Contract!vars
<1>1. Book' = Book /\ Making' = Making
  BY QuietPcs DEF Book, Making, MakingOf
<1>2. Owner' = Owner \/ (Owner # Absent /\ Owner' \in {NoId, Absent})
  <2>1. CASE UNCHANGED vars
    BY <2>1 DEF vars, Owner
  <2>2. CASE Environment
    <3>1. TypeOK
      BY DEF OrderlyInv, AccountedInv
    <3>2. obj'.live => obj.live /\ obj'.id \in {NoId, obj.id}
      BY <2>2, <3>1, EnvironmentId DEF Orderly
    <3>3. obj.live => Owner # Absent
      BY <3>1 DEF Owner, TypeOK, ObjRec
    <3>4. QED
      BY <3>2, <3>3 DEF Owner
  <2>3. QED
    BY <2>1, <2>2
<1>3. QED
  BY <1>1, <1>2 DEF Contract!Outside, Contract!vars

LEMMA StepRefines ==
  ASSUME Orderly, OrderlyInv, [Next]_vars
  PROVE  Contract!Next \/ UNCHANGED Contract!vars
<1>1. ASSUME NEW r \in Instances, HandlerStep(r) \/ Start(r)
      PROVE  Contract!Next \/ UNCHANGED Contract!vars
  BY <1>1, ApplyRefines, CreateRefines, ReadUpdateRefines, DeleteRefines, ImportRefines
     DEF HandlerStep, Start, Contract!Next
<1>2. \A r \in Instances : ~Crash(r)
  BY DEF Crash, Orderly, Reliable
<1>3. CASE Environment \/ UNCHANGED vars
  BY <1>3, EnvironmentRefines DEF Contract!Next
<1>4. QED
  BY <1>1, <1>2, <1>3 DEF Next

LEMMA InitRefines == Init => Contract!Init
BY DEF Init, Contract!Init, Owner, Book, Making, MakingOf, NoObj, NoState, CreatePcs

\* Handlers that do not overlap, with an API that answers each call once and
\* tokens that stay valid, implement the contract of ADR-003: one owner, no
\* removal by anybody else, no instance that forgets an object it still owns;
\* CRDs and namespaces come and go, kubectl strips and deletes meanwhile.
THEOREM ContractKept ==
  ASSUME Orderly
  PROVE  Spec => KeepsContract
<1>1. OrderlyInv /\ [Next]_vars => OrderlyInv' /\ [Contract!Next]_Contract!vars
  BY StepOrderly, StepRefines
<1>2. QED
  BY <1>1, InitOrderly, InitRefines, PTL DEF Spec, KeepsContract, Contract!Spec

=============================================================================
