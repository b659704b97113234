--------------------------- MODULE ObjectLifecycle ---------------------------
(***************************************************************************)
(* Create, Read, Update, Delete and import of k8sconnect_object: several    *)
(* resource instances (addresses of one Terraform state, or of several      *)
(* states) whose configuration names the SAME object of the cluster.        *)
(*                                                                          *)
(* Ownership is an annotation: Create stamps the object with the random id  *)
(* it keeps in the Terraform state, and every later operation compares the  *)
(* two.  Nothing makes the comparison and the write that follows it one     *)
(* step: a handler is a sequence of API calls, and other handlers, kubectl  *)
(* and controllers act between any two of them.                             *)
(*                                                                          *)
(* One action is one API call of a handler together with everything the     *)
(* handler does up to its next call.  A Get that is retried inside          *)
(* withRetry is one Get (it has no effect); an Apply or Delete whose        *)
(* response is lost takes effect and is sent again.                         *)
(***************************************************************************)
EXTENDS Naturals

CONSTANTS
    Instances,    \* resource instances configured with the object
    Ids,          \* values of GenerateID; a fresh one is one nobody remembers
    NoId,         \* no k8sconnect.terraform.io/terraform-id annotation
    DeleteOpts,   \* delete options a configuration may have, see AllOpts
    MaxRetries,   \* re-sends of one call inside withRetry (code: 5)
    MaxDepTries,  \* attempts of applyWithCRDRetry (code: 7)
    MaxPolls,     \* polls of waitForDeletion, one every 2s, until its deadline
    Faults,       \* what may go wrong with calls and processes, see AllFaults
    Serial,       \* TRUE: handlers run one at a time (-parallelism=1, one state)
    Edits,        \* what others do to the cluster, see AllEdits
    DepStates     \* states the CRD and the namespace may be in, see Deps

AllOpts  == {"plain", "protected", "force", "nowait"}
AllFaults == {"error", "lost", "auth", "crash"}
AllEdits == {"create", "delete", "strip", "finalize", "arrive", "leave"}
\* "no_crd": discovery does not know the group; "no_kind": it knows the group, but
\* not the kind, an error that IsCRDNotFoundError does not recognise.
Deps     == {"ready", "no_ns", "no_crd", "no_kind"}

ASSUME NoIdAssumption == NoId \notin Ids
ASSUME BoundAssumption ==
    MaxRetries \in Nat /\ MaxDepTries \in Nat \ {0} /\ MaxPolls \in Nat \ {0}
ASSUME OptAssumption ==
    /\ DeleteOpts \subseteq AllOpts /\ DeleteOpts # {}
    /\ Edits \subseteq AllEdits
    /\ DepStates \subseteq Deps
    /\ Faults \subseteq AllFaults /\ Serial \in BOOLEAN

VARIABLES
    obj,     \* the object in the cluster
    dep,     \* is its CRD established, does its namespace exist
    st,      \* what the Terraform state holds for each instance
    pc,      \* the API call each instance's handler is about to make
    mem,     \* local variables of each handler
    given    \* history: id of the object when a handler last gave it up

vars == <<obj, dep, st, pc, mem, given>>

-----------------------------------------------------------------------------
(* The values of the variables.                                             *)

NoObj == [live |-> FALSE, id |-> NoId, deleting |-> FALSE, fin |-> FALSE]

ObjRec == [live: BOOLEAN, id: Ids \cup {NoId}, deleting: BOOLEAN, fin: BOOLEAN]

\* The attributes and private-state flags that later operations look at.
NoState ==
    [id |-> NoId, proj |-> "none", pending |-> FALSE, stale |-> FALSE,
     imported |-> FALSE, tainted |-> FALSE, opt |-> "plain"]

StateRec ==
    [id: Ids \cup {NoId}, proj: {"none", "full", "empty"}, pending: BOOLEAN,
     stale: BOOLEAN, imported: BOOLEAN, tainted: BOOLEAN, opt: AllOpts]

NoMem ==
    [id |-> NoId, gvr |-> FALSE, opt |-> "plain", tries |-> 0, waits |-> 0,
     polls |-> 0, snap |-> NoObj]

MemRec ==
    [id: Ids \cup {NoId}, gvr: BOOLEAN, opt: AllOpts, tries: 0..MaxRetries,
     waits: 0..(MaxDepTries - 1), polls: 0..(MaxPolls - 1), snap: ObjRec]

CreatePcs == {"c_check", "c_apply", "c_read", "c_proj"}
UpdatePcs == {"u_apply", "u_get"}
DeletePcs == {"d_get", "d_del", "d_recheck", "d_wait", "d_timeout",
              "f_get", "f_apply", "f_del", "f_wait"}
Pcs       == {"idle", "r_get"} \cup CreatePcs \cup UpdatePcs \cup DeletePcs

Held(r) == st[r].id # NoId

\* An id nobody remembers: GenerateID never returns one that is in use.
UsedIds ==
    {obj.id, given} \cup {st[r].id : r \in Instances} \cup {mem[r].id : r \in Instances}

-----------------------------------------------------------------------------
(* Steps the handlers share.                                                *)

CanStart(r) == pc[r] = "idle" /\ (Serial => \A q \in Instances : pc[q] = "idle")

Goto(r, label) == pc' = [pc EXCEPT ![r] = label]

\* The handler returns and the framework stores s for the instance.
Return(r, s) ==
    /\ Goto(r, "idle")
    /\ mem' = [mem EXCEPT ![r] = NoMem]
    /\ st' = [st EXCEPT ![r] = s]

\* The response of a call is lost, withRetry sends it again.
Resend(r) ==
    /\ "lost" \in Faults
    /\ mem[r].tries < MaxRetries
    /\ mem' = [mem EXCEPT ![r].tries = @ + 1]
    /\ UNCHANGED <<st, pc>>

\* Records, for the properties only, that the object is left with id on it.
GiveUp(o, id) == given' = IF o.live /\ o.id = id THEN id ELSE given

\* Server-side apply of the annotated object by manager "k8sconnect", forced.
Stamped(id, fin) ==
    [live |-> TRUE, id |-> id, deleting |-> obj.deleting,
     fin |-> IF obj.live THEN obj.fin ELSE fin]

\* What a DELETE leaves: a finalizer keeps the object, marked for deletion.
Deleted == IF obj.fin THEN [obj EXCEPT !.deleting = TRUE] ELSE NoObj

\* The annotation names another Terraform resource (apply.go:30, crud.go:405).
Foreign(id) == obj.id # NoId /\ obj.id # id

Discoverable == dep \notin {"no_crd", "no_kind"}

\* A call ends with an error and has changed nothing: any failure, or the 401
\* of a token that has expired.
CallFails == Faults \cap {"error", "auth"} # {}

Locals(id, opt) ==
    [NoMem EXCEPT !.id = id, !.gvr = Discoverable, !.opt = opt]

-----------------------------------------------------------------------------
(* Apply with its two retry loops, for Create and Update.                   *)

Applying(r) == pc[r] \in {"c_apply", "u_apply"}

ApplySucceeds(r) ==
    /\ Applying(r)
    /\ dep = "ready"
    /\ \E fin \in BOOLEAN : obj' = Stamped(mem[r].id, fin)
    /\ Goto(r, IF pc[r] = "c_apply" THEN "c_read" ELSE "u_get")
    /\ UNCHANGED <<dep, st, mem, given>>

\* The object is written, but the response is not received.
ApplyResponseLost(r) ==
    /\ Applying(r)
    /\ dep = "ready"
    /\ \E fin \in BOOLEAN : obj' = Stamped(mem[r].id, fin)
    /\ Resend(r)
    /\ UNCHANGED <<dep, given>>

\* Any other error ends the handler, whether or not the object was written.
\* Create returns without state, Update keeps the prior one.
ApplyFails(r) ==
    /\ Applying(r)
    /\ \/ (CallFails \/ dep = "no_kind") /\ obj' = obj
       \/ /\ "error" \in Faults
          /\ dep = "ready"
          /\ \E fin \in BOOLEAN : obj' = Stamped(mem[r].id, fin)
    /\ Return(r, st[r])
    /\ IF Held(r) THEN given' = given ELSE GiveUp(obj', mem[r].id)
    /\ UNCHANGED dep

\* Mutants: one attempt too many; no bound on the attempts.
ApplyDependencyMissingOffByOne(r) ==
    /\ Applying(r) /\ dep \in {"no_ns", "no_crd"}
    /\ IF mem[r].waits < MaxDepTries
       THEN mem' = [mem EXCEPT ![r].waits = @ + 1, ![r].tries = 0] /\ UNCHANGED <<pc, st>>
       ELSE Return(r, st[r])
    /\ UNCHANGED <<obj, dep, given>>
ApplyDependencyMissingForever(r) ==
    /\ Applying(r) /\ dep \in {"no_ns", "no_crd"}
    /\ UNCHANGED vars

\* The CRD or the namespace is missing: wait and apply again, or give up.
ApplyDependencyMissing(r) ==
    /\ Applying(r)
    /\ dep \in {"no_ns", "no_crd"}
    /\ IF mem[r].waits + 1 < MaxDepTries
       THEN /\ mem' = [mem EXCEPT ![r].waits = @ + 1, ![r].tries = 0]
            /\ UNCHANGED <<pc, st>>
       ELSE Return(r, st[r])
    /\ UNCHANGED <<obj, dep, given>>

-----------------------------------------------------------------------------
(* Create                                                                   *)

\* A fresh id; the GVR stays empty when the CRD is missing (context.go:89-97)
\* and then there is no existence check (apply.go:23).  A kind the group does
\* not have is "Preparation Failed".
CreateStart(r) ==
    /\ CanStart(r)
    /\ ~Held(r)
    /\ dep # "no_kind"
    /\ \E id \in Ids \ UsedIds, opt \in DeleteOpts :
          mem' = [mem EXCEPT ![r] = Locals(id, opt)]
    /\ Goto(r, IF dep = "no_crd" THEN "c_apply" ELSE "c_check")
    /\ UNCHANGED <<obj, dep, st, given>>

\* Mutant: only objects without annotation are refused.
CreateCheckIgnoringOwner(r) ==
    /\ pc[r] = "c_check"
    /\ IF obj.live /\ obj.id = NoId
       THEN Return(r, NoState)
       ELSE Goto(r, "c_apply") /\ UNCHANGED <<st, mem>>
    /\ UNCHANGED <<obj, dep, given>>

CreateCheck(r) ==
    /\ pc[r] = "c_check"
    /\ \/ /\ ~obj.live \/ obj.id = mem[r].id
          /\ Goto(r, "c_apply")
          /\ UNCHANGED <<st, mem>>
       \/ /\ obj.live /\ obj.id # mem[r].id   \* foreign, or not annotated at all
          /\ Return(r, NoState)
       \/ CallFails /\ Return(r, NoState)
    /\ UNCHANGED <<obj, dep, given>>

\* The state of a created object: with its projection, or with the recovery
\* flag and the error that makes Terraform taint it.
Created(r) ==
    [NoState EXCEPT !.id = mem[r].id, !.proj = "full", !.opt = mem[r].opt]
CreatedPending(r) ==
    [Created(r) EXCEPT !.proj = "empty", !.pending = TRUE, !.tainted = TRUE]

\* readResourceAfterCreate: failure is only logged, the projection reads again.
CreateReadBack(r) ==
    /\ pc[r] = "c_read"
    /\ \/ /\ mem[r].gvr /\ obj.live
          /\ Return(r, Created(r))
       \/ /\ ~mem[r].gvr \/ ~obj.live \/ CallFails
          /\ Goto(r, "c_proj")
          /\ UNCHANGED <<st, mem>>
    /\ UNCHANGED <<obj, dep, given>>

\* Mutant: a failed projection is an error without state (ADR-006, approach 1).
CreateProjectUnsaved(r) ==
    /\ pc[r] = "c_proj"
    /\ Return(r, IF obj.live THEN NoState ELSE Created(r))
    /\ UNCHANGED <<obj, dep, given>>

\* updateProjection's own Get; its failure is handleProjectionFailure.
CreateProject(r) ==
    /\ pc[r] = "c_proj"
    /\ \/ /\ mem[r].gvr /\ obj.live
          /\ Return(r, Created(r))
       \/ /\ ~mem[r].gvr \/ ~obj.live \/ CallFails
          /\ Return(r, CreatedPending(r))
    /\ UNCHANGED <<obj, dep, given>>

-----------------------------------------------------------------------------
(* Read                                                                     *)

ReadStart(r) ==
    /\ CanStart(r)
    /\ Held(r)
    /\ \/ /\ dep = "no_crd"                \* type not discoverable: deleted
          /\ Return(r, NoState)
       \/ /\ Discoverable
          /\ Goto(r, "r_get")
          /\ UNCHANGED <<st, mem>>
       \/ /\ "auth" \in Faults             \* expired token in the state
          /\ Return(r, [st[r] EXCEPT !.stale = TRUE])
    /\ UNCHANGED <<obj, dep, given>>

\* Mutants: the recovery flag is not cleared; the annotation is copied.
RefreshedStillPending(r) == [st[r] EXCEPT !.stale = FALSE, !.proj = "full"]
RefreshedAdopting(r) ==
    [st[r] EXCEPT !.stale = FALSE, !.pending = FALSE, !.id = obj.id,
                  !.proj = IF obj.id = NoId THEN "empty" ELSE "full"]

\* A refreshed projection; emptied when the annotation is gone, so that the
\* next plan has a difference and runs Update.
Refreshed(r) ==
    [st[r] EXCEPT !.stale = FALSE, !.pending = FALSE,
                  !.proj = IF obj.id = NoId /\ ~st[r].imported
                           THEN "empty" ELSE "full"]

\* A projection that was pending and fails again: the flag is kept.
StillPending(r) == [st[r] EXCEPT !.stale = FALSE, !.proj = "empty"]

\* Mutant: a refresh that cannot authenticate drops the instance.
ReadGetDropping(r) ==
    /\ pc[r] = "r_get"
    /\ \/ obj.live /\ Return(r, Refreshed(r))
       \/ (~obj.live \/ "auth" \in Faults) /\ Return(r, NoState)
    /\ UNCHANGED <<obj, dep, given>>

ReadGet(r) ==
    /\ pc[r] = "r_get"
    /\ \/ /\ ~obj.live
          /\ Return(r, NoState)
       \/ /\ obj.live
          /\ st[r].imported \/ ~Foreign(st[r].id)
          /\ Return(r, Refreshed(r))
       \/ /\ obj.live                      \* Resource Ownership Conflict
          /\ ~st[r].imported /\ Foreign(st[r].id)
          /\ Return(r, st[r])
       \/ /\ obj.live
          /\ st[r].imported \/ ~Foreign(st[r].id)
          /\ "error" \in Faults /\ st[r].pending
          /\ Return(r, StillPending(r))
       \/ /\ "error" \in Faults
          /\ Return(r, st[r])
       \/ /\ "auth" \in Faults
          /\ Return(r, [st[r] EXCEPT !.stale = TRUE])
    /\ UNCHANGED <<obj, dep, given>>

-----------------------------------------------------------------------------
(* Update.  A tainted instance is replaced, never updated, by Terraform.    *)

\* Mutant: Update stamps a generated id instead of the one in the state.
UpdateStartFreshId(r) ==
    /\ CanStart(r) /\ Held(r) /\ ~st[r].tainted /\ dep # "no_kind"
    /\ \E id \in Ids \ UsedIds : mem' = [mem EXCEPT ![r] = Locals(id, "plain")]
    /\ Goto(r, "u_apply")
    /\ UNCHANGED <<obj, dep, st, given>>

UpdateStart(r) ==
    /\ CanStart(r)
    /\ Held(r) /\ ~st[r].tainted
    /\ dep # "no_kind"
    /\ \E opt \in DeleteOpts :
          mem' = [mem EXCEPT ![r] = Locals(st[r].id, opt)]
    /\ Goto(r, "u_apply")
    /\ UNCHANGED <<obj, dep, st, given>>

\* The state of an updated object, stale_read as it was: with its projection,
\* or, when that fails, with the recovery flag instead.
Updated(r) ==
    [st[r] EXCEPT !.proj = "full", !.pending = FALSE, !.imported = FALSE,
                  !.opt = mem[r].opt]
UpdatedPending(r) ==
    [st[r] EXCEPT !.proj = "empty", !.pending = TRUE, !.opt = mem[r].opt]

\* Get after the Apply, projection of what it returns, State.Set.
UpdateGet(r) ==
    /\ pc[r] = "u_get"
    /\ \/ /\ mem[r].gvr /\ obj.live
          /\ Return(r, Updated(r))
       \/ /\ mem[r].gvr /\ obj.live /\ "error" \in Faults
          /\ Return(r, UpdatedPending(r))
       \/ /\ ~mem[r].gvr \/ ~obj.live \/ CallFails
          /\ Return(r, st[r])
    /\ UNCHANGED <<obj, dep, given>>

-----------------------------------------------------------------------------
(* Delete.  Returning without an error makes Terraform drop the state.      *)

DeleteStart(r) ==
    /\ CanStart(r)
    /\ Held(r) /\ st[r].opt # "protected"
    /\ \/ /\ Discoverable
          /\ mem' = [mem EXCEPT ![r] = Locals(st[r].id, st[r].opt)]
          /\ Goto(r, "d_get")
          /\ UNCHANGED <<st, given>>
       \/ /\ ~Discoverable \/ CallFails       \* any discovery error, an expired
                                            \* token included: "deleted"
          /\ Return(r, NoState)
          /\ GiveUp(obj, st[r].id)
    /\ UNCHANGED <<obj, dep>>

\* Mutant: the ownership check before the DELETE is missing.
DeleteGetUnchecked(r) ==
    /\ pc[r] = "d_get"
    /\ IF obj.live THEN Goto(r, "d_del") /\ UNCHANGED <<st, mem>> ELSE Return(r, NoState)
    /\ UNCHANGED <<obj, dep, given>>

DeleteGet(r) ==
    /\ pc[r] = "d_get"
    /\ \/ /\ ~obj.live \/ Foreign(mem[r].id)
          /\ Return(r, NoState)
       \/ /\ obj.live /\ ~Foreign(mem[r].id)
          /\ Goto(r, "d_del")
          /\ UNCHANGED <<st, mem>>
       \/ CallFails /\ Return(r, st[r])
    /\ UNCHANGED <<obj, dep, given>>

\* DELETE by name, without preconditions.
DeleteCall(r) ==
    /\ pc[r] = "d_del"
    /\ \/ /\ obj' = Deleted
          /\ Goto(r, "d_recheck")
          /\ UNCHANGED <<st, mem>>
       \/ obj' = Deleted /\ Resend(r)
       \/ /\ (CallFails /\ obj' = obj) \/ ("error" \in Faults /\ obj' = Deleted)
          /\ Return(r, st[r])
    /\ UNCHANGED <<dep, given>>

\* Mutant: Delete returns as soon as the DELETE has been accepted.
DeleteRecheckNoWait(r) ==
    /\ pc[r] = "d_recheck"
    /\ Return(r, NoState) /\ GiveUp(obj, mem[r].id)
    /\ UNCHANGED <<obj, dep>>

\* The ownership check repeated after the DELETE; an error here is logged only.
\* With delete_timeout "0" waitForDeletion returns at once.
DeleteRecheck(r) ==
    /\ pc[r] = "d_recheck"
    /\ \/ /\ obj.live /\ Foreign(mem[r].id)
          /\ Return(r, NoState)
          /\ given' = given
       \/ /\ ~obj.live \/ ~Foreign(mem[r].id) \/ CallFails
          /\ IF mem[r].opt = "nowait"
             THEN Return(r, NoState) /\ GiveUp(obj, mem[r].id)
             ELSE Goto(r, "d_wait") /\ UNCHANGED <<st, mem, given>>
    /\ UNCHANGED <<obj, dep>>

\* waitForDeletion polls on: its deadline, which it looks at only after a poll,
\* has not passed.
PollsOn(r) ==
    /\ mem[r].polls + 1 < MaxPolls
    /\ mem' = [mem EXCEPT ![r].polls = @ + 1]
    /\ UNCHANGED <<st, pc>>

\* Mutants: the deadline ends the wait without an error; there is no deadline.
DeleteWaitIgnoringTimeout(r) ==
    /\ pc[r] = "d_wait"
    /\ Return(r, NoState)
    /\ UNCHANGED <<obj, dep, given>>
DeleteWaitForever(r) ==
    /\ pc[r] = "d_wait"
    /\ ~obj.live \/ Foreign(mem[r].id)
    /\ Return(r, NoState)
    /\ UNCHANGED <<obj, dep, given>>

\* One poll: the object is gone or another's; or it is still there, or the Get
\* has failed, which is logged.  A cancelled wait ends like the deadline.
DeleteWait(r) ==
    /\ pc[r] = "d_wait"
    /\ \/ /\ ~obj.live \/ Foreign(mem[r].id)
          /\ Return(r, NoState)
       \/ /\ (obj.live /\ ~Foreign(mem[r].id)) \/ CallFails
          /\ \/ PollsOn(r)
             \/ /\ Goto(r, IF mem[r].opt = "force" THEN "f_get" ELSE "d_timeout")
                /\ UNCHANGED <<st, mem>>
    /\ UNCHANGED <<obj, dep, given>>

\* Mutant: the timeout is only logged.
DeleteTimeoutLogged(r) ==
    /\ pc[r] = "d_timeout"
    /\ Return(r, NoState)
    /\ UNCHANGED <<obj, dep, given>>

\* handleDeletionTimeout: no error only if the object turns out to be gone.
DeleteTimeout(r) ==
    /\ pc[r] = "d_timeout"
    /\ \/ ~obj.live /\ Return(r, NoState)
       \/ (obj.live \/ CallFails) /\ Return(r, st[r])
    /\ UNCHANGED <<obj, dep, given>>

\* forceDestroy: whatever goes wrong is logged and Delete succeeds.
ForceGet(r) ==
    /\ pc[r] = "f_get"
    /\ \/ /\ ~obj.live \/ CallFails
          /\ Return(r, NoState)
          /\ GiveUp(obj, mem[r].id)
       \/ /\ obj.live
          /\ mem' = [mem EXCEPT ![r].snap = obj, ![r].tries = 0, ![r].polls = 0]
          /\ Goto(r, IF obj.fin THEN "f_apply" ELSE "f_del")
          /\ UNCHANGED <<st, given>>
    /\ UNCHANGED <<obj, dep>>

\* What an apply without finalizers leaves, if the server removes them.
Unfinalized == IF obj.deleting THEN NoObj ELSE [obj EXCEPT !.fin = FALSE]

\* The live object, resourceVersion and managedFields included, is applied
\* without its finalizers by another manager: the server may refuse it, and
\* does so when a lost first attempt has changed the object.
ForceApply(r) ==
    /\ pc[r] = "f_apply"
    /\ \/ /\ obj = mem[r].snap
          /\ obj' \in {obj, Unfinalized}
          /\ (Goto(r, "f_wait") /\ UNCHANGED <<st, mem>>) \/ Resend(r)
          /\ given' = given
       \/ /\ obj' = obj \/ ("error" \in Faults /\ obj = mem[r].snap /\ obj' = Unfinalized)
          /\ Return(r, NoState)
          /\ GiveUp(obj', mem[r].id)
    /\ UNCHANGED dep

ForceDelete(r) ==
    /\ pc[r] = "f_del"
    /\ \/ /\ obj' = Deleted
          /\ (Goto(r, "f_wait") /\ UNCHANGED <<st, mem>>) \/ Resend(r)
          /\ given' = given
       \/ /\ (CallFails /\ obj' = obj) \/ ("error" \in Faults /\ obj' = Deleted)
          /\ Return(r, NoState)
          /\ GiveUp(obj', mem[r].id)
    /\ UNCHANGED dep

\* Mutant: the second wait ends only when the object is gone.
ForceWaitForever(r) ==
    /\ pc[r] = "f_wait"
    /\ ~obj.live
    /\ Return(r, NoState)
    /\ UNCHANGED <<obj, dep, given>>

\* The same polling, without an ownership check; gone or not when it ends,
\* Delete succeeds.
ForceWait(r) ==
    /\ pc[r] = "f_wait"
    /\ \/ (obj.live \/ CallFails) /\ PollsOn(r) /\ given' = given
       \/ Return(r, NoState) /\ GiveUp(obj, mem[r].id)
    /\ UNCHANGED <<obj, dep>>

-----------------------------------------------------------------------------
(* Import: an id found on the object is taken over, otherwise a fresh one.  *)

Import(r) ==
    /\ CanStart(r)
    /\ ~Held(r)
    /\ obj.live
    /\ \E id \in Ids :
          /\ IF obj.id # NoId THEN id = obj.id ELSE id \notin UsedIds
          /\ Return(r, [NoState EXCEPT !.id = id, !.proj = "full", !.imported = TRUE])
    /\ UNCHANGED <<obj, dep, given>>

-----------------------------------------------------------------------------
(* The environment: crashes, and everybody else who uses the cluster.       *)

\* The provider process dies: the framework keeps the prior state.
Crash(r) ==
    /\ "crash" \in Faults
    /\ pc[r] # "idle"
    /\ Return(r, st[r])
    /\ obj' = obj
    /\ IF Held(r) THEN given' = given ELSE GiveUp(obj, mem[r].id)
    /\ UNCHANGED dep

KubectlCreate ==
    /\ "create" \in Edits
    /\ ~obj.live /\ dep = "ready"
    /\ \E fin \in BOOLEAN : obj' = [NoObj EXCEPT !.live = TRUE, !.fin = fin]
    /\ UNCHANGED <<dep, st, pc, mem, given>>

KubectlDelete ==
    /\ "delete" \in Edits
    /\ obj.live
    /\ obj' = Deleted
    /\ UNCHANGED <<dep, st, pc, mem, given>>

StripAnnotation ==
    /\ "strip" \in Edits
    /\ obj.live
    /\ obj' = [obj EXCEPT !.id = NoId]
    /\ UNCHANGED <<dep, st, pc, mem, given>>

FinalizerDone ==
    /\ "finalize" \in Edits
    /\ obj.live /\ obj.fin
    /\ obj' = IF obj.deleting THEN NoObj ELSE [obj EXCEPT !.fin = FALSE]
    /\ UNCHANGED <<dep, st, pc, mem, given>>

DependencyArrives ==
    /\ "arrive" \in Edits
    /\ dep # "ready"
    /\ dep' = "ready"
    /\ UNCHANGED <<obj, st, pc, mem, given>>

\* Deleting the namespace or the CRD deletes the object first.
DependencyLeaves ==
    /\ "leave" \in Edits
    /\ dep = "ready" /\ ~obj.fin
    /\ dep' \in DepStates \ {"ready"}
    /\ obj' = NoObj
    /\ UNCHANGED <<st, pc, mem, given>>

-----------------------------------------------------------------------------
Init ==
    /\ obj = NoObj
    /\ dep \in DepStates
    /\ st = [r \in Instances |-> NoState]
    /\ pc = [r \in Instances |-> "idle"]
    /\ mem = [r \in Instances |-> NoMem]
    /\ given = NoId

Apply(r) ==
    \/ ApplySucceeds(r) \/ ApplyResponseLost(r)
    \/ ApplyFails(r) \/ ApplyDependencyMissing(r)

CreateStep(r) == CreateCheck(r) \/ CreateReadBack(r) \/ CreateProject(r)

DeleteStep(r) ==
    \/ DeleteGet(r) \/ DeleteCall(r) \/ DeleteRecheck(r)
    \/ DeleteWait(r) \/ DeleteTimeout(r)
    \/ ForceGet(r) \/ ForceApply(r) \/ ForceDelete(r) \/ ForceWait(r)

\* The next API call of a running handler.
HandlerStep(r) ==
    Apply(r) \/ CreateStep(r) \/ ReadGet(r) \/ UpdateGet(r) \/ DeleteStep(r)

\* Terraform calls the provider.
Start(r) ==
    CreateStart(r) \/ ReadStart(r) \/ UpdateStart(r) \/ DeleteStart(r) \/ Import(r)

Environment ==
    \/ KubectlCreate \/ KubectlDelete \/ StripAnnotation \/ FinalizerDone
    \/ DependencyArrives \/ DependencyLeaves

Next ==
    \/ \E r \in Instances : HandlerStep(r) \/ Start(r) \/ Crash(r)
    \/ Environment

Spec == Init /\ [][Next]_vars

\* A handler that has been called goes on running; nobody has to call one.
FairSpec == Spec /\ \A r \in Instances : WF_vars(HandlerStep(r))

-----------------------------------------------------------------------------
(* Properties.                                                              *)

TypeOK ==
    /\ obj \in ObjRec
    /\ dep \in Deps
    /\ st \in [Instances -> StateRec]
    /\ pc \in [Instances -> Pcs]
    /\ mem \in [Instances -> MemRec]
    /\ given \in Ids \cup {NoId}

\* The instance has id in its state, or a Create still running with it.
LooksAfter(r, id) == st[r].id = id \/ (pc[r] \in CreatePcs /\ mem[r].id = id)

\* An object that carries an id is looked after by the instance with that id,
\* unless a handler returned or died leaving exactly that object behind.  No
\* interleaving of the handlers, of kubectl and of lost responses orphans one
\* in any other way (ADR-006: state saved even when the projection fails).
Accounted ==
    obj.live /\ obj.id # NoId =>
        obj.id = given \/ \E r \in Instances : LooksAfter(r, obj.id)

\* Without the CRD or the namespace there is no object.
DependencyFirst == dep # "ready" => ~obj.live

\* A running handler works for the id in the state, or for no state at all.
Sessions ==
    \A r \in Instances :
        /\ pc[r] \in CreatePcs => ~Held(r)
        /\ pc[r] \in UpdatePcs \cup DeletePcs => Held(r) /\ mem[r].id = st[r].id

\* Until a Create has applied, its id is known to nobody but itself.
FreshUntilApplied ==
    \A r \in Instances : pc[r] = "c_check" =>
        /\ mem[r].id \notin {NoId, obj.id, given}
        /\ \A q \in Instances \ {r} : mem[r].id \notin {st[q].id, mem[q].id}

\* Accounted made inductive: what each handler may assume of its own state,
\* why a missing CRD means that there is nothing left to delete, and why a
\* Create that is refused leaves nothing behind.
AccountedInv ==
    TypeOK /\ DependencyFirst /\ Sessions /\ FreshUntilApplied /\ Accounted

\* With an API that answers and tokens that are valid, and no force_destroy or
\* delete_timeout "0", no handler ever leaves an object behind, whatever else
\* happens meanwhile.
NothingAbandoned == given = NoId

\* The recovery flag of ADR-006 always comes with the empty projection that
\* forces the next plan to show a difference, hence to retry.
PendingForcesDiff ==
    \A r \in Instances : st[r].pending => st[r].proj = "empty"

\* delete_protection: a protected instance leaves the state only when its
\* object has left the cluster; a failing refresh never drops it (ADR-023).
ProtectedStays ==
    [][\A r \in Instances :
         Held(r) /\ st[r].opt = "protected" /\ ~Held(r)' => ~obj.live]_vars

\* An instance is dropped from the state only when its object is gone or is
\* another's.  The known exceptions: a starting Delete takes any discovery
\* failure, an expired token included, for "deleted"; Delete does not wait with
\* delete_timeout "0", and force-destroys.
DropJustified ==
    [][\A r \in Instances : Held(r) /\ ~Held(r)' =>
         \/ ~obj'.live \/ obj'.id \notin {NoId, st[r].id}
         \/ DeleteStart(r) /\ CallFails
         \/ st[r].opt \in {"force", "nowait"}]_vars

\* An instance keeps its id until it leaves the state (ADR-003).
IdStable ==
    [][\A r \in Instances : Held(r) /\ Held(r)' => st'[r].id = st[r].id]_vars

\* One handler at a time, nobody else creating objects: Create writes the
\* object only where there is none, or over its own from a lost response.
CreateNeverAdopts ==
    [][\A r \in Instances :
         pc[r] = "c_apply" /\ obj.live /\ obj' # obj /\ obj'.id = mem[r].id
            => \/ obj.id = mem[r].id
               \/ obj.id = NoId /\ mem[r].tries > 0]_vars

\* One handler at a time: Delete, force_destroy included, leaves an object
\* that carries another instance's id untouched.
ForeignUntouched ==
    [][\A r \in Instances :
         pc[r] \in DeletePcs /\ obj.live /\ Foreign(mem[r].id) /\ pc'[r] # pc[r]
            => obj' = obj]_vars

\* Every call of the provider returns: the resends of one call, the attempts for
\* a missing CRD or namespace, the wait for the deletion and the one after
\* force_destroy all end, also when the object never goes or no call succeeds.
HandlerReturns ==
    \A r \in Instances : pc[r] # "idle" ~> pc[r] = "idle"
=============================================================================
