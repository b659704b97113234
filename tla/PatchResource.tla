---------------------------- MODULE PatchResource ----------------------------
(***************************************************************************)
(* k8sconnect_patch: several patches of one target object, which other     *)
(* managers write as well.                                                  *)
(*                                                                          *)
(* A patch of kind "ssa" (attribute patch) is a forced server-side apply    *)
(* with a manager of its own, one of kind "raw" (json_patch, merge_patch)   *)
(* goes through the Patch API, which records an owner only for what it      *)
(* changes and gives nothing up.  Read compares values and applies the      *)
(* patch again when they differ; ModifyPlan compares projections; Delete    *)
(* leaves the object alone.                                                 *)
(*                                                                          *)
(* Fields are leaves.  Those in Hidden are elements of keyed lists: the     *)
(* projection has no path for them, and a partial list never equals the     *)
(* live one, so that Read always takes them for drifted.  A plan is the one *)
(* Terraform makes when it applies.                                         *)
(***************************************************************************)
EXTENDS Naturals, FiniteSets

CONSTANTS
    Patches,    \* k8sconnect_patch instances in the configuration
    Ids,        \* what GenerateID may return
    Fields,     \* leaf fields of the target
    Hidden,     \* those inside keyed lists
    Values,     \* values of a field
    Bodies,     \* patch contents the user may write
    Kinds,      \* kinds of patches the user may write
    Others,     \* managers that are not patches: kubectl, controllers
    None,       \* no value, no id
    Temp,       \* the id of the dry run of a Create: "k8sconnect-patch-temp"
    Faults,     \* what may go wrong, see AllFaults
    MaxEdits    \* changes by other managers and by the user

\* "get", "apply": the call fails; "lost": the server has executed it all the
\* same; "blind": the plan is made without looking at the cluster.
AllFaults == {"get", "apply", "lost", "blind"}
AllKinds  == {"ssa", "raw"}
PatchManagers == (Ids \cup {Temp}) \X AllKinds
Managers  == PatchManagers \cup Others

ASSUME FieldAssumption == Hidden \subseteq Fields /\ None \notin Values
ASSUME BodyAssumption  == Bodies \subseteq [Fields -> Values \cup {None}]
ASSUME KindAssumption  == Kinds \subseteq AllKinds
ASSUME IdAssumption    == None \notin Ids /\ Temp \notin Ids \cup {None}
ASSUME OtherAssumption == Others \cap PatchManagers = {}
ASSUME FaultAssumption == Faults \subseteq AllFaults /\ MaxEdits \in Nat

VARIABLES
    obj,      \* the target: values and owners of its fields
    conf,     \* the user's configuration of each patch
    st,       \* the Terraform state of each patch
    plan,     \* the planned state of each patch
    pc,       \* where each patch's handler is
    mem,      \* its locals
    edits,    \* changes by others so far
    calm,     \* history: nobody else wrote since the state was in step
    quiet,    \* history: nobody else wrote since this patch's own last write
    left      \* history: ids that a Delete or a failed Create abandoned

vars == <<obj, conf, st, plan, pc, mem, edits, calm, quiet, left>>

-----------------------------------------------------------------------------
(* The values of the variables.                                             *)

Body  == [Fields -> Values \cup {None}]
Empty == [f \in Fields |-> None]
Set(body) == {f \in Fields : body[f] # None}

\* owned: the annotation or the manager of a k8sconnect_object is on it.
Object == [live: BOOLEAN, val: Body, by: [Fields -> SUBSET Managers], owned: BOOLEAN]
NoObj  == [live |-> FALSE, val |-> Empty, by |-> [f \in Fields |-> {}], owned |-> FALSE]

\* "other" stands for any other attribute, such as cluster.
Config == [want: BOOLEAN, kind: Kinds, body: Body, other: BOOLEAN]

\* managed_state_projection: null for raw patches; unknown in plans only.
Projections == [tag: {"null", "unknown", "known"}, val: Body]
Known(val)  == [tag |-> "known", val |-> val]
Unknown     == [tag |-> "unknown", val |-> Empty]
Null        == [tag |-> "null", val |-> Empty]

State ==
    [exists: BOOLEAN, id: Ids \cup {None}, kind: AllKinds, body: Body, other: BOOLEAN,
     proj: {p \in Projections : p.tag # "unknown"}, mf: SUBSET Fields, tainted: BOOLEAN]

NoState ==
    [exists |-> FALSE, id |-> None, kind |-> "ssa", body |-> Empty, other |-> FALSE,
     proj |-> Null, mf |-> {}, tainted |-> FALSE]

\* sound: history, the prediction of managed_fields is of the present object.
Plan ==
    [exists: BOOLEAN, kind: AllKinds, body: Body, other: BOOLEAN, proj: Projections,
     mf: SUBSET Fields, mfKnown: BOOLEAN, sound: BOOLEAN]

NoPlan ==
    [exists |-> FALSE, kind |-> "ssa", body |-> Empty, other |-> FALSE, proj |-> Null,
     mf |-> {}, mfKnown |-> FALSE, sound |-> FALSE]

\* seen: the fields the patch owned in the object that Read got.
Locals == [id: Ids \cup {None}, seen: SUBSET Fields]
NoMem  == [id |-> None, seen |-> {}]

-----------------------------------------------------------------------------
(* The API server.                                                          *)

\* Forced apply of body by manager m.  It creates an object that is missing.
Applied(o, m, body) ==
    [o EXCEPT
       !.live = TRUE,
       !.val = [f \in Fields |-> IF body[f] # None THEN body[f]
                                 ELSE IF o.by[f] = {m} THEN None ELSE o.val[f]],
       !.by  = [f \in Fields |-> IF body[f] = None THEN o.by[f] \ {m}
                                 ELSE IF body[f] = o.val[f] THEN o.by[f] \cup {m}
                                 ELSE {m}]]

\* The Patch API: the manager owns what its call has changed.  Only values are
\* set: removals and moves are left out, and a failing "test" is a failing call.
Merged(o, m, body) ==
    LET changed == {f \in Set(body) : body[f] # o.val[f]}
    IN  [o EXCEPT !.val = [f \in Fields |-> IF f \in changed THEN body[f] ELSE o.val[f]],
                  !.by  = [f \in Fields |-> IF f \in changed THEN {m} ELSE o.by[f]]]

-----------------------------------------------------------------------------
(* What the handlers compute.                                               *)

\* applyPatch.
Patched(o, id, kind, body) ==
    IF kind = "ssa" THEN Applied(o, <<id, "ssa">>, body) ELSE Merged(o, <<id, "raw">>, body)

\* updateManagedFieldsData: a manager's entries are looked up by name, whatever
\* operation they are of.
Own(o, id) == {f \in Fields : o.by[f] \cap ({id} \X AllKinds) # {}}

\* extractPatchedPaths and projectPatchedFields.
Projection(o, id) ==
    [f \in Fields |-> IF f \in Own(o, id) \ Hidden THEN o.val[f] ELSE None]

\* Mutant: a field that is gone is not drift.
DriftedPresent(o, body) ==
    {f \in Set(body) : o.val[f] # None /\ (f \in Hidden \/ o.val[f] # body[f])}

\* detectValueDrift.
Drifted(o, body) == {f \in Set(body) : f \in Hidden \/ o.val[f] # body[f]}

UsedIds == {st[p].id : p \in Patches} \cup {mem[p].id : p \in Patches} \cup left
           \cup {id \in Ids : Own(obj, id) # {}}

-----------------------------------------------------------------------------
(* Steps of a handler, with the histories they leave behind.                *)

\* The object becomes o by p's hand (p = None: by somebody else's): the others
\* are no longer in step with it.
Disturbs(p, o) ==
    /\ obj' = o
    /\ plan' = [q \in Patches |->
                  IF q # p THEN [plan[q] EXCEPT !.sound = @ /\ o = obj]
                  ELSE IF pc'[p] = "idle" THEN NoPlan ELSE plan[p]]

\* A handler goes on to its next call.
Goto(p, label, o, seen) ==
    /\ pc' = [pc EXCEPT ![p] = label]
    /\ mem' = [mem EXCEPT ![p].seen = seen]
    /\ calm' = [q \in Patches |-> calm[q] /\ (q = p \/ o = obj)]
    /\ quiet' = [q \in Patches |-> q = p \/ (quiet[q] /\ o = obj)]
    /\ Disturbs(p, o)

\* A handler returns; its state is in step with the object, or not.
Return(p, o, inStep) ==
    /\ pc' = [pc EXCEPT ![p] = "idle"]
    /\ mem' = [mem EXCEPT ![p] = NoMem]
    /\ calm' = [q \in Patches |-> IF q = p THEN inStep ELSE calm[q] /\ o = obj]
    /\ quiet' = [q \in Patches |-> q # p /\ quiet[q] /\ o = obj]
    /\ Disturbs(p, o)

\* What applyPatch may make of the object although it reports an error.
LeftByError(id, kind, body) ==
    (IF "apply" \in Faults \/ ~obj.live THEN {obj} ELSE {})
    \cup (IF "lost" \in Faults /\ obj.live THEN {Patched(obj, id, kind, body)} ELSE {})

GetMayFail == "get" \in Faults \/ ~obj.live

-----------------------------------------------------------------------------
(* ModifyPlan.                                                              *)

CanPlan(p) ==
    /\ pc[p] = "idle" /\ ~plan[p].exists
    /\ conf[p].want /\ ~st[p].tainted
    /\ UNCHANGED <<obj, conf, st, pc, mem, edits, calm, quiet, left>>

\* Mutant: a planned projection is always compared.
PatchChangedWithoutState(s, body, proj) ==
    IF proj.tag # "null" THEN s.proj # proj ELSE s.body # body

\* Mutant: projections are compared by their fields.
PatchChangedFields(s, body, proj) ==
    IF s.proj.tag # "null" /\ proj.tag # "null"
    THEN s.proj.tag # proj.tag \/ Set(s.proj.val) # Set(proj.val)
    ELSE s.body # body

\* hasPatchChanged.
PatchChanged(s, body, proj) ==
    IF s.proj.tag # "null" /\ proj.tag # "null" THEN s.proj # proj ELSE s.body # body

\* checkDriftAndPreserveState: a patch that has not changed is planned as the
\* state has it, content and computed attributes.
Planned(p, proj, mf, mfKnown) ==
    LET c == conf[p]
        s == st[p]
    IN  IF ~s.exists \/ PatchChanged(s, c.body, proj)
        THEN [exists |-> TRUE, kind |-> c.kind, body |-> c.body, other |-> c.other,
              proj |-> proj, mf |-> mf, mfKnown |-> mfKnown, sound |-> TRUE]
        ELSE [exists |-> TRUE, kind |-> s.kind, body |-> s.body, other |-> c.other,
              proj |-> s.proj, mf |-> s.mf, mfKnown |-> TRUE, sound |-> calm[p]]

\* Mutant: every dry run uses the placeholder.
DryRunIdTemp(p) == Temp

\* generateFieldManager.
DryRunId(p) == IF st[p].exists THEN st[p].id ELSE Temp

\* executeDryRunPatch: only an apply can be tried.
PlanGet(p) ==
    /\ CanPlan(p)
    /\ obj.live /\ ~obj.owned
    /\ LET dry == Applied(obj, <<DryRunId(p), "ssa">>, conf[p].body)
       IN  plan' = [plan EXCEPT ![p] =
             IF conf[p].kind = "ssa"
             THEN Planned(p, Known(Projection(dry, DryRunId(p))), Own(dry, DryRunId(p)), TRUE)
             ELSE Planned(p, Null, {}, FALSE)]

\* The target or its CRD is not there yet.
PlanMissing(p) ==
    /\ CanPlan(p)
    /\ ~obj.live
    /\ plan' = [plan EXCEPT ![p] = Planned(p, Unknown, {}, FALSE)]

\* The content has "${" in it, or the connection is not known: the plan returns
\* before anything is preserved.  The framework has made managed_fields unknown
\* if any attribute changes.
PlanBlind(p) ==
    /\ CanPlan(p)
    /\ "blind" \in Faults
    /\ LET c == conf[p]
           s == st[p]
           same == s.exists /\ <<c.kind, c.body, c.other>> = <<s.kind, s.body, s.other>>
       IN  plan' = [plan EXCEPT ![p] =
             [exists |-> TRUE, kind |-> c.kind, body |-> c.body, other |-> c.other,
              proj |-> Unknown, mf |-> IF same THEN s.mf ELSE {}, mfKnown |-> same,
              sound |-> same /\ calm[p]]]

HasDiff(p) ==
    LET s == st[p]
        n == plan[p]
    IN  \/ ~s.exists
        \/ <<n.kind, n.body, n.other, n.proj>> # <<s.kind, s.body, s.other, s.proj>>
        \/ ~n.mfKnown \/ n.mf # s.mf

\* No difference, or declined.
Discard(p) ==
    /\ pc[p] = "idle" /\ plan[p].exists
    /\ plan' = [plan EXCEPT ![p] = NoPlan]
    /\ UNCHANGED <<obj, conf, st, pc, mem, edits, calm, quiet, left>>

-----------------------------------------------------------------------------
(* Create, Read, Update and Delete.                                         *)

\* Mutant: unknown values are stored.
SavedUnknown(p, id, mf) ==
    LET n == plan[p]
    IN  [exists |-> TRUE, id |-> id, kind |-> n.kind, body |-> n.body, other |-> n.other,
         proj |-> n.proj, mf |-> mf, tainted |-> FALSE]

\* What a successful Create or Update leaves in the state.  Terraform does not
\* accept unknown values, nor a managed_fields other than planned: a Create is
\* tainted by the error.
Saved(p, id, mf) ==
    LET n == plan[p]
    IN  [exists |-> TRUE, id |-> id, kind |-> n.kind, body |-> n.body, other |-> n.other,
         proj |-> IF n.proj.tag = "unknown" THEN Null ELSE n.proj,
         mf |-> mf,
         tainted |-> ~st[p].exists /\ (n.proj.tag = "unknown" \/ (n.mfKnown /\ n.mf # mf))]

CreateGet(p) ==
    /\ pc[p] = "idle" /\ plan[p].exists /\ ~st[p].exists
    /\ obj.live /\ ~obj.owned
    /\ \E id \in Ids \ UsedIds :
         /\ mem' = [mem EXCEPT ![p].id = id]
         /\ pc' = [pc EXCEPT ![p] = "create"]
    /\ UNCHANGED <<obj, conf, st, plan, edits, calm, quiet, left>>

\* The target is missing, managed by k8sconnect_object or cannot be read.
CreateGetFails(p) ==
    /\ pc[p] = "idle" /\ plan[p].exists /\ ~st[p].exists
    /\ GetMayFail \/ obj.owned
    /\ Return(p, obj, FALSE)
    /\ UNCHANGED <<conf, st, edits, left>>

CreateApply(p) ==
    /\ pc[p] = "create"
    /\ obj.live \/ plan[p].kind = "ssa"
    /\ LET o == Patched(obj, mem[p].id, plan[p].kind, plan[p].body)
       IN  Goto(p, "createBack", o, Own(o, mem[p].id))
    /\ UNCHANGED <<conf, st, edits, left>>

CreateApplyFails(p) ==
    /\ pc[p] = "create"
    /\ \E o \in LeftByError(mem[p].id, plan[p].kind, plan[p].body) :
         /\ left' = IF o = obj THEN left ELSE left \cup {mem[p].id}
         /\ Return(p, o, FALSE)
    /\ UNCHANGED <<conf, st, edits>>

\* applyStrategicMergePatch reads the target back; the Patch API has returned it.
CreateBack(p) ==
    /\ pc[p] = "createBack"
    /\ obj.live \/ plan[p].kind = "raw"
    /\ st' = [st EXCEPT ![p] =
                Saved(p, mem[p].id,
                      IF plan[p].kind = "ssa" THEN Own(obj, mem[p].id) ELSE mem[p].seen)]
    /\ Return(p, obj, quiet[p])
    /\ UNCHANGED <<conf, edits, left>>

CreateBackFails(p) ==
    /\ pc[p] = "createBack"
    /\ plan[p].kind = "ssa" /\ GetMayFail
    /\ left' = left \cup {mem[p].id}
    /\ Return(p, obj, FALSE)
    /\ UNCHANGED <<conf, st, edits>>

\* Mutant: every error of the Get is taken for a missing target.
ReadGetDropping(p) ==
    /\ pc[p] = "idle" /\ st[p].exists /\ ~plan[p].exists
    /\ GetMayFail
    /\ st' = [st EXCEPT ![p] = NoState]
    /\ Return(p, obj, FALSE)
    /\ UNCHANGED <<conf, edits, left>>

\* Any other error of the Get leaves state and object alone.
ReadGet(p) ==
    /\ pc[p] = "idle" /\ st[p].exists /\ ~plan[p].exists
    /\ \/ /\ ~obj.live
          /\ st' = [st EXCEPT ![p] = NoState]
          /\ Return(p, obj, FALSE)
       \/ /\ obj.live /\ Drifted(obj, st[p].body) = {}
          /\ st' = [st EXCEPT ![p].mf = Own(obj, st[p].id)]
          /\ Return(p, obj, TRUE)
       \/ /\ obj.live /\ Drifted(obj, st[p].body) # {}
          /\ st' = st
          /\ Goto(p, "read", obj, Own(obj, st[p].id))
    /\ UNCHANGED <<conf, edits, left>>

\* A refresh writes.
ReadApply(p) ==
    /\ pc[p] = "read"
    /\ obj.live \/ st[p].kind = "ssa"
    /\ LET o == Patched(obj, st[p].id, st[p].kind, st[p].body)
       IN  Goto(p, "readBack", o,
                IF st[p].kind = "raw" THEN Own(o, st[p].id) ELSE mem[p].seen)
    /\ UNCHANGED <<conf, st, edits, left>>

\* Errors are warnings: managed_fields is that of the object before.
ReadApplyFails(p) ==
    /\ pc[p] = "read"
    /\ st' = [st EXCEPT ![p].mf = mem[p].seen]
    /\ \E o \in LeftByError(st[p].id, st[p].kind, st[p].body) : Return(p, o, FALSE)
    /\ UNCHANGED <<conf, edits, left>>

\* Mutant: managed_fields is always that of the object before.
ReadBackSeen(p) ==
    /\ pc[p] = "readBack"
    /\ obj.live \/ st[p].kind = "raw"
    /\ st' = [st EXCEPT ![p].mf = mem[p].seen]
    /\ Return(p, obj, quiet[p])
    /\ UNCHANGED <<conf, edits, left>>

ReadBack(p) ==
    /\ pc[p] = "readBack"
    /\ obj.live \/ st[p].kind = "raw"
    /\ st' = [st EXCEPT ![p].mf =
                IF st[p].kind = "ssa" THEN Own(obj, st[p].id) ELSE mem[p].seen]
    /\ Return(p, obj, quiet[p])
    /\ UNCHANGED <<conf, edits, left>>

ReadBackFails(p) ==
    /\ pc[p] = "readBack"
    /\ st[p].kind = "ssa" /\ GetMayFail
    /\ st' = [st EXCEPT ![p].mf = mem[p].seen]
    /\ Return(p, obj, FALSE)
    /\ UNCHANGED <<conf, edits, left>>

\* Update does not look at who manages the target.
UpdateGet(p) ==
    /\ pc[p] = "idle" /\ plan[p].exists /\ st[p].exists /\ HasDiff(p)
    /\ obj.live
    /\ Goto(p, "update", obj, {})
    /\ UNCHANGED <<conf, st, edits, left>>

\* Every error of an Update leaves the prior state.
UpdateGetFails(p) ==
    /\ pc[p] = "idle" /\ plan[p].exists /\ st[p].exists /\ HasDiff(p)
    /\ GetMayFail
    /\ Return(p, obj, calm[p])
    /\ UNCHANGED <<conf, st, edits, left>>

UpdateApply(p) ==
    /\ pc[p] = "update"
    /\ obj.live \/ plan[p].kind = "ssa"
    /\ Goto(p, "updateBack", Patched(obj, st[p].id, plan[p].kind, plan[p].body), {})
    /\ UNCHANGED <<conf, st, edits, left>>

UpdateApplyFails(p) ==
    /\ pc[p] = "update"
    /\ \E o \in LeftByError(st[p].id, plan[p].kind, plan[p].body) : Return(p, o, FALSE)
    /\ UNCHANGED <<conf, st, edits, left>>

\* The object is read again, whatever the patch has returned.
UpdateFresh(p) ==
    /\ pc[p] = "updateBack"
    /\ obj.live
    /\ st' = [st EXCEPT ![p] = Saved(p, st[p].id, Own(obj, st[p].id))]
    /\ Return(p, obj, quiet[p])
    /\ UNCHANGED <<conf, edits, left>>

UpdateFreshFails(p) ==
    /\ pc[p] = "updateBack"
    /\ GetMayFail
    /\ Return(p, obj, FALSE)
    /\ UNCHANGED <<conf, st, edits, left>>

\* Terraform destroys what is no longer configured, and what is tainted.  Delete
\* looks for the target and does nothing with it, found or not.
Delete(p) ==
    /\ pc[p] = "idle" /\ st[p].exists
    /\ ~conf[p].want \/ st[p].tainted
    /\ left' = left \cup {st[p].id}
    /\ st' = [st EXCEPT ![p] = NoState]
    /\ Return(p, obj, FALSE)
    /\ UNCHANGED <<conf, edits>>

-----------------------------------------------------------------------------
(* The environment.                                                         *)

Edits ==
    /\ edits < MaxEdits
    /\ edits' = edits + 1

Configure(p) ==
    /\ Edits
    /\ pc[p] = "idle" /\ ~plan[p].exists
    /\ conf' \in {[conf EXCEPT ![p] = c] :
                     c \in {[conf[p] EXCEPT !.body = b] : b \in Bodies}
                           \cup {[conf[p] EXCEPT !.kind = k] : k \in Kinds}
                           \cup {[conf[p] EXCEPT !.other = ~@], [conf[p] EXCEPT !.want = ~@]}}
    /\ conf' # conf
    /\ UNCHANGED <<obj, st, plan, pc, mem, calm, quiet, left>>

Outside(o) ==
    /\ Edits
    /\ calm' = [p \in Patches |-> FALSE]
    /\ quiet' = [p \in Patches |-> FALSE]
    /\ obj' = o
    /\ plan' = [p \in Patches |-> [plan[p] EXCEPT !.sound = FALSE]]
    /\ UNCHANGED <<conf, st, pc, mem, left>>

\* Another manager updates a field, or applies it by force.
Write(m, f, v) ==
    /\ obj.live /\ obj.val[f] # v
    /\ Outside([obj EXCEPT !.val[f] = v, !.by[f] = {m}])

\* Another manager applies the value that is there.
Share(m, f) ==
    /\ obj.live /\ obj.val[f] # None /\ m \notin obj.by[f]
    /\ Outside([obj EXCEPT !.by[f] = @ \cup {m}])

Remove(f) ==
    /\ obj.live /\ obj.val[f] # None
    /\ Outside([obj EXCEPT !.val[f] = None, !.by[f] = {}])

TargetDeleted ==
    /\ obj.live
    /\ Outside(NoObj)

TargetCreated(m, body) ==
    /\ ~obj.live
    /\ Outside([live |-> TRUE, val |-> body, owned |-> FALSE,
                by |-> [f \in Fields |-> IF body[f] = None THEN {} ELSE {m}]])

\* A k8sconnect_object of this or another state takes the target over.
Adopt ==
    /\ obj.live /\ ~obj.owned
    /\ Outside([obj EXCEPT !.owned = TRUE])

-----------------------------------------------------------------------------
Init ==
    /\ \E m \in Others, body \in Bodies \cup {Empty} :
         obj = [live |-> TRUE, val |-> body, owned |-> FALSE,
                by |-> [f \in Fields |-> IF body[f] = None THEN {} ELSE {m}]]
    /\ conf \in [Patches -> [want: {TRUE}, kind: Kinds, body: Bodies, other: {FALSE}]]
    /\ st = [p \in Patches |-> NoState]
    /\ plan = [p \in Patches |-> NoPlan]
    /\ pc = [p \in Patches |-> "idle"]
    /\ mem = [p \in Patches |-> NoMem]
    /\ edits = 0
    /\ calm = [p \in Patches |-> FALSE]
    /\ quiet = [p \in Patches |-> FALSE]
    /\ left = {}

Handler(p) ==
    \/ CreateGet(p) \/ CreateGetFails(p) \/ CreateApply(p) \/ CreateApplyFails(p)
    \/ CreateBack(p) \/ CreateBackFails(p)
    \/ ReadGet(p) \/ ReadApply(p) \/ ReadApplyFails(p) \/ ReadBack(p) \/ ReadBackFails(p)
    \/ UpdateGet(p) \/ UpdateGetFails(p) \/ UpdateApply(p) \/ UpdateApplyFails(p)
    \/ UpdateFresh(p) \/ UpdateFreshFails(p) \/ Delete(p)

Environment ==
    \/ \E m \in Others, f \in Fields : Share(m, f) \/ \E v \in Values : Write(m, f, v)
    \/ \E f \in Fields : Remove(f)
    \/ \E m \in Others, body \in Bodies : TargetCreated(m, body)
    \/ TargetDeleted \/ Adopt

Next ==
    \/ \E p \in Patches :
         PlanGet(p) \/ PlanMissing(p) \/ PlanBlind(p) \/ Discard(p) \/ Handler(p)
         \/ Configure(p)
    \/ Environment

Spec == Init /\ [][Next]_vars

-----------------------------------------------------------------------------
(* Properties.                                                              *)

TypeOK ==
    /\ obj \in Object /\ conf \in [Patches -> Config] /\ st \in [Patches -> State]
    /\ plan \in [Patches -> Plan] /\ mem \in [Patches -> Locals]
    /\ pc \in [Patches -> {"idle", "create", "createBack", "read", "readBack",
                           "update", "updateBack"}]
    /\ edits \in 0..MaxEdits
    /\ calm \in [Patches -> BOOLEAN] /\ quiet \in [Patches -> BOOLEAN]
    /\ left \subseteq Ids

\* After a successful Create, Read or Update, and as long as nobody else
\* writes, the target has every value of the patch in the state: Read corrects
\* drift in hidden fields too, and what a failed Update has left (crud.go:166).
DriftCorrected ==
    \A p \in Patches :
        pc[p] = "idle" /\ st[p].exists /\ calm[p] =>
            \A f \in Set(st[p].body) : obj.val[f] = st[p].body[f]

\* managed_fields in the state names the fields under the patch's own manager and
\* no others, whichever of its calls wrote last (updateManagedFieldsData).  The
\* schema says otherwise (patch.go:233): a field that another manager holds or
\* takes over is left out, not shown under that manager's name.
OwnFieldsRecorded ==
    \A p \in Patches :
        pc[p] = "idle" /\ st[p].exists /\ calm[p] => st[p].mf = Own(obj, st[p].id)

\* What a plan predicts of managed_fields, with the temporary manager of its dry
\* run or from the state, is what Create or Update returns, if nobody else wrote.
\* (A prediction taken from the state is wrong where the patch has lost a field
\* to another manager with the value it has, or still owns one that only a failed
\* Update has sent: the apply takes the first back and gives the second up.)
PlanKept ==
    [][\A p \in Patches :
         /\ CreateBack(p) \/ UpdateFresh(p)
         /\ plan[p].sound /\ plan[p].mfKnown
         /\ plan[p].mf = st[p].mf => Set(plan[p].body) = plan[p].mf
         => st'[p].mf = plan[p].mf]_vars

\* The projection in the state, which is that of the plan, is what the target has.
\* It is not when a patch that was of kind raw owned a field by the Patch API and
\* lost it to another manager, or changed it by a failed Update.
Current(p) == st[p].proj.tag = "known" => st[p].proj.val = Projection(obj, st[p].id)

\* No failed Update has left the patch an owner of what is not in its content.
Clean(p) ==
    \A f \in Fields \ Hidden : <<st[p].id, "ssa">> \in obj.by[f] => f \in Set(st[p].body)

\* One apply is enough: a patch whose state is in step with the target and with
\* the configuration has a plan without difference.  (Without Current or Clean
\* the next plan shows a field as removed, or its value as changed.)
Converges ==
    \A p \in Patches :
        /\ pc[p] = "idle" /\ plan[p].exists /\ st[p].exists /\ calm[p]
        /\ plan[p].proj.tag # "unknown" /\ Current(p) /\ Clean(p)
        /\ <<conf[p].kind, conf[p].body, conf[p].other>> = <<st[p].kind, st[p].body, st[p].other>>
        => ~HasDiff(p)

\* When the plan keeps the content of the state although the configuration has
\* another one, the visible fields of both have the same effect: the target
\* has the values asked for (hasPatchChanged).  (Without Current, asking for the
\* value that the projection shows is taken for no change.)
KeptContentHarmless ==
    \A p \in Patches :
        /\ plan[p].exists /\ st[p].exists /\ Current(p) /\ plan[p].body # conf[p].body
        => \A f \in Set(conf[p].body) \ Hidden : obj.val[f] = conf[p].body[f]

\* The target names no patch as owner that no state or running handler knows,
\* except those that Delete dropped or a failed Create left.
OwnersKnown ==
    \A id \in Ids :
        Own(obj, id) # {} =>
            id \in left \/ \E p \in Patches : id \in {st[p].id, mem[p].id}

-----------------------------------------------------------------------------
(* What the source says and the code does not do.                           *)

\* plan_modifier.go:315: "Prevent multiple patches on the same fields".
ConflictRefused ==
    [][\A p \in Patches :
         PlanGet(p) => \A q \in Patches \ {p} :
             st[q].exists => Set(conf[p].body) \cap Own(obj, st[q].id) = {}]_vars
=============================================================================
