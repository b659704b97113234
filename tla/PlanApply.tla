------------------------------ MODULE PlanApply ------------------------------
(***************************************************************************)
(* The fields of one k8sconnect_object through Terraform's cycle: Read      *)
(* refreshes the state, ModifyPlan predicts the result with a dry run and   *)
(* decides whether there is a difference, Create or Update applies.         *)
(*                                                                          *)
(* Several managers write the object.  The API server records the owners of *)
(* each field; a forced server-side apply takes the fields it sends, gives  *)
(* up those it no longer sends, and removes a field with its last owner.    *)
(* Terraform knows the object by two maps computed from the ownership:      *)
(* managed_state_projection (the values of the fields k8sconnect owns) and  *)
(* managed_fields (who owns the fields it has to do with).                  *)
(*                                                                          *)
(* Fields are independent leaves, status and system annotations left out.   *)
(* Existence, deletion and the id of the object are in ObjectLifecycle.     *)
(***************************************************************************)
EXTENDS Naturals, FiniteSets

CONSTANTS
    Fields,     \* leaf fields of the object
    Values,     \* values of a field
    Us,         \* the field manager "k8sconnect"
    Updaters,   \* managers that write with Update: kubectl edit, controllers
    Appliers,   \* managers that write with server-side apply
    None,       \* no value, no owner
    Faults,     \* what may go wrong, see AllFaults
    MaxEdits    \* changes of the object or the configuration by others

Others   == Updaters \cup Appliers
Managers == Others \cup {Us}

\* "auth": the token in the state has expired; "get": a Get fails; "blind": the
\* connection or the CRD is not known yet when the plan is made.
AllFaults == {"auth", "get", "blind"}

ASSUME ManagerAssumption == Us \notin Others /\ None \notin Managers
ASSUME ValueAssumption == None \notin Values
ASSUME FaultAssumption == Faults \subseteq AllFaults /\ MaxEdits \in Nat

VARIABLES
    obj,     \* the object: values and owners of its fields
    conf,    \* the user's configuration
    state,   \* the Terraform state, with the private state
    plan,    \* the planned state
    pc,      \* where the cycle is
    edits,   \* changes by other managers and by the user so far
    calm     \* history: has nobody else written since ...?

vars == <<obj, conf, state, plan, pc, edits, calm>>

-----------------------------------------------------------------------------
(* The values of the variables.                                             *)

Body    == [Fields -> Values \cup {None}]
Owner   == [Fields -> Managers \cup {None}]
Empty   == [f \in Fields |-> None]
Set(body) == {f \in Fields : body[f] # None}

\* "other" stands for any other attribute: cluster, delete_protection, ...
Config == [yaml: Body, ignore: SUBSET Fields, other: BOOLEAN]

Object == [val: Body, by: [Fields -> SUBSET Managers], anno: BOOLEAN]

State ==
    [exists: BOOLEAN, yaml: Body, ignore: SUBSET Fields, other: BOOLEAN,
     proj: Body, mf: Owner, base: Owner, stale: BOOLEAN]

\* known: the computed attributes are predicted; checked: the live object was
\* looked at for conflicts.
Plan ==
    [yaml: Body, ignore: SUBSET Fields, other: BOOLEAN, proj: Body, mf: Owner,
     known: BOOLEAN, checked: BOOLEAN, warned: SUBSET Fields]

NoPlan ==
    [yaml |-> Empty, ignore |-> {}, other |-> FALSE, proj |-> Empty, mf |-> Empty,
     known |-> FALSE, checked |-> FALSE, warned |-> {}]

Calm == [read: BOOLEAN, dry: BOOLEAN, saved: BOOLEAN]

-----------------------------------------------------------------------------
(* The API server.                                                          *)

\* Forced apply of body by manager "k8sconnect".
Applied(o, body, anno) ==
    LET left(f) == o.by[f] \ {Us}
    IN  [val  |-> [f \in Fields |->
                     IF body[f] # None THEN body[f]
                     ELSE IF Us \in o.by[f] /\ left(f) = {} THEN None
                     ELSE o.val[f]],
         by   |-> [f \in Fields |->
                     IF body[f] = None THEN left(f)
                     ELSE IF body[f] = o.val[f] THEN o.by[f] \cup {Us}
                     ELSE {Us}],
         anno |-> anno]

\* The managers an object may name first for a field: appliers come first.
FirstManagers(owners) ==
    IF owners \cap (Appliers \cup {Us}) # {}
    THEN owners \cap (Appliers \cup {Us})
    ELSE owners

-----------------------------------------------------------------------------
(* Projection and ownership, as every handler computes them.                *)

\* removeFieldsFromObject.
Without(body, ignore) == [f \in Fields |-> IF f \in ignore THEN None ELSE body[f]]

\* extractOwnedPaths: all fields of the YAML as long as k8sconnect owns nothing.
OwnedPaths(o, body) ==
    IF o.anno \/ \E f \in Fields : Us \in o.by[f]
    THEN {f \in Fields : Us \in o.by[f]}
    ELSE Set(body)

\* projectFields and flattenProjectionToMap, after filterIgnoredPaths.
Projection(o, paths) == [f \in Fields |-> IF f \in paths THEN o.val[f] ELSE None]

\* Mutant: k8sconnect is shown only when it is the single owner.
FlattenExclusive(owners) ==
    IF owners = {} THEN None ELSE IF owners = {Us} THEN Us ELSE CHOOSE m \in owners \ {Us} : TRUE

\* FlattenManagedFields: k8sconnect if it is among the owners, else always
\* the same one of them.
Flatten(owners) ==
    IF owners = {} THEN None
    ELSE IF Us \in owners THEN Us
    ELSE CHOOSE m \in owners : TRUE

\* computeRelevantManagedFieldPaths (ADR-024).
RelevantPaths(o, body, base) ==
    {f \in Fields : Us \in o.by[f] \/ base[f] = Us \/ body[f] # None}

ManagedFields(o, body, base) ==
    [f \in Fields |-> IF f \in RelevantPaths(o, body, base)
                      THEN Flatten(o.by[f]) ELSE None]

-----------------------------------------------------------------------------
(* Conflicts (ADR-021).                                                     *)

ConfigChanged == state.yaml # conf.yaml \/ state.ignore # conf.ignore

Sending == Set(conf.yaml) \ conf.ignore

\* Mutant: compared with the owners Read has found.
ExternalChangeSinceRead(f, manager) == manager # Us /\ state.mf[f] # manager

\* detectExternalChange: compared with the baseline of the last apply.
ExternalChange(f, manager) ==
    /\ manager # Us
    /\ state.base[f] # None => state.base[f] # manager

\* ClassifyConflict of the four dimensions is not NoConflict.
Conflict(f) ==
    LET manager == Flatten(obj.by[f])
        prevOwned == state.base[f] = Us
        nowOwned == f \in Sending \/ manager = Us
    IN  /\ manager # None
        /\ ExternalChange(f, manager)
        /\ \/ nowOwned /\ (prevOwned \/ ConfigChanged)
           \/ ~nowOwned /\ prevOwned /\ ~ConfigChanged

\* Without a baseline nothing is classified.
Conflicts == IF state.base = Empty THEN {} ELSE {f \in Fields : Conflict(f)}

-----------------------------------------------------------------------------
(* Refresh.                                                                 *)

\* Import reads everything the object has into the state.
Import ==
    /\ pc = "idle"
    /\ ~state.exists /\ obj.val # Empty
    /\ state' = [state EXCEPT
           !.exists = TRUE, !.yaml = obj.val, !.proj = obj.val,
           !.mf = [f \in Fields |-> Flatten(obj.by[f])]]
    /\ UNCHANGED <<obj, conf, plan, pc, edits, calm>>

\* Nothing is refreshed before the first Create.  When the call is not
\* authorized, because the token in the state has expired or for any other
\* reason, Read keeps the state and marks it stale.
Refresh ==
    /\ pc = "idle"
    /\ state.exists \/ obj.val = Empty
    /\ pc' = "planning"
    /\ calm' = [calm EXCEPT !.read = TRUE]
    /\ \/ ~state.exists /\ state' = state
       \/ /\ state.exists
          /\ state' = [state EXCEPT
                 !.proj = Projection(obj, OwnedPaths(obj, state.yaml) \ state.ignore),
                 !.mf = ManagedFields(obj, state.yaml, state.base),
                 !.stale = FALSE]
       \/ /\ state.exists /\ "auth" \in Faults
          /\ state' = [state EXCEPT !.stale = TRUE]
    /\ UNCHANGED <<obj, conf, plan, edits>>

-----------------------------------------------------------------------------
(* ModifyPlan.                                                              *)

DryRunResult == Applied(obj, Without(conf.yaml, conf.ignore), FALSE)

DryRunPaths == OwnedPaths(DryRunResult, conf.yaml) \ conf.ignore

\* performDryRun, and applyProjection of its result: every field it projects
\* is shown as k8sconnect's (ADR-019).
DryRun ==
    /\ pc = "planning"
    /\ LET managed == ManagedFields(DryRunResult, conf.yaml, state.base)
       IN  plan' = [yaml |-> conf.yaml, ignore |-> conf.ignore, other |-> conf.other,
                    proj |-> Projection(DryRunResult, DryRunPaths),
                    mf |-> [f \in Fields |->
                              IF f \in DryRunPaths /\ managed[f] # None THEN Us
                              ELSE managed[f]],
                    known |-> TRUE, checked |-> FALSE, warned |-> {}]
    /\ pc' = IF state.exists THEN "get" ELSE "planned"
    /\ calm' = [calm EXCEPT !.dry = TRUE]
    /\ UNCHANGED <<obj, conf, state, edits>>

\* setProjectionUnknown.
PlanBlind ==
    /\ pc = "planning"
    /\ "blind" \in Faults
    /\ plan' = [yaml |-> conf.yaml, ignore |-> conf.ignore, other |-> conf.other,
                proj |-> Empty, mf |-> Empty,
                known |-> FALSE, checked |-> FALSE, warned |-> {}]
    /\ pc' = "planned"
    /\ calm' = [calm EXCEPT !.dry = TRUE]
    /\ UNCHANGED <<obj, conf, state, edits>>

\* Mutant: a field that is in one of the maps only counts, too.
TransitionAny(old, new) == old # new

\* detectOwnershipManagerTransition.
Transition(old, new) ==
    \E f \in Fields : old[f] # None /\ new[f] # None /\ old[f] # new[f]

\* Mutant: the fields of the two bodies are not compared (before ADR-026).
PreservesIgnoringFields(baseline) == baseline = plan.proj

\* Mutant: the projections are not compared.
PreservesSameFields(baseline) == Set(state.yaml) = Set(plan.yaml)

\* The plan is no different from the state if the projections agree and the
\* two bodies have the same fields.
Preserves(baseline) == baseline = plan.proj /\ Set(state.yaml) = Set(plan.yaml)

\* checkDriftAndPreserveState.
Preserved ==
    [plan EXCEPT
       !.yaml = state.yaml,
       !.proj = state.proj,
       !.mf = IF state.ignore # plan.ignore \/ Transition(state.mf, plan.mf)
              THEN plan.mf ELSE state.mf]

Decide(baseline, checked) ==
    plan' = [(IF Preserves(baseline) THEN Preserved ELSE plan)
               EXCEPT !.checked = checked, !.warned = IF checked THEN Conflicts ELSE {}]

\* The Get after the dry run: conflicts, and a baseline for a stale state.
PlanGet ==
    /\ pc = "get"
    /\ \/ /\ ~state.stale
          /\ Decide(state.proj, TRUE)
       \/ /\ state.stale
          /\ Decide(Projection(obj, Set(plan.proj)), TRUE)
       \/ /\ "get" \in Faults
          /\ Decide(state.proj, FALSE)
    /\ pc' = "planned"
    /\ UNCHANGED <<obj, conf, state, edits, calm>>

HasDiff ==
    \/ ~plan.known
    \/ plan.yaml # state.yaml \/ plan.ignore # state.ignore \/ plan.other # state.other
    \/ plan.proj # state.proj \/ plan.mf # state.mf

\* The dry run fails, there is nothing to do, the user declines, or the Apply
\* fails without effect.
Discard ==
    /\ pc \in {"planning", "planned"}
    /\ pc' = "idle"
    /\ plan' = NoPlan
    /\ UNCHANGED <<obj, conf, state, edits, calm>>

\* Terraform plans once more, from the same state, when it applies.
Replan ==
    /\ pc = "planned"
    /\ pc' = "planning"
    /\ plan' = NoPlan
    /\ calm' = [calm EXCEPT !.dry = FALSE]
    /\ UNCHANGED <<obj, conf, state, edits>>

-----------------------------------------------------------------------------
(* Create and Update.                                                       *)

\* Mutant: Update sends the ignored fields, as Create does.
SentByCreateAndUpdate == plan.yaml

\* Create sends the ignored fields, Update leaves them out (apply.go:203).
Sent == IF state.exists THEN Without(plan.yaml, plan.ignore) ELSE plan.yaml

Apply ==
    /\ pc = "planned"
    /\ ~state.exists \/ HasDiff
    /\ obj' = Applied(obj, Sent, TRUE)
    /\ pc' = "saving"
    /\ UNCHANGED <<conf, state, plan, edits, calm>>

\* Mutant: every manager of a field is saved.
BaselinesOfAll(ignore) == {obj.by}

\* saveOwnershipBaseline: the manager the object happens to name first.
Baselines(ignore) ==
    {b \in Owner : \A f \in Fields :
        IF f \in ignore \/ obj.by[f] = {} THEN b[f] = None
        ELSE b[f] \in FirstManagers(obj.by[f])}

\* The Get after the Apply and everything that is computed from it.
Save ==
    /\ pc = "saving"
    /\ \E b \in Baselines(plan.ignore) :
         state' = [exists |-> TRUE, yaml |-> plan.yaml, ignore |-> plan.ignore,
                   other |-> plan.other,
                   proj |-> Projection(obj, OwnedPaths(obj, plan.yaml) \ plan.ignore),
                   mf |-> ManagedFields(obj, plan.yaml, state.base),
                   base |-> b, stale |-> state.stale]
    /\ pc' = "idle"
    /\ plan' = NoPlan
    /\ calm' = [read |-> FALSE, dry |-> FALSE, saved |-> calm.dry /\ plan.yaml = conf.yaml]
    /\ UNCHANGED <<obj, conf, edits>>

\* Update keeps the prior state when its Get fails.  (A Create whose Get fails
\* is tainted: see ObjectLifecycle.)
SaveFails ==
    /\ pc = "saving"
    /\ state.exists /\ "get" \in Faults
    /\ pc' = "idle"
    /\ plan' = NoPlan
    /\ UNCHANGED <<obj, conf, state, edits, calm>>

-----------------------------------------------------------------------------
(* The environment.                                                         *)

Configure ==
    /\ pc = "idle"
    /\ edits < MaxEdits
    /\ edits' = edits + 1
    /\ conf' \in {[conf EXCEPT !.yaml[f] = v] : f \in Fields, v \in Values \cup {None}}
                 \cup {[conf EXCEPT !.ignore = i] : i \in SUBSET Fields}
                 \cup {[conf EXCEPT !.other = ~conf.other]}
    /\ conf' # conf
    /\ calm' = [calm EXCEPT !.saved = FALSE]
    /\ UNCHANGED <<obj, state, plan, pc>>

Touches ==
    /\ edits < MaxEdits
    /\ edits' = edits + 1
    /\ state.exists \/ pc = "saving"
    /\ calm' = [read |-> FALSE, dry |-> FALSE, saved |-> FALSE]
    /\ UNCHANGED <<conf, state, plan, pc>>

\* A value of its own makes a manager the only owner.
Write(m, f, v) ==
    /\ Touches
    /\ obj.val[f] # v
    /\ obj' = [obj EXCEPT !.val[f] = v, !.by[f] = {m}]

\* Applying the value that is there makes it one more owner.
Share(m, f) ==
    /\ Touches
    /\ obj.val[f] # None /\ m \notin obj.by[f]
    /\ obj' = [obj EXCEPT !.by[f] = @ \cup {m}]

Remove(f) ==
    /\ Touches
    /\ obj.val[f] # None
    /\ obj' = [obj EXCEPT !.val[f] = None, !.by[f] = {}]

-----------------------------------------------------------------------------
NoState ==
    [exists |-> FALSE, yaml |-> Empty, ignore |-> {}, other |-> FALSE,
     proj |-> Empty, mf |-> Empty, base |-> Empty, stale |-> FALSE]

\* The object is to be created, or has been by another manager.
Init ==
    /\ \E body \in Body, m \in Others :
          obj = [val |-> body, anno |-> FALSE,
                 by |-> [f \in Fields |-> IF body[f] = None THEN {} ELSE {m}]]
    /\ conf \in {c \in Config : ~c.other}
    /\ state = NoState
    /\ plan = NoPlan
    /\ pc = "idle"
    /\ edits = 0
    /\ calm = [read |-> FALSE, dry |-> FALSE, saved |-> FALSE]

Next ==
    \/ Import \/ Refresh \/ DryRun \/ PlanBlind \/ PlanGet \/ Discard \/ Replan
    \/ Apply \/ Save \/ SaveFails \/ Configure
    \/ \E f \in Fields :
          \/ \E m \in Others, v \in Values : Write(m, f, v)
          \/ \E m \in Appliers : Share(m, f)
          \/ Remove(f)

Spec == Init /\ [][Next]_vars

-----------------------------------------------------------------------------
(* Properties.                                                              *)

TypeOK ==
    /\ obj \in Object /\ conf \in Config /\ state \in State /\ plan \in Plan
    /\ pc \in {"idle", "planning", "get", "planned", "saving"}
    /\ edits \in 0..MaxEdits
    /\ calm \in Calm

\* Terraform's contract (ADR-012): what Create or Update returns is what the
\* plan has predicted, if nobody else wrote in between.  Three exceptions that
\* the code has: the plan kept the YAML of the state although the configuration
\* has another one; the plan kept the projection of a stale state; and the
\* owners of ignored fields.  (managed_fields is unknown before a Create.)
PlanKept ==
    [][Save /\ calm.dry /\ plan.known /\ ~state.stale /\ plan.yaml = conf.yaml =>
         /\ state'.proj = plan.proj
         /\ state.exists =>
               \A f \in Fields \ plan.ignore : state'.mf[f] = plan.mf[f]]_vars

\* One apply is enough: when nobody has touched the object or the configuration
\* between the dry run of the last apply and now, the next plan has no
\* difference (checkDriftAndPreserveState, applyProjection).
Converges ==
    pc = "planned" /\ calm.saved /\ plan.known => ~HasDiff

\* ADR-012: when configuration and reality differ the user is informed.  A
\* plan without difference means that the object has every field the
\* configuration sets, and that k8sconnect owns none that it does not set.
\* (Not with a stale state: the prediction of an unchanged configuration is
\* then compared with a state that has not seen the drift.)
NoSilentDrift ==
    pc = "planned" /\ state.exists /\ ~state.stale /\ calm.read /\ ~HasDiff =>
        \A f \in Fields \ conf.ignore :
            IF conf.yaml[f] # None THEN obj.val[f] = conf.yaml[f]
            ELSE Us \notin obj.by[f]

\* ADR-009: Update undoes nothing that another manager wrote to an ignored
\* field.
IgnoredUntouched ==
    [][Apply /\ state.exists =>
         \A f \in conf.ignore :
             obj.by[f] \cap Others # {} => obj'.val[f] = obj.val[f]]_vars

\* ADR-026: Create and Update take ownership of fields of the configuration
\* only, never of those an imported state has on top.
OnlyConfiguredTaken ==
    [][Apply => \A f \in Fields :
         Us \in obj'.by[f] \ obj.by[f] => conf.yaml[f] # None]_vars

\* ADR-021: when an Update takes a field away from the managers that have taken
\* it from k8sconnect, or takes one the user has just added, the plan warns.
\* (Not where the baseline names another manager: a co-owner named first, or
\* one that wrote between the last Apply and the Get after it.)
NoSilentTakeover ==
    [][Apply /\ calm.dry /\ plan.checked /\ state.base # Empty =>
         \A f \in Fields :
             /\ obj.by[f] # {} /\ Us \notin obj.by[f] /\ Us \in obj'.by[f]
             /\ state.base[f] = Us \/ (state.base[f] = None /\ ConfigChanged)
             => f \in plan.warned]_vars

-----------------------------------------------------------------------------
(* What the source says and the code does not do.                           *)

\* plan_modifier.go:215: the YAML of the state is kept "since no actual changes
\* will occur".  An Update that applies a kept YAML changes nothing.
KeptYAMLChangesNothing ==
    [][Apply /\ calm.read /\ plan.yaml # conf.yaml => obj'.val = obj.val]_vars

\* ADR-009: the plan predicts managed_fields of ignored fields, too, as Update
\* leaves them.
ConsistentResult ==
    [][Save /\ calm.dry /\ plan.known /\ state.exists /\ plan.yaml = conf.yaml
         => state'.mf = plan.mf]_vars
=============================================================================
