-------------------------- MODULE PlanApply_proofs --------------------------
(***************************************************************************)
(* Proofs about PlanApply, for every set of fields, values and managers.    *)
(*                                                                          *)
(* PlanInv says what a plan has in common with the configuration: the       *)
(* ignored fields and, although its YAML may be that of the state, the      *)
(* fields it sets; and that its warnings are up to date as long as nobody   *)
(* has touched the object.  DriftInv adds that the maps of the state and of  *)
(* the plan are projections of the present object, ConvergeInv how the two   *)
(* maps fit together before, during and after an apply.                     *)
(***************************************************************************)
EXTENDS PlanApply, TLAPS

\* What a plan sets and ignores is what the configuration sets and ignores.
FollowsConfig ==
    pc \in {"get", "planned", "saving"} =>
        /\ plan.ignore = conf.ignore
        /\ Set(plan.yaml) = Set(conf.yaml)

\* There is no baseline before the first apply.
BaselineExists == ~state.exists => state.base = Empty

\* The warnings of a plan are those of the present object.
WarningsCurrent ==
    pc = "planned" /\ plan.checked /\ calm.dry => plan.warned = Conflicts

PlanInv == TypeOK /\ FollowsConfig /\ BaselineExists /\ WarningsCurrent

-----------------------------------------------------------------------------
(* Types of the operators.                                                  *)

\* The manager managed_fields shows is one of the owners.
LEMMA FlattenOwner ==
    ASSUME NEW owners \in SUBSET Managers
    PROVE  /\ Flatten(owners) \in Managers \cup {None}
           /\ owners # {} => Flatten(owners) \in owners
  <1>1. CASE owners = {}
    BY <1>1 DEF Flatten
  <1>2. CASE Us \in owners
    BY <1>2 DEF Flatten
  <1>3. CASE owners # {} /\ Us \notin owners
    <2>1. Flatten(owners) = CHOOSE m \in owners : TRUE
      BY <1>3 DEF Flatten
    <2>2. \E m \in owners : TRUE
      BY <1>3
    <2> QED BY <2>1, <2>2
  <1> QED BY <1>1, <1>2, <1>3

\* The map without entries is a body and a map of owners.
LEMMA EmptyType == Empty \in Body /\ Empty \in Owner
  BY DEF Empty, Body, Owner

\* A forced apply keeps an object an object.
LEMMA AppliedType ==
    ASSUME NEW o \in Object, NEW body \in Body, NEW anno \in BOOLEAN
    PROVE  Applied(o, body, anno) \in Object
  <1> DEFINE left(f) == o.by[f] \ {Us}
             val == [f \in Fields |->
                       IF body[f] # None THEN body[f]
                       ELSE IF Us \in o.by[f] /\ left(f) = {} THEN None
                       ELSE o.val[f]]
             by == [f \in Fields |->
                      IF body[f] = None THEN left(f)
                      ELSE IF body[f] = o.val[f] THEN o.by[f] \cup {Us}
                      ELSE {Us}]
  <1>1. Applied(o, body, anno) = [val |-> val, by |-> by, anno |-> anno]
    BY DEF Applied
  <1>2. val \in Body
    <2>1. ASSUME NEW f \in Fields
          PROVE  body[f] \in Values \cup {None} /\ o.val[f] \in Values \cup {None}
      BY DEF Object, Body
    <2> QED BY <2>1 DEF Body
  <1>3. by \in [Fields -> SUBSET Managers]
    <2>1. ASSUME NEW f \in Fields PROVE o.by[f] \in SUBSET Managers
      BY DEF Object
    <2>2. Us \in Managers
      BY DEF Managers
    <2> QED BY <2>1, <2>2
  <1> HIDE DEF val, by
  <1> QED BY <1>1, <1>2, <1>3 DEF Object

\* Leaving out fields gives a body.
LEMMA WithoutType ==
    ASSUME NEW body \in Body, NEW ignore
    PROVE  Without(body, ignore) \in Body
  BY DEF Without, Body

\* A projection is a body.
LEMMA ProjectionType ==
    ASSUME NEW o \in Object, NEW paths
    PROVE  Projection(o, paths) \in Body
  <1>1. ASSUME NEW f \in Fields PROVE o.val[f] \in Values \cup {None}
    BY DEF Object, Body
  <1> QED BY <1>1 DEF Projection, Body

\* managed_fields has a manager, or nothing, for every field.
LEMMA ManagedFieldsType ==
    ASSUME NEW o \in Object, NEW body, NEW base
    PROVE  ManagedFields(o, body, base) \in Owner
  <1>1. ASSUME NEW f \in Fields PROVE Flatten(o.by[f]) \in Managers \cup {None}
    <2>1. o.by[f] \in SUBSET Managers
      BY DEF Object
    <2> QED BY <2>1, FlattenOwner
  <1> QED BY <1>1 DEF ManagedFields, Owner

\* Only fields can be in conflict.
LEMMA ConflictsType == Conflicts \in SUBSET Fields
  BY DEF Conflicts

\* The planned state is a plan, whether ModifyPlan keeps the state's values or
\* not, and sets the fields it has set before.
LEMMA DecideType ==
    ASSUME TypeOK, NEW baseline, NEW checked \in BOOLEAN, Decide(baseline, checked)
    PROVE  /\ plan' \in Plan
           /\ plan'.ignore = plan.ignore
           /\ Set(plan'.yaml) = Set(plan.yaml)
           /\ plan'.checked = checked
           /\ checked => plan'.warned = Conflicts
  <1> DEFINE kept == IF Preserves(baseline) THEN Preserved ELSE plan
             warned == IF checked THEN Conflicts ELSE {}
  <1>1. plan \in Plan /\ state \in State
    BY DEF TypeOK
  <1>2. /\ kept \in Plan
        /\ kept.ignore = plan.ignore
        /\ Set(kept.yaml) = Set(plan.yaml)
    <2>1. CASE Preserves(baseline)
      <3>1. kept = Preserved
        BY <2>1
      <3>2. Preserved \in Plan /\ Preserved.ignore = plan.ignore /\ Preserved.yaml = state.yaml
        BY <1>1 DEF Preserved, Plan, State
      <3> QED BY <2>1, <3>1, <3>2 DEF Preserves
    <2>2. CASE ~Preserves(baseline)
      BY <1>1, <2>2
    <2> QED BY <2>1, <2>2
  <1>3. plan' = [kept EXCEPT !.checked = checked, !.warned = warned]
    BY DEF Decide
  <1>4. warned \in SUBSET Fields
    BY ConflictsType
  <1>5. checked => warned = Conflicts
    OBVIOUS
  <1> HIDE DEF kept, warned
  <1> QED BY <1>2, <1>3, <1>4, <1>5 DEF Plan
-----------------------------------------------------------------------------
(* The invariant, action by action.                                         *)

\* The initial states satisfy the invariant.
LEMMA InitInv == Init => PlanInv
  <1> SUFFICES ASSUME Init PROVE PlanInv
    OBVIOUS
  <1>1. obj \in Object
    <2>1. PICK body \in Body, m \in Others :
             obj = [val |-> body, anno |-> FALSE,
                    by |-> [f \in Fields |-> IF body[f] = None THEN {} ELSE {m}]]
      BY DEF Init
    <2>2. m \in Managers
      BY DEF Managers
    <2> QED BY <2>1, <2>2 DEF Object
  <1>2. state \in State /\ plan \in Plan
    BY EmptyType DEF Init, NoState, NoPlan, State, Plan
  <1>3. TypeOK
    BY <1>1, <1>2, FaultAssumption DEF Init, TypeOK, Calm
  <1> QED
    BY <1>3 DEF Init, PlanInv, FollowsConfig, BaselineExists, WarningsCurrent, NoState

\* Reading the object, whatever comes of it, keeps the invariant.
LEMMA ReadInv ==
    ASSUME PlanInv, Import \/ Refresh
    PROVE  PlanInv'
  <1>1. obj \in Object /\ state \in State
    BY DEF PlanInv, TypeOK
  <1>2. CASE Import
    <2>1. obj.val \in Body
      BY <1>1 DEF Object
    <2>2. [f \in Fields |-> Flatten(obj.by[f])] \in Owner
      <3>1. ASSUME NEW f \in Fields PROVE obj.by[f] \in SUBSET Managers
        BY <1>1 DEF Object
      <3> QED BY <3>1, FlattenOwner DEF Owner
    <2>3. state' \in State /\ state'.base = state.base /\ state'.exists
      BY <1>1, <1>2, <2>1, <2>2 DEF Import, State
    <2> QED
      BY <1>2, <2>3
      DEF Import, PlanInv, TypeOK, FollowsConfig, BaselineExists, WarningsCurrent
  <1>3. CASE Refresh
    <2>1. Projection(obj, OwnedPaths(obj, state.yaml) \ state.ignore) \in Body
      BY <1>1, ProjectionType
    <2>2. ManagedFields(obj, state.yaml, state.base) \in Owner
      BY <1>1, ManagedFieldsType
    <2>3. state' \in State /\ state'.base = state.base /\ state'.exists = state.exists
      BY <1>1, <1>3, <2>1, <2>2 DEF Refresh, State
    <2>4. calm' \in Calm
      BY <1>3 DEF Refresh, PlanInv, TypeOK, Calm
    <2> QED
      BY <1>3, <2>3, <2>4
      DEF Refresh, PlanInv, TypeOK, FollowsConfig, BaselineExists, WarningsCurrent
  <1> QED BY <1>2, <1>3

\* Planning keeps the invariant.
LEMMA PlanningInv ==
    ASSUME PlanInv, DryRun \/ PlanBlind \/ PlanGet \/ Discard \/ Replan
    PROVE  PlanInv'
  <1> USE DEF PlanInv
  <1>1. /\ obj \in Object /\ state \in State /\ conf \in Config
        /\ plan \in Plan /\ calm \in Calm
    BY DEF TypeOK
  <1>2. CASE DryRun
    <2> DEFINE managed == ManagedFields(DryRunResult, conf.yaml, state.base)
               mf == [f \in Fields |->
                        IF f \in DryRunPaths /\ managed[f] # None THEN Us ELSE managed[f]]
    <2>1. DryRunResult \in Object
      <3>1. Without(conf.yaml, conf.ignore) \in Body
        BY <1>1, WithoutType DEF Config
      <3> QED BY <1>1, <3>1, AppliedType DEF DryRunResult
    <2>2. Projection(DryRunResult, DryRunPaths) \in Body
      BY <2>1, ProjectionType
    <2>3. mf \in Owner
      <3>1. managed \in Owner
        BY <2>1, ManagedFieldsType
      <3>2. Us \in Managers
        BY DEF Managers
      <3> HIDE DEF managed
      <3> QED BY <3>1, <3>2 DEF Owner
    <2>4. plan' = [yaml |-> conf.yaml, ignore |-> conf.ignore, other |-> conf.other,
                   proj |-> Projection(DryRunResult, DryRunPaths), mf |-> mf,
                   known |-> TRUE, checked |-> FALSE, warned |-> {}]
      BY <1>2 DEF DryRun
    <2> HIDE DEF managed, mf
    <2>5. plan' \in Plan
      BY <1>1, <2>2, <2>3, <2>4 DEF Plan, Config
    <2>6. calm' \in Calm
      BY <1>1, <1>2 DEF DryRun, Calm
    <2>7. TypeOK'
      BY <1>2, <2>5, <2>6 DEF DryRun, TypeOK
    <2> QED
      BY <1>2, <2>4, <2>7 DEF DryRun, FollowsConfig, BaselineExists, WarningsCurrent, Set
  <1>3. CASE PlanBlind
    <2>1. plan' \in Plan
      BY <1>1, <1>3, EmptyType DEF PlanBlind, Plan, Config
    <2>2. calm' \in Calm
      BY <1>1, <1>3 DEF PlanBlind, Calm
    <2>3. TypeOK'
      BY <1>3, <2>1, <2>2 DEF PlanBlind, TypeOK
    <2> QED
      BY <1>3, <2>3 DEF PlanBlind, FollowsConfig, BaselineExists, WarningsCurrent, Set
  <1>4. CASE PlanGet
    <2> DEFINE Good == /\ plan' \in Plan
                       /\ plan'.ignore = plan.ignore
                       /\ Set(plan'.yaml) = Set(plan.yaml)
                       /\ plan'.checked => plan'.warned = Conflicts
    <2>1. ASSUME NEW baseline, NEW checked \in BOOLEAN, Decide(baseline, checked)
          PROVE  Good
      BY <2>1, DecideType
    <2>2. Good
      <3> HIDE DEF Good
      <3> QED BY <1>4, <2>1 DEF PlanGet
    <2>3. TypeOK'
      BY <1>4, <2>2 DEF PlanGet, TypeOK
    <2>4. FollowsConfig'
      BY <1>4, <2>2 DEF PlanGet, FollowsConfig, Set
    <2>5. Conflicts' = Conflicts
      BY <1>4
      DEF PlanGet, Conflicts, Conflict, ExternalChange, Sending, Set, ConfigChanged
    <2> QED
      BY <1>4, <2>2, <2>3, <2>4, <2>5 DEF PlanGet, BaselineExists, WarningsCurrent
  <1>5. CASE Discard \/ Replan
    <2>1. NoPlan \in Plan
      BY EmptyType DEF NoPlan, Plan
    <2>2. calm' \in Calm
      BY <1>1, <1>5 DEF Discard, Replan, Calm
    <2>3. TypeOK'
      BY <1>5, <2>1, <2>2 DEF Discard, Replan, TypeOK
    <2> QED
      BY <1>5, <2>3 DEF Discard, Replan, FollowsConfig, BaselineExists, WarningsCurrent
  <1> QED BY <1>2, <1>3, <1>4, <1>5

\* Create and Update keep the invariant.
LEMMA ApplyInv ==
    ASSUME PlanInv, Apply \/ Save \/ SaveFails
    PROVE  PlanInv'
  <1> USE DEF PlanInv
  <1>1. /\ obj \in Object /\ state \in State /\ conf \in Config
        /\ plan \in Plan /\ calm \in Calm
    BY DEF TypeOK
  <1>2. CASE Apply
    <2>1. Sent \in Body
      <3>1. plan.yaml \in Body
        BY <1>1 DEF Plan
      <3> QED BY <3>1, WithoutType DEF Sent
    <2>2. obj' \in Object
      BY <1>1, <1>2, <2>1, AppliedType DEF Apply
    <2>3. TypeOK'
      BY <1>2, <2>2 DEF Apply, TypeOK
    <2> QED
      BY <1>2, <2>3 DEF Apply, FollowsConfig, BaselineExists, WarningsCurrent, Set
  <1>3. CASE Save
    <2>1. PICK b \in Owner :
            state' = [exists |-> TRUE, yaml |-> plan.yaml, ignore |-> plan.ignore,
                      other |-> plan.other,
                      proj |-> Projection(obj, OwnedPaths(obj, plan.yaml) \ plan.ignore),
                      mf |-> ManagedFields(obj, plan.yaml, state.base),
                      base |-> b, stale |-> state.stale]
      BY <1>3 DEF Save, Baselines
    <2>2. /\ Projection(obj, OwnedPaths(obj, plan.yaml) \ plan.ignore) \in Body
          /\ ManagedFields(obj, plan.yaml, state.base) \in Owner
      BY <1>1, ProjectionType, ManagedFieldsType
    <2>3. state' \in State /\ state'.exists
      BY <1>1, <2>1, <2>2 DEF State, Plan
    <2>4. NoPlan \in Plan
      BY EmptyType DEF NoPlan, Plan
    <2>5. calm' \in Calm
      BY <1>1, <1>3 DEF Save, Calm
    <2>6. TypeOK'
      BY <1>3, <2>3, <2>4, <2>5 DEF Save, TypeOK
    <2> QED
      BY <1>3, <2>3, <2>6 DEF Save, FollowsConfig, BaselineExists, WarningsCurrent
  <1>4. CASE SaveFails
    <2>1. NoPlan \in Plan
      BY EmptyType DEF NoPlan, Plan
    <2> QED
      BY <1>4, <2>1
      DEF SaveFails, TypeOK, FollowsConfig, BaselineExists, WarningsCurrent
  <1> QED BY <1>2, <1>3, <1>4

\* The user and other managers keep the invariant.
LEMMA EnvironmentInv ==
    ASSUME PlanInv,
           \/ Configure
           \/ \E f \in Fields, m \in Others, v \in Values : Write(m, f, v)
           \/ \E f \in Fields, m \in Appliers : Share(m, f)
           \/ \E f \in Fields : Remove(f)
    PROVE  PlanInv'
  <1> USE DEF PlanInv
  <1>1. /\ obj \in Object /\ conf \in Config /\ calm \in Calm
        /\ edits \in 0..MaxEdits /\ MaxEdits \in Nat
    BY FaultAssumption DEF TypeOK
  <1>2. CASE Configure
    <2>1. conf' \in Config
      <3>1. ASSUME NEW f \in Fields, NEW v \in Values \cup {None},
                   conf' = [conf EXCEPT !.yaml[f] = v]
            PROVE  conf' \in Config
        <4>1. [conf.yaml EXCEPT ![f] = v] \in Body
          BY <1>1 DEF Config, Body
        <4> QED BY <1>1, <3>1, <4>1 DEF Config
      <3>2. ASSUME NEW i \in SUBSET Fields, conf' = [conf EXCEPT !.ignore = i]
            PROVE  conf' \in Config
        BY <1>1, <3>2 DEF Config
      <3>3. ASSUME conf' = [conf EXCEPT !.other = ~conf.other]
            PROVE  conf' \in Config
        BY <1>1, <3>3 DEF Config
      <3> QED BY <1>2, <3>1, <3>2, <3>3 DEF Configure
    <2>2. calm' \in Calm
      BY <1>1, <1>2 DEF Configure, Calm
    <2>3. edits' \in 0..MaxEdits
      BY <1>1, <1>2 DEF Configure
    <2>4. TypeOK'
      BY <1>2, <2>1, <2>2, <2>3 DEF Configure, TypeOK
    <2> QED
      BY <1>2, <2>4 DEF Configure, FollowsConfig, BaselineExists, WarningsCurrent
  <1>3. CASE Touches /\ obj' \in Object
    <2>1. calm' \in Calm /\ ~calm'.dry
      BY <1>3 DEF Touches, Calm
    <2>2. edits' \in 0..MaxEdits
      BY <1>1, <1>3 DEF Touches
    <2>3. TypeOK'
      BY <1>3, <2>1, <2>2 DEF Touches, TypeOK
    <2> QED
      BY <1>3, <2>1, <2>3 DEF Touches, FollowsConfig, BaselineExists, WarningsCurrent, Set
  <1>4. ASSUME NEW f \in Fields, NEW m \in Others, NEW v \in Values, Write(m, f, v)
        PROVE  obj' \in Object
    <2>1. m \in Managers
      BY DEF Managers
    <2> QED BY <1>1, <1>4, <2>1 DEF Write, Object, Body
  <1>5. ASSUME NEW f \in Fields, NEW m \in Appliers, Share(m, f)
        PROVE  obj' \in Object
    <2>1. m \in Managers
      BY DEF Managers, Others
    <2>2. obj.by[f] \cup {m} \in SUBSET Managers
      BY <1>1, <2>1 DEF Object
    <2> QED BY <1>1, <1>5, <2>2 DEF Share, Object
  <1>6. ASSUME NEW f \in Fields, Remove(f)
        PROVE  obj' \in Object
    BY <1>1, <1>6 DEF Remove, Object, Body
  <1> QED
    BY <1>2, <1>3, <1>4, <1>5, <1>6 DEF Write, Share, Remove

\* Every step keeps the invariant.
LEMMA NextInv == PlanInv /\ [Next]_vars => PlanInv'
  <1> SUFFICES ASSUME PlanInv, [Next]_vars PROVE PlanInv'
    OBVIOUS
  <1>1. CASE UNCHANGED vars
    BY <1>1
    DEF vars, PlanInv, TypeOK, FollowsConfig, BaselineExists, WarningsCurrent, Set,
        Conflicts, Conflict, ExternalChange, Sending, ConfigChanged
  <1>2. CASE Next
    BY <1>2, ReadInv, PlanningInv, ApplyInv, EnvironmentInv DEF Next
  <1> QED BY <1>1, <1>2

\* What a plan sets, ignores and warns of is up to date in every behaviour.
THEOREM PlanInvCorrect == Spec => []PlanInv
  BY InitInv, NextInv, PTL DEF Spec

\* Every variable keeps its type (the records of ModifyPlan, Read and Update).
THEOREM PlanTypeCorrect == Spec => []TypeOK
  <1>1. PlanInv => TypeOK
    BY DEF PlanInv
  <1> QED BY <1>1, PlanInvCorrect, PTL

-----------------------------------------------------------------------------
(* What an apply may do.                                                    *)

\* A forced apply takes only fields that it sends.
LEMMA AppliedTakes ==
    ASSUME NEW o, NEW body, NEW anno, NEW f \in Fields,
           Us \in Applied(o, body, anno).by[f] \ o.by[f]
    PROVE  body[f] # None
  BY DEF Applied

\* ADR-026: Create and Update take ownership of fields of the configuration only.
THEOREM OnlyConfiguredTakenCorrect == Spec => OnlyConfiguredTaken
  <1>1. ASSUME PlanInv, Apply, NEW f \in Fields, Us \in obj'.by[f] \ obj.by[f]
        PROVE  conf.yaml[f] # None
    <2>1. Sent[f] # None
      BY <1>1, AppliedTakes DEF Apply
    <2>2. f \in Set(plan.yaml)
      BY <2>1 DEF Sent, Without, Set
    <2> QED BY <1>1, <2>2 DEF Apply, PlanInv, FollowsConfig, Set
  <1>2. PlanInv /\ [Next]_vars =>
          [Apply => \A f \in Fields :
             Us \in obj'.by[f] \ obj.by[f] => conf.yaml[f] # None]_vars
    BY <1>1
  <1> QED BY <1>2, PlanInvCorrect, PTL DEF Spec, OnlyConfiguredTaken

\* ADR-009: Update undoes nothing that another manager wrote to an ignored field.
THEOREM IgnoredUntouchedCorrect == Spec => IgnoredUntouched
  <1>1. ASSUME PlanInv, Apply, state.exists, NEW f \in conf.ignore,
               obj.by[f] \cap Others # {}
        PROVE  obj'.val[f] = obj.val[f]
    <2>1. f \in Fields
      BY <1>1 DEF PlanInv, TypeOK, Config
    <2>2. Sent[f] = None
      BY <1>1, <2>1 DEF Apply, PlanInv, FollowsConfig, Sent, Without
    <2>3. obj.by[f] \ {Us} # {}
      BY <1>1, ManagerAssumption
    <2>4. Applied(obj, Sent, TRUE).val[f] = obj.val[f]
      BY <2>1, <2>2, <2>3 DEF Applied
    <2> QED BY <1>1, <2>4 DEF Apply
  <1>2. PlanInv /\ [Next]_vars =>
          [Apply /\ state.exists =>
             \A f \in conf.ignore :
                obj.by[f] \cap Others # {} => obj'.val[f] = obj.val[f]]_vars
    BY <1>1
  <1> QED BY <1>2, PlanInvCorrect, PTL DEF Spec, IgnoredUntouched

\* A field another manager has taken since the last apply, or that the user has
\* just added, is in conflict when k8sconnect sends it.
LEMMA TakenIsConflict ==
    ASSUME TypeOK, NEW f \in Fields, f \in Sending, state.base # Empty,
           obj.by[f] # {}, Us \notin obj.by[f],
           state.base[f] = Us \/ (state.base[f] = None /\ ConfigChanged)
    PROVE  f \in Conflicts
  <1> DEFINE manager == Flatten(obj.by[f])
  <1>1. obj.by[f] \in SUBSET Managers
    BY DEF TypeOK, Object
  <1>2. manager \in obj.by[f]
    BY <1>1, FlattenOwner
  <1>3. manager # Us /\ manager # None
    BY <1>1, <1>2, ManagerAssumption DEF Managers
  <1>4. ExternalChange(f, manager)
    BY <1>3 DEF ExternalChange
  <1> HIDE DEF manager
  <1>5. Conflict(f)
    BY <1>3, <1>4 DEF Conflict, manager
  <1> QED BY <1>5 DEF Conflicts

\* ADR-021: no Update takes a field from the managers that have taken it from
\* k8sconnect without a warning in the plan.
THEOREM NoSilentTakeoverCorrect == Spec => NoSilentTakeover
  <1>1. ASSUME PlanInv, Apply, calm.dry, plan.checked, state.base # Empty,
               NEW f \in Fields,
               obj.by[f] # {}, Us \notin obj.by[f], Us \in obj'.by[f],
               state.base[f] = Us \/ (state.base[f] = None /\ ConfigChanged)
        PROVE  f \in plan.warned
    <2>1. Sent[f] # None
      BY <1>1, AppliedTakes DEF Apply
    <2>2. state.exists
      BY <1>1 DEF PlanInv, BaselineExists
    <2>3. plan.yaml[f] # None /\ f \notin plan.ignore
      BY <2>1, <2>2 DEF Sent, Without
    <2>4. f \in Sending
      BY <1>1, <2>3 DEF Apply, PlanInv, FollowsConfig, Sending, Set
    <2>5. f \in Conflicts
      BY <1>1, <2>4, TakenIsConflict DEF PlanInv
    <2> QED BY <1>1, <2>5 DEF Apply, PlanInv, WarningsCurrent
  <1>2. PlanInv /\ [Next]_vars =>
          [Apply /\ calm.dry /\ plan.checked /\ state.base # Empty =>
             \A f \in Fields :
                 /\ obj.by[f] # {} /\ Us \notin obj.by[f] /\ Us \in obj'.by[f]
                 /\ state.base[f] = Us \/ (state.base[f] = None /\ ConfigChanged)
                 => f \in plan.warned]_vars
    BY <1>1
  <1> QED BY <1>2, PlanInvCorrect, PTL DEF Spec, NoSilentTakeover
-----------------------------------------------------------------------------
(* A plan without difference hides nothing.                                 *)

\* A field that has owners has a value.
OwnedHasValue == \A f \in Fields : obj.by[f] # {} => obj.val[f] # None

\* After a refresh that has worked, the state has what the object has.
StateCurrent ==
    /\ pc \in {"planning", "get", "planned"} /\ state.exists
    /\ calm.read /\ ~state.stale
    => state.proj = Projection(obj, OwnedPaths(obj, state.yaml) \ state.ignore)

\* The plan has what the dry run has found, even if it kept the state's, unless
\* that is stale.
PlanPredicts ==
    pc \in {"get", "planned"} =>
        /\ plan.other = conf.other
        /\ calm.read => calm.dry
        /\ plan.known /\ calm.dry /\ (pc = "get" \/ ~state.stale) =>
              plan.proj = Projection(DryRunResult, DryRunPaths)

DriftInv == PlanInv /\ OwnedHasValue /\ StateCurrent /\ PlanPredicts

\* The initial states satisfy the invariant.
LEMMA InitDrift == Init => DriftInv
  <1> SUFFICES ASSUME Init PROVE DriftInv
    OBVIOUS
  <1>1. OwnedHasValue
    BY DEF Init, OwnedHasValue
  <1> QED
    BY <1>1, InitInv DEF Init, DriftInv, StateCurrent, PlanPredicts

\* A forced apply leaves no owner without a value.
LEMMA AppliedOwnedHasValue ==
    ASSUME OwnedHasValue, NEW body, NEW anno, NEW f \in Fields,
           Applied(obj, body, anno).by[f] # {}
    PROVE  Applied(obj, body, anno).val[f] # None
  BY DEF OwnedHasValue, Applied

\* Every step keeps the invariant.
LEMMA NextDrift == DriftInv /\ [Next]_vars => DriftInv'
  <1> SUFFICES ASSUME DriftInv, [Next]_vars PROVE DriftInv'
    OBVIOUS
  <1> USE DEF DriftInv
  <1>1. PlanInv'
    BY NextInv
  <1>2. /\ plan \in Plan /\ state \in State /\ calm \in Calm
        /\ plan' \in Plan /\ state' \in State /\ calm' \in Calm /\ obj \in Object
    BY <1>1 DEF PlanInv, TypeOK
  <1>3. CASE UNCHANGED vars
    BY <1>1, <1>3
    DEF vars, OwnedHasValue, StateCurrent, PlanPredicts, Projection,
        OwnedPaths, Set, DryRunResult, DryRunPaths, Applied, Without
  <1>4. CASE Import
    BY <1>1, <1>4 DEF Import, OwnedHasValue, StateCurrent, PlanPredicts
  <1>5. CASE Refresh
    <2>1. OwnedHasValue' /\ PlanPredicts'
      BY <1>5 DEF Refresh, OwnedHasValue, PlanPredicts
    <2>2. StateCurrent'
      <3>1. CASE state' = state /\ ~state.exists
        BY <3>1 DEF StateCurrent
      <3>2. CASE /\ state' = [state EXCEPT
                        !.proj = Projection(obj, OwnedPaths(obj, state.yaml) \ state.ignore),
                        !.mf = ManagedFields(obj, state.yaml, state.base),
                        !.stale = FALSE]
        <4>1. /\ state'.proj = Projection(obj, OwnedPaths(obj, state.yaml) \ state.ignore)
              /\ state'.yaml = state.yaml /\ state'.ignore = state.ignore
          BY <1>2, <3>2 DEF State
        <4>2. obj' = obj
          BY <1>5 DEF Refresh
        <4> QED BY <4>1, <4>2 DEF StateCurrent, Projection, OwnedPaths, Set
      <3>3. CASE state' = [state EXCEPT !.stale = TRUE]
        BY <1>2, <3>3 DEF StateCurrent, State
      <3> QED BY <1>5, <3>1, <3>2, <3>3 DEF Refresh
    <2> QED BY <1>1, <2>1, <2>2
  <1>6. CASE DryRun
    <2>1. /\ plan'.other = conf.other /\ calm'.dry
          /\ plan'.proj = Projection(DryRunResult, DryRunPaths)
      BY <1>2, <1>6 DEF DryRun, Calm
    <2>2. calm'.read = calm.read
      BY <1>2, <1>6 DEF DryRun, Calm
    <2>3. UNCHANGED <<obj, conf, state>> /\ pc = "planning"
      BY <1>6 DEF DryRun
    <2>4. OwnedHasValue' /\ StateCurrent'
      BY <2>2, <2>3 DEF OwnedHasValue, StateCurrent, Projection, OwnedPaths, Set
    <2>5. PlanPredicts'
      BY <2>1, <2>3
      DEF PlanPredicts, Projection, DryRunResult, DryRunPaths, OwnedPaths, Set,
          Applied, Without
    <2> QED BY <1>1, <2>4, <2>5
  <1>7. CASE PlanBlind
    <2>1. plan'.other = conf.other /\ calm'.dry /\ ~plan'.known /\ calm'.read = calm.read
      BY <1>2, <1>7 DEF PlanBlind, Calm
    <2>2. UNCHANGED <<obj, conf, state>> /\ pc = "planning"
      BY <1>7 DEF PlanBlind
    <2> QED
      BY <1>1, <2>1, <2>2
      DEF OwnedHasValue, StateCurrent, PlanPredicts, Projection, OwnedPaths, Set
  <1>8. CASE PlanGet
    <2>1. UNCHANGED <<obj, conf, state, calm>> /\ pc = "get"
      BY <1>8 DEF PlanGet
    <2>2. /\ plan'.other = plan.other /\ plan'.known = plan.known
          /\ ~state.stale => plan'.proj = plan.proj
      <3>1. ASSUME NEW baseline, NEW checked, Decide(baseline, checked),
                   ~state.stale => baseline = state.proj
            PROVE  /\ plan'.other = plan.other /\ plan'.known = plan.known
                   /\ ~state.stale => plan'.proj = plan.proj
        <4>1. CASE Preserves(baseline)
          <5>1. /\ Preserved.other = plan.other /\ Preserved.known = plan.known
                /\ Preserved.proj = state.proj /\ Preserved \in Plan
            BY <1>2 DEF Preserved, Plan, State
          <5>2. plan' = [Preserved EXCEPT !.checked = checked,
                           !.warned = IF checked THEN Conflicts ELSE {}]
            BY <3>1, <4>1 DEF Decide
          <5> HIDE DEF Preserved
          <5>3. /\ plan'.other = Preserved.other /\ plan'.known = Preserved.known
                /\ plan'.proj = Preserved.proj
            BY <5>1, <5>2 DEF Plan
          <5> QED BY <3>1, <4>1, <5>1, <5>3 DEF Preserves
        <4>2. CASE ~Preserves(baseline)
          <5>1. plan' = [plan EXCEPT !.checked = checked,
                           !.warned = IF checked THEN Conflicts ELSE {}]
            BY <3>1, <4>2 DEF Decide
          <5> QED BY <1>2, <5>1 DEF Plan
        <4> QED BY <4>1, <4>2
      <3> QED BY <1>8, <3>1 DEF PlanGet
    <2>3. OwnedHasValue' /\ StateCurrent'
      BY <2>1 DEF OwnedHasValue, StateCurrent, Projection, OwnedPaths, Set
    <2>4. PlanPredicts'
      <3>1. pc' = "planned"
        BY <1>8 DEF PlanGet
      <3> QED
        BY <2>1, <2>2, <3>1
        DEF PlanPredicts, Projection, DryRunResult, DryRunPaths, OwnedPaths, Set,
            Applied, Without
    <2> QED BY <1>1, <2>3, <2>4
  <1>9. CASE Discard \/ Replan
    <2>1. UNCHANGED <<obj, conf, state>> /\ calm'.read = calm.read
      BY <1>2, <1>9 DEF Discard, Replan, Calm
    <2>2. pc' = "idle" \/ (pc = "planned" /\ pc' = "planning")
      BY <1>9 DEF Discard, Replan
    <2> QED
      BY <1>1, <2>1, <2>2
      DEF OwnedHasValue, StateCurrent, PlanPredicts, Projection, OwnedPaths, Set
  <1>10. CASE Apply
    <2>1. OwnedHasValue'
      BY <1>10, AppliedOwnedHasValue DEF Apply, OwnedHasValue
    <2> QED BY <1>1, <1>10, <2>1 DEF Apply, StateCurrent, PlanPredicts
  <1>11. CASE Save \/ SaveFails \/ Configure
    BY <1>1, <1>11
    DEF Save, SaveFails, Configure, OwnedHasValue, StateCurrent, PlanPredicts
  <1>12. ASSUME Touches, OwnedHasValue' PROVE DriftInv'
    <2>1. ~calm'.read /\ ~calm'.dry
      BY <1>12 DEF Touches
    <2>2. UNCHANGED <<conf, state, plan, pc>>
      BY <1>12 DEF Touches
    <2> QED BY <1>1, <1>12, <2>1, <2>2 DEF StateCurrent, PlanPredicts
  <1>13. ASSUME NEW f \in Fields, NEW m \in Others, NEW v \in Values, Write(m, f, v)
         PROVE  DriftInv'
    <2>1. OwnedHasValue'
      BY <1>2, <1>13, ValueAssumption DEF Write, OwnedHasValue, Object, Body
    <2> QED BY <1>12, <1>13, <2>1 DEF Write
  <1>14. ASSUME NEW f \in Fields, NEW m \in Appliers, Share(m, f)
         PROVE  DriftInv'
    <2>1. OwnedHasValue'
      BY <1>2, <1>14 DEF Share, OwnedHasValue, Object, Body
    <2> QED BY <1>12, <1>14, <2>1 DEF Share
  <1>15. ASSUME NEW f \in Fields, Remove(f)
         PROVE  DriftInv'
    <2>1. OwnedHasValue'
      BY <1>2, <1>15 DEF Remove, OwnedHasValue, Object, Body
    <2> QED BY <1>12, <1>15, <2>1 DEF Remove
  <1> QED
    BY <1>3, <1>4, <1>5, <1>6, <1>7, <1>8, <1>9, <1>10, <1>11, <1>13, <1>14, <1>15
    DEF Next

\* A plan without difference means that the object is as configured: the
\* projection of the state, of the object and of the dry run are one.
LEMMA DriftInvImplies == DriftInv => NoSilentDrift
  <1> SUFFICES ASSUME DriftInv, pc = "planned", state.exists, ~state.stale, calm.read,
                      ~HasDiff, NEW f \in Fields \ conf.ignore
               PROVE  IF conf.yaml[f] # None THEN obj.val[f] = conf.yaml[f]
                      ELSE Us \notin obj.by[f]
    BY DEF NoSilentDrift
  <1> USE DEF DriftInv
  <1>1. /\ plan.known /\ plan.proj = state.proj
        /\ plan.other = state.other /\ plan.ignore = state.ignore
    BY DEF HasDiff
  <1>3. plan.proj[f] = IF f \in DryRunPaths THEN DryRunResult.val[f] ELSE None
    BY <1>1 DEF PlanPredicts, Projection
  <1>4. /\ state.ignore = conf.ignore
        /\ state.proj[f] = IF f \in OwnedPaths(obj, state.yaml) THEN obj.val[f] ELSE None
    <2>1. state.ignore = conf.ignore
      BY <1>1 DEF PlanInv, FollowsConfig
    <2> QED BY <2>1 DEF StateCurrent, Projection
  <1>5. CASE conf.yaml[f] # None
    <2>1. /\ Us \in DryRunResult.by[f] /\ DryRunResult.val[f] = conf.yaml[f]
      BY <1>5 DEF DryRunResult, Applied, Without
    <2>2. f \in DryRunPaths
      BY <2>1 DEF DryRunPaths, OwnedPaths
    <2> QED BY <1>1, <1>3, <1>4, <1>5, <2>1, <2>2
  <1>6. CASE conf.yaml[f] = None
    <2> SUFFICES ASSUME Us \in obj.by[f] PROVE FALSE
      BY <1>6
    <2>1. Us \notin DryRunResult.by[f]
      BY <1>6 DEF DryRunResult, Applied, Without
    <2>2. f \notin DryRunPaths
      BY <1>6, <2>1 DEF DryRunPaths, OwnedPaths, Set
    <2>3. f \in OwnedPaths(obj, state.yaml)
      BY DEF OwnedPaths
    <2>4. obj.val[f] # None
      BY DEF OwnedHasValue
    <2> QED BY <1>1, <1>3, <1>4, <2>2, <2>3, <2>4
  <1> QED BY <1>5, <1>6

\* ADR-012: after a refresh that has worked, a plan shows a difference whenever
\* the object is not as configured.
THEOREM NoSilentDriftCorrect == Spec => []NoSilentDrift
  <1>1. Spec => []DriftInv
    BY InitDrift, NextDrift, PTL DEF Spec
  <1> QED BY <1>1, DriftInvImplies, PTL
-----------------------------------------------------------------------------
(* What the next apply will do, and that one apply is enough.               *)

Planning == pc \in {"planning", "get", "planned"} /\ state.exists

\* The owners that the dry run predicts.
PredictedOwners ==
    LET managed == ManagedFields(DryRunResult, conf.yaml, state.base)
    IN  [f \in Fields |-> IF f \in DryRunPaths /\ managed[f] # None THEN Us ELSE managed[f]]

\* A field that has a value has owners.
ValueHasOwner == \A f \in Fields : obj.val[f] # None => obj.by[f] # {}

\* Where nothing has been applied yet, there is no object.
CreateEmpty ==
    pc \in {"planning", "get", "planned"} /\ ~state.exists => obj.val = Empty

\* What k8sconnect owns after its apply, and has in its baseline, it has sent.
OwnedSent ==
    /\ pc = "saving" => \A f \in Fields : Us \in obj.by[f] => plan.yaml[f] # None
    /\ \A f \in Fields : state.base[f] = Us => state.yaml[f] # None

\* The two maps of a refreshed state fit together.
MapsAgree ==
    Planning /\ ~state.stale =>
        \A f \in Fields \ state.ignore :
            /\ state.mf[f] = Us => state.proj[f] # None
            /\ state.proj[f] # None => state.mf[f] # None
            /\ state.mf[f] \notin {Us, None} => state.yaml[f] # None

OwnersCurrent ==
    Planning /\ calm.read /\ ~state.stale
    => state.mf = ManagedFields(obj, state.yaml, state.base)

\* Before the Get the plan is what the dry run says; afterwards it still
\* predicts the owners of the fields that are not ignored.
PlanFresh ==
    /\ pc \in {"get", "planned", "saving"} => plan.other = conf.other
    /\ pc = "get" =>
          /\ state.exists /\ plan.known /\ plan.yaml = conf.yaml
          /\ calm.dry => plan.mf = PredictedOwners
    /\ pc \in {"planned", "saving"} /\ ~plan.known => plan.yaml = conf.yaml
    /\ pc = "planned" /\ state.exists /\ plan.known /\ calm.dry /\ ~state.stale =>
          \A f \in Fields \ conf.ignore : plan.mf[f] = PredictedOwners[f]

\* The object is what the apply of body has made of it.
Has(body, ignore) ==
    /\ obj.anno
    /\ \A f \in Set(body) \ ignore : obj.val[f] = body[f] /\ Us \in obj.by[f]
    /\ \A f \in Fields : Us \in obj.by[f] => body[f] # None
    /\ \A f \in ignore : Us \in obj.by[f] => obj.by[f] = {Us}

JustApplied == pc = "saving" /\ calm.dry => Has(plan.yaml, plan.ignore)

\* ... and what is then read is what the plan has.
SavePredicted ==
    pc = "saving" /\ calm.dry /\ plan.known /\ ~state.stale /\ plan.yaml = conf.yaml =>
        /\ plan.proj = Projection(obj, OwnedPaths(obj, plan.yaml) \ plan.ignore)
        /\ state.exists =>
              \A f \in Fields \ plan.ignore :
                  ManagedFields(obj, plan.yaml, state.base)[f] = plan.mf[f]

\* Nobody has touched anything since the dry run of the last apply: state,
\* object and configuration are one.
Settled ==
    calm.saved =>
        /\ state.exists /\ state.yaml = conf.yaml
        /\ state.ignore = conf.ignore /\ state.other = conf.other
        /\ Has(conf.yaml, conf.ignore)
        /\ pc \in {"planning", "get", "planned"} => calm.read

\* ... and so are the maps, refreshed or stale, but for an ignored field that a
\* blind Update has removed.
MapsSettled ==
    calm.saved =>
        /\ state.proj = Projection(obj, {f \in Fields : Us \in obj.by[f]} \ state.ignore)
        /\ \A f \in Fields :
              obj.by[f] = {} \/ state.mf[f] \in {None, Flatten(obj.by[f])}

ConvergeInv ==
    /\ DriftInv /\ ValueHasOwner /\ CreateEmpty /\ OwnedSent
    /\ MapsAgree /\ OwnersCurrent /\ PlanFresh
    /\ JustApplied /\ SavePredicted /\ Settled /\ MapsSettled /\ Converges


-----------------------------------------------------------------------------
(* Facts that the steps below share.                                        *)

\* k8sconnect is a manager, no other is, and None is none.
LEMMA UsFacts ==
    /\ Us \in Managers /\ Us # None /\ None \notin Managers
    /\ \A m \in Others : m \in Managers /\ m # Us
    /\ Appliers \subseteq Others
  BY ManagerAssumption DEF Managers, Others

\* A write of another manager.
Touched ==
    \E f \in Fields :
       \/ \E m \in Others, v \in Values : Write(m, f, v)
       \/ \E m \in Appliers : Share(m, f)
       \/ Remove(f)

\* The steps, by name.
LEMMA StepCases ==
    ASSUME [Next]_vars
    PROVE  \/ UNCHANGED vars \/ Import \/ Refresh \/ DryRun \/ PlanBlind \/ PlanGet
           \/ Discard \/ Replan \/ Apply \/ Save \/ SaveFails \/ Configure \/ Touched
  BY DEF Next, Touched

\* Another manager takes fields or shares them, and gives none to k8sconnect.
LEMMA TouchedKeeps ==
    ASSUME TypeOK, ValueHasOwner, Touched
    PROVE  /\ Touches
           /\ ValueHasOwner'
           /\ \A g \in Fields : Us \in obj'.by[g] => Us \in obj.by[g]
  <1>1. obj \in Object
    BY DEF TypeOK
  <1>2. ASSUME NEW f \in Fields, NEW m \in Others, NEW v \in Values, Write(m, f, v),
               NEW g \in Fields
        PROVE  /\ obj'.val[g] # None => obj'.by[g] # {}
               /\ Us \in obj'.by[g] => Us \in obj.by[g]
    BY <1>1, <1>2, UsFacts DEF Write, ValueHasOwner, Object, Body
  <1>3. ASSUME NEW f \in Fields, NEW m \in Appliers, Share(m, f), NEW g \in Fields
        PROVE  /\ obj'.val[g] # None => obj'.by[g] # {}
               /\ Us \in obj'.by[g] => Us \in obj.by[g]
    BY <1>1, <1>3, UsFacts DEF Share, ValueHasOwner, Object, Body
  <1>4. ASSUME NEW f \in Fields, Remove(f), NEW g \in Fields
        PROVE  /\ obj'.val[g] # None => obj'.by[g] # {}
               /\ Us \in obj'.by[g] => Us \in obj.by[g]
    BY <1>1, <1>4 DEF Remove, ValueHasOwner, Object, Body
  <1>5. Touches
    BY DEF Touched, Write, Share, Remove
  <1>6. \A g \in Fields : /\ obj'.val[g] # None => obj'.by[g] # {}
                          /\ Us \in obj'.by[g] => Us \in obj.by[g]
    BY <1>2, <1>3, <1>4 DEF Touched
  <1> QED BY <1>5, <1>6 DEF ValueHasOwner

\* What Create and Update make of a field.
LEMMA ApplyField ==
    ASSUME Apply, NEW f \in Fields
    PROVE  /\ obj'.anno
           /\ Sent[f] # None =>
                /\ obj'.val[f] = Sent[f]
                /\ Us \in obj'.by[f]
                /\ Sent[f] # obj.val[f] => obj'.by[f] = {Us}
           /\ Sent[f] = None =>
                /\ obj'.by[f] = obj.by[f] \ {Us}
                /\ Us \notin obj'.by[f]
                /\ obj'.val[f] = IF obj.by[f] = {Us} THEN None ELSE obj.val[f]
  <1>1. obj' = Applied(obj, Sent, TRUE)
    BY DEF Apply
  <1> QED BY <1>1 DEF Applied

-----------------------------------------------------------------------------
(* The books: values and owners, before and after the first apply.          *)

\* Every step keeps the books of values and owners.
LEMMA BooksNext ==
    ASSUME ConvergeInv, [Next]_vars
    PROVE  (ValueHasOwner /\ CreateEmpty)'
  <1>1. /\ TypeOK /\ ValueHasOwner /\ CreateEmpty
        /\ obj \in Object /\ state \in State
    BY DEF ConvergeInv, DriftInv, PlanInv, TypeOK
  <1>2. CASE UNCHANGED <<obj, state>> /\ pc' \in {pc, "idle", "saving"}
    BY <1>1, <1>2 DEF ValueHasOwner, CreateEmpty
  <1>3. CASE Import
    BY <1>1, <1>3 DEF Import, ValueHasOwner, CreateEmpty
  <1>4. CASE Refresh
    <2>1. state'.exists = state.exists /\ obj' = obj
      BY <1>1, <1>4 DEF Refresh, State
    <2> QED BY <1>1, <1>4, <2>1 DEF Refresh, ValueHasOwner, CreateEmpty
  <1>5. CASE DryRun \/ PlanBlind \/ PlanGet \/ Replan
    BY <1>1, <1>5 DEF DryRun, PlanBlind, PlanGet, Replan, ValueHasOwner, CreateEmpty
  <1>6. CASE Apply
    <2>1. ASSUME NEW f \in Fields, obj'.val[f] # None PROVE obj'.by[f] # {}
      <3>1. CASE Sent[f] # None
        BY <1>6, <3>1, ApplyField
      <3>2. CASE Sent[f] = None
        <4>1. obj.by[f] # {Us} /\ obj.val[f] # None
          BY <1>6, <2>1, <3>2, ApplyField
        <4>2. obj.by[f] # {}
          BY <1>1, <4>1 DEF ValueHasOwner
        <4>3. obj'.by[f] = obj.by[f] \ {Us}
          BY <1>6, <3>2, ApplyField
        <4> QED BY <4>1, <4>2, <4>3
      <3> QED BY <3>1, <3>2
    <2> QED BY <1>6, <2>1 DEF Apply, ValueHasOwner, CreateEmpty
  <1>7. CASE Save
    BY <1>1, <1>7 DEF Save, ValueHasOwner, CreateEmpty
  <1>8. CASE Touched
    BY <1>1, <1>8, TouchedKeeps DEF Touches, CreateEmpty
  <1> QED
    BY <1>2, <1>3, <1>4, <1>5, <1>6, <1>7, <1>8, StepCases
    DEF vars, Discard, SaveFails, Configure

\* What k8sconnect owns after an apply it has sent.
LEMMA OwnedSentNext ==
    ASSUME ConvergeInv, [Next]_vars
    PROVE  OwnedSent'
  <1>1. /\ TypeOK /\ ValueHasOwner /\ OwnedSent /\ BaselineExists
        /\ obj \in Object /\ state \in State
    BY DEF ConvergeInv, DriftInv, PlanInv, TypeOK
  <1>3. CASE UNCHANGED vars
    BY <1>1, <1>3 DEF vars, OwnedSent
  <1>4. CASE Import
    <2>1. state'.base = Empty
      BY <1>1, <1>4 DEF Import, State, BaselineExists
    <2> QED BY <1>4, <2>1, UsFacts DEF Import, OwnedSent, Empty
  <1>5. CASE Refresh
    <2>1. state'.base = state.base /\ state'.yaml = state.yaml
      BY <1>1, <1>5 DEF Refresh, State
    <2> QED BY <1>1, <1>5, <2>1 DEF Refresh, OwnedSent
  <1>6. CASE DryRun \/ PlanBlind \/ PlanGet \/ Discard \/ Replan \/ SaveFails \/ Configure
    <2>1. state' = state /\ pc' # "saving"
      <3>1. CASE DryRun \/ PlanBlind \/ PlanGet \/ Replan
        BY <3>1 DEF DryRun, PlanBlind, PlanGet, Replan
      <3>2. CASE Discard \/ SaveFails \/ Configure
        BY <3>2 DEF Discard, SaveFails, Configure
      <3> QED BY <1>6, <3>1, <3>2
    <2> QED BY <1>1, <2>1 DEF OwnedSent
  <1>7. CASE Apply
    <2>1. ASSUME NEW f \in Fields, Us \in obj'.by[f] PROVE plan.yaml[f] # None
      <3>1. Sent[f] # None
        BY <1>7, <2>1, ApplyField
      <3> QED BY <3>1 DEF Sent, Without
    <2> QED BY <1>1, <1>7, <2>1 DEF Apply, OwnedSent
  <1>8. CASE Save
    <2>1. PICK b \in Baselines(plan.ignore) : state'.base = b /\ state'.yaml = plan.yaml
      BY <1>8 DEF Save
    <2>2. ASSUME NEW f \in Fields, b[f] = Us PROVE plan.yaml[f] # None
      <3>1. b[f] \in FirstManagers(obj.by[f])
        BY <2>1, <2>2, UsFacts DEF Baselines
      <3>2. Us \in obj.by[f]
        BY <2>2, <3>1 DEF FirstManagers
      <3> QED BY <1>1, <1>8, <3>2 DEF Save, OwnedSent
    <2> QED BY <1>8, <2>1, <2>2 DEF Save, OwnedSent
  <1>9. CASE Touched
    BY <1>1, <1>9, TouchedKeeps DEF Touches, OwnedSent
  <1> QED BY <1>3, <1>4, <1>5, <1>6, <1>7, <1>8, <1>9, StepCases

-----------------------------------------------------------------------------
(* The two maps of a refreshed state.                                       *)

\* What Read computes fits together.
LEMMA ReadAgrees ==
    ASSUME obj \in Object, OwnedHasValue, ValueHasOwner, OwnedSent,
           NEW f \in Fields \ state.ignore,
           NEW proj, proj = Projection(obj, OwnedPaths(obj, state.yaml) \ state.ignore),
           NEW mf, mf = ManagedFields(obj, state.yaml, state.base)
    PROVE  /\ mf[f] = Us => proj[f] # None
           /\ proj[f] # None => mf[f] # None
           /\ mf[f] \notin {Us, None} => state.yaml[f] # None
  <1> DEFINE paths == OwnedPaths(obj, state.yaml)
             relevant == f \in RelevantPaths(obj, state.yaml, state.base)
  <1>1. /\ proj[f] = IF f \in paths THEN obj.val[f] ELSE None
        /\ mf[f] = IF relevant THEN Flatten(obj.by[f]) ELSE None
    BY DEF Projection, ManagedFields
  <1>2. /\ relevant <=> Us \in obj.by[f] \/ state.base[f] = Us \/ state.yaml[f] # None
        /\ Us \in obj.by[f] => f \in paths
        /\ f \in paths => Us \in obj.by[f] \/ state.yaml[f] # None
    BY DEF RelevantPaths, OwnedPaths, Set
  <1>3. /\ Us \in obj.by[f] => Flatten(obj.by[f]) = Us
        /\ obj.by[f] # {} => Flatten(obj.by[f]) \in obj.by[f] /\ Flatten(obj.by[f]) # None
        /\ obj.by[f] = {} => Flatten(obj.by[f]) = None
    <2>1. obj.by[f] \in SUBSET Managers
      BY DEF Object
    <2>2. /\ obj.by[f] = {} => Flatten(obj.by[f]) = None
          /\ Us \in obj.by[f] => Flatten(obj.by[f]) = Us
      BY DEF Flatten
    <2> QED BY <2>1, <2>2, FlattenOwner, UsFacts
  <1>4. /\ obj.val[f] # None <=> obj.by[f] # {}
        /\ state.base[f] = Us => state.yaml[f] # None
    BY DEF OwnedHasValue, ValueHasOwner, OwnedSent
  <1> HIDE DEF paths, relevant
  <1>5. mf[f] = Us => proj[f] # None
    BY <1>1, <1>2, <1>3, <1>4, UsFacts
  <1>6. proj[f] # None => mf[f] # None
    BY <1>1, <1>2, <1>3, <1>4, UsFacts
  <1>7. mf[f] \notin {Us, None} => state.yaml[f] # None
    BY <1>1, <1>2, <1>3, <1>4, UsFacts
  <1> QED BY <1>5, <1>6, <1>7

\* Every step leaves the maps of a refreshed state in agreement.
LEMMA MapsNext ==
    ASSUME ConvergeInv, [Next]_vars
    PROVE  (MapsAgree /\ OwnersCurrent)'
  <1>1. /\ TypeOK /\ ValueHasOwner /\ OwnedSent /\ OwnedHasValue
        /\ MapsAgree /\ OwnersCurrent
        /\ obj \in Object /\ state \in State /\ calm \in Calm
    BY DEF ConvergeInv, DriftInv, PlanInv, TypeOK
  <1>2. CASE pc' \in {"idle", "saving"}
    BY <1>2 DEF MapsAgree, OwnersCurrent, Planning
  <1>3. CASE /\ state' = state /\ (Planning' => Planning)
             /\ \/ ~calm'.read
                \/ calm'.read = calm.read /\ obj' = obj
    <2>1. MapsAgree'
      BY <1>1, <1>3 DEF MapsAgree
    <2>2. OwnersCurrent'
      <3>1. CASE ~calm'.read
        BY <3>1 DEF OwnersCurrent
      <3>2. CASE obj' = obj /\ calm'.read = calm.read
        BY <1>1, <1>3, <3>2 DEF OwnersCurrent, ManagedFields, RelevantPaths
      <3> QED BY <1>3, <3>1, <3>2
    <2> QED BY <2>1, <2>2
  <1>4. CASE Refresh
    <2>1. CASE ~state'.exists \/ state'.stale
      BY <2>1 DEF MapsAgree, OwnersCurrent, Planning
    <2>2. CASE state' = [state EXCEPT
                 !.proj = Projection(obj, OwnedPaths(obj, state.yaml) \ state.ignore),
                 !.mf = ManagedFields(obj, state.yaml, state.base),
                 !.stale = FALSE]
      <3>1. /\ state'.proj = Projection(obj, OwnedPaths(obj, state.yaml) \ state.ignore)
            /\ state'.mf = ManagedFields(obj, state.yaml, state.base)
            /\ UNCHANGED <<state.yaml, state.ignore, state.base, obj>>
        BY <1>1, <1>4, <2>2 DEF Refresh, State
      <3>2. MapsAgree'
        <4>1. ASSUME NEW f \in Fields \ state.ignore
              PROVE  /\ state'.mf[f] = Us => state'.proj[f] # None
                     /\ state'.proj[f] # None => state'.mf[f] # None
                     /\ state'.mf[f] \notin {Us, None} => state.yaml[f] # None
          BY <1>1, <3>1, ReadAgrees
        <4> QED BY <3>1, <4>1 DEF MapsAgree
      <3>3. OwnersCurrent'
        BY <3>1 DEF OwnersCurrent, ManagedFields, RelevantPaths
      <3> QED BY <3>2, <3>3
    <2>3. CASE state' = [state EXCEPT !.stale = TRUE]
      <3>1. state'.stale
        BY <1>1, <2>3 DEF State
      <3> QED BY <2>1, <3>1
    <2> QED BY <1>4, <2>1, <2>2, <2>3 DEF Refresh
  <1>5. CASE DryRun \/ PlanBlind \/ PlanGet \/ Replan
    <2>1. /\ state' = state /\ obj' = obj /\ (Planning' => Planning)
      BY <1>5 DEF DryRun, PlanBlind, PlanGet, Replan, Planning
    <2>2. calm'.read = calm.read
      BY <1>1, <1>5 DEF DryRun, PlanBlind, PlanGet, Replan, Calm
    <2> QED BY <1>3, <2>1, <2>2
  <1>6. CASE Touched
    <2>1. Touches
      BY <1>1, <1>6, TouchedKeeps
    <2>2. state' = state /\ (Planning' => Planning) /\ ~calm'.read
      BY <2>1 DEF Touches, Planning
    <2> QED BY <1>3, <2>2
  <1>7. CASE UNCHANGED vars
    BY <1>3, <1>7 DEF vars, Planning
  <1>8. CASE Import \/ Discard \/ Configure
    BY <1>2, <1>8 DEF Import, Discard, Configure
  <1>9. CASE Apply \/ Save \/ SaveFails
    BY <1>2, <1>9 DEF Apply, Save, SaveFails
  <1> QED BY <1>4, <1>5, <1>6, <1>7, <1>8, <1>9, StepCases

-----------------------------------------------------------------------------
(* What the dry run predicts.                                               *)

\* What the dry run sends of a field.
DrySent(f) == IF f \in conf.ignore THEN None ELSE conf.yaml[f]

\* The dry run, field by field: what is sent is k8sconnect's and is projected;
\* of what is not sent, the owners that remain are shown where the field counts.
LEMMA DryRunField ==
    ASSUME NEW f \in Fields
    PROVE  /\ DrySent(f) # None =>
                /\ f \in DryRunPaths /\ DryRunResult.val[f] = conf.yaml[f]
                /\ Us \in DryRunResult.by[f]
                /\ PredictedOwners[f] = Us
           /\ DrySent(f) = None =>
                /\ f \notin DryRunPaths
                /\ DryRunResult.by[f] = obj.by[f] \ {Us}
                /\ PredictedOwners[f] =
                     IF state.base[f] = Us \/ conf.yaml[f] # None
                     THEN Flatten(obj.by[f] \ {Us}) ELSE None
  <1> DEFINE sent == Without(conf.yaml, conf.ignore)
             managed == ManagedFields(DryRunResult, conf.yaml, state.base)
  <1>1. sent[f] = DrySent(f)
    BY DEF Without, DrySent
  <1>2. PredictedOwners[f] =
          IF f \in DryRunPaths /\ managed[f] # None THEN Us ELSE managed[f]
    BY DEF PredictedOwners
  <1>3. managed[f] = IF \/ Us \in DryRunResult.by[f] \/ state.base[f] = Us
                        \/ conf.yaml[f] # None
                     THEN Flatten(DryRunResult.by[f]) ELSE None
    BY DEF ManagedFields, RelevantPaths
  <1>4. DryRunResult = Applied(obj, sent, FALSE)
    BY DEF DryRunResult
  <1> HIDE DEF sent, managed
  <1>5. CASE DrySent(f) # None
    <2>1. /\ f \notin conf.ignore /\ sent[f] = conf.yaml[f] /\ conf.yaml[f] # None
      BY <1>1, <1>5 DEF DrySent
    <2>2. Us \in DryRunResult.by[f] /\ DryRunResult.val[f] = conf.yaml[f]
      BY <1>4, <2>1 DEF Applied
    <2>3. f \in DryRunPaths
      BY <2>1, <2>2 DEF DryRunPaths, OwnedPaths
    <2>4. Flatten(DryRunResult.by[f]) = Us
      BY <2>2 DEF Flatten
    <2> QED BY <1>2, <1>3, <1>5, <2>2, <2>3, <2>4
  <1>6. CASE DrySent(f) = None
    <2>1. DryRunResult.by[f] = obj.by[f] \ {Us}
      BY <1>1, <1>4, <1>6 DEF Applied
    <2>2. f \in conf.ignore \/ f \notin Set(conf.yaml)
      BY <1>6 DEF DrySent, Set
    <2>3. f \notin DryRunPaths
      BY <2>1, <2>2 DEF DryRunPaths, OwnedPaths
    <2> QED BY <1>2, <1>3, <1>6, <2>1, <2>3
  <1> QED BY <1>5, <1>6

\* Nothing but the object, the configuration and the state counts.
LEMMA PredictedSame ==
    ASSUME UNCHANGED <<obj, conf, state>>
    PROVE  PredictedOwners' = PredictedOwners
  BY DEF PredictedOwners, ManagedFields, RelevantPaths, DryRunResult, DryRunPaths,
         OwnedPaths, Set, Applied, Without

\* Where the state's managed_fields are kept without a transition, they name
\* the managers that the dry run predicts: a field that one of the two maps
\* lacks would be missing in the projections, too.
LEMMA KeptOwners ==
    ASSUME ConvergeInv, pc = "get", calm.dry, ~state.stale, Preserves(state.proj),
           ~Transition(state.mf, plan.mf), state.ignore = plan.ignore,
           NEW f \in Fields \ conf.ignore
    PROVE  state.mf[f] = PredictedOwners[f]
  <1>1. /\ plan.mf = PredictedOwners /\ plan.known /\ state.exists
        /\ plan.yaml = conf.yaml
    BY DEF ConvergeInv, PlanFresh
  <1>2. plan.ignore = conf.ignore
    BY DEF ConvergeInv, DriftInv, PlanInv, FollowsConfig
  <1>3. /\ state.proj[f] = plan.proj[f]
        /\ state.yaml[f] # None <=> conf.yaml[f] # None
    BY <1>1 DEF Preserves, Set
  <1>4. plan.proj[f] = IF f \in DryRunPaths THEN DryRunResult.val[f] ELSE None
    BY <1>1 DEF ConvergeInv, DriftInv, PlanPredicts, Projection
  <1>5. /\ state.mf[f] = Us => state.proj[f] # None
        /\ state.proj[f] # None => state.mf[f] # None
        /\ state.mf[f] \notin {Us, None} => state.yaml[f] # None
    BY <1>1, <1>2 DEF ConvergeInv, MapsAgree, Planning
  <1>6. state.base[f] = Us => state.yaml[f] # None
    BY DEF ConvergeInv, OwnedSent
  <1>7. state.mf[f] # None /\ PredictedOwners[f] # None
          => state.mf[f] = PredictedOwners[f]
    BY <1>1 DEF Transition
  <1>8. CASE conf.yaml[f] # None
    <2>1. DrySent(f) # None
      BY <1>8 DEF DrySent
    <2>2. /\ PredictedOwners[f] = Us /\ plan.proj[f] # None
      BY <1>4, <1>8, <2>1, DryRunField
    <2> QED BY <1>3, <1>5, <1>7, <2>2, UsFacts
  <1>9. CASE conf.yaml[f] = None
    <2>1. DrySent(f) = None
      BY <1>9 DEF DrySent
    <2>2. /\ PredictedOwners[f] = None /\ plan.proj[f] = None
      BY <1>3, <1>4, <1>6, <1>9, <2>1, DryRunField
    <2> QED BY <1>3, <1>5, <1>9, <2>2, UsFacts
  <1> QED BY <1>8, <1>9

\* What ModifyPlan decides, attribute by attribute.
LEMMA Decided ==
    ASSUME TypeOK, NEW baseline, NEW checked, Decide(baseline, checked)
    PROVE  /\ plan'.other = plan.other /\ plan'.known = plan.known
           /\ plan'.ignore = plan.ignore
           /\ Preserves(baseline) =>
                /\ plan'.yaml = state.yaml /\ plan'.proj = state.proj
                /\ plan'.mf = IF \/ state.ignore # plan.ignore
                                 \/ Transition(state.mf, plan.mf)
                              THEN plan.mf ELSE state.mf
           /\ ~Preserves(baseline) =>
                plan'.yaml = plan.yaml /\ plan'.proj = plan.proj /\ plan'.mf = plan.mf
  <1>1. plan \in Plan
    BY DEF TypeOK
  <1>2. CASE Preserves(baseline)
    <2>1. plan' = [Preserved EXCEPT !.checked = checked,
                     !.warned = IF checked THEN Conflicts ELSE {}]
      BY <1>2 DEF Decide
    <2>2. /\ Preserved.other = plan.other /\ Preserved.known = plan.known
          /\ Preserved.ignore = plan.ignore
          /\ Preserved.yaml = state.yaml /\ Preserved.proj = state.proj
          /\ Preserved.mf = IF \/ state.ignore # plan.ignore
                               \/ Transition(state.mf, plan.mf)
                            THEN plan.mf ELSE state.mf
          /\ DOMAIN Preserved = DOMAIN plan
      BY <1>1 DEF Preserved, Plan
    <2> HIDE DEF Preserved
    <2>3. /\ plan'.other = Preserved.other /\ plan'.known = Preserved.known
          /\ plan'.ignore = Preserved.ignore /\ plan'.yaml = Preserved.yaml
          /\ plan'.proj = Preserved.proj /\ plan'.mf = Preserved.mf
      BY <1>1, <2>1, <2>2 DEF Plan
    <2> QED BY <1>2, <2>2, <2>3
  <1>3. CASE ~Preserves(baseline)
    <2>1. plan' = [plan EXCEPT !.checked = checked,
                     !.warned = IF checked THEN Conflicts ELSE {}]
      BY <1>3 DEF Decide
    <2> QED BY <1>1, <1>3, <2>1 DEF Plan
  <1> QED BY <1>2, <1>3

\* Every step keeps what a plan says of the owners true.
LEMMA FreshNext ==
    ASSUME ConvergeInv, [Next]_vars
    PROVE  PlanFresh'
  <1>1. /\ TypeOK /\ PlanFresh /\ PlanPredicts /\ ValueHasOwner /\ FollowsConfig
        /\ state \in State /\ plan \in Plan /\ calm \in Calm
    BY DEF ConvergeInv, DriftInv, PlanInv, TypeOK
  <1>2. CASE pc' \in {"idle", "planning"}
    BY <1>2 DEF PlanFresh
  <1>3. CASE UNCHANGED vars
    BY <1>1, <1>3, PredictedSame DEF vars, PlanFresh
  <1>4. CASE DryRun
    <2> DEFINE managed == ManagedFields(DryRunResult, conf.yaml, state.base)
    <2>1. /\ plan'.other = conf.other /\ plan'.known /\ plan'.yaml = conf.yaml
          /\ plan'.mf = [f \in Fields |->
                           IF f \in DryRunPaths /\ managed[f] # None THEN Us ELSE managed[f]]
          /\ pc' = IF state.exists THEN "get" ELSE "planned"
          /\ UNCHANGED <<obj, conf, state>>
      BY <1>4 DEF DryRun
    <2>2. plan'.mf = PredictedOwners'
      BY <2>1, PredictedSame DEF PredictedOwners
    <2> QED BY <2>1, <2>2 DEF PlanFresh
  <1>5. CASE PlanBlind
    BY <1>5 DEF PlanBlind, PlanFresh
  <1>6. CASE PlanGet
    <2>1. /\ UNCHANGED <<obj, conf, state, calm>> /\ pc = "get" /\ pc' = "planned"
      BY <1>6 DEF PlanGet
    <2>2. PICK baseline, checked : /\ Decide(baseline, checked)
                                   /\ ~state.stale => baseline = state.proj
      BY <1>6 DEF PlanGet
    <2>3. /\ plan'.other = conf.other /\ plan'.known
      BY <1>1, <2>1, <2>2, Decided DEF PlanFresh
    <2>4. ASSUME calm.dry, ~state.stale, NEW f \in Fields \ conf.ignore
          PROVE  plan'.mf[f] = PredictedOwners[f]
      <3>1. plan.mf = PredictedOwners
        BY <1>1, <2>1, <2>4 DEF PlanFresh
      <3>2. CASE plan'.mf = plan.mf
        BY <3>1, <3>2
      <3>3. CASE /\ Preserves(state.proj) /\ plan'.mf = state.mf
                 /\ state.ignore = plan.ignore /\ ~Transition(state.mf, plan.mf)
        BY <2>1, <2>4, <3>3, KeptOwners
      <3> QED BY <1>1, <2>2, <2>4, <3>2, <3>3, Decided
    <2> QED BY <2>1, <2>3, <2>4, PredictedSame DEF PlanFresh
  <1>7. CASE Apply
    BY <1>1, <1>7 DEF Apply, PlanFresh
  <1>8. CASE Touched
    <2>1. Touches
      BY <1>1, <1>8, TouchedKeeps
    <2>2. UNCHANGED <<conf, state, plan, pc>> /\ ~calm'.dry
      BY <2>1 DEF Touches
    <2> QED BY <1>1, <2>2 DEF PlanFresh
  <1>9. CASE Import \/ Refresh \/ Discard \/ Replan \/ Save \/ SaveFails \/ Configure
    <2>1. CASE Import \/ Configure
      BY <1>2, <2>1 DEF Import, Configure
    <2>2. CASE Refresh \/ Discard \/ Replan
      BY <1>2, <2>2 DEF Refresh, Discard, Replan
    <2>3. CASE Save \/ SaveFails
      BY <1>2, <2>3 DEF Save, SaveFails
    <2> QED BY <1>9, <2>1, <2>2, <2>3
  <1> QED BY <1>3, <1>4, <1>5, <1>6, <1>7, <1>8, <1>9, StepCases

-----------------------------------------------------------------------------
(* What the apply makes of the object is what was predicted.                *)

\* Create and Update leave the object with what the plan has.
LEMMA ApplyHas ==
    ASSUME ConvergeInv, Apply
    PROVE  Has(plan.yaml, plan.ignore)'
  <1>1. /\ plan \in Plan /\ pc = "planned" /\ plan' = plan
        /\ ValueHasOwner /\ CreateEmpty /\ OwnedHasValue /\ obj \in Object
    BY DEF ConvergeInv, DriftInv, PlanInv, TypeOK, Apply
  <1>2. plan.ignore \subseteq Fields
    BY <1>1 DEF Plan
  <1>3. ASSUME NEW f \in Fields
        PROVE  /\ Sent[f] = IF state.exists /\ f \in plan.ignore THEN None ELSE plan.yaml[f]
               /\ f \in plan.ignore /\ Us \in obj'.by[f] => obj'.by[f] = {Us}
               /\ Us \in obj'.by[f] => Sent[f] # None
    <2>1. Sent[f] = IF state.exists /\ f \in plan.ignore THEN None ELSE plan.yaml[f]
      BY DEF Sent, Without
    <2>2. Us \in obj'.by[f] => Sent[f] # None
      BY ApplyField
    <2>3. ASSUME f \in plan.ignore, Us \in obj'.by[f] PROVE obj'.by[f] = {Us}
      <3>1. Sent[f] # None /\ ~state.exists
        BY <2>1, <2>2, <2>3
      <3>2. obj.val[f] = None
        BY <1>1, <3>1 DEF CreateEmpty, Empty
      <3> QED BY <3>1, <3>2, ApplyField
    <2> QED BY <2>1, <2>2, <2>3
  <1>4. obj'.anno
    BY DEF Apply, Applied
  <1>5. ASSUME NEW f \in Set(plan.yaml) \ plan.ignore
        PROVE  obj'.val[f] = plan.yaml[f] /\ Us \in obj'.by[f]
    BY <1>3, ApplyField DEF Set
  <1>6. \A f \in Fields : Us \in obj'.by[f] => plan.yaml[f] # None
    BY <1>3
  <1>7. \A f \in plan.ignore : Us \in obj'.by[f] => obj'.by[f] = {Us}
    BY <1>2, <1>3
  <1> QED BY <1>1, <1>4, <1>5, <1>6, <1>7 DEF Has, Set

\* ... and what is read after it is what the dry run has predicted.
LEMMA ApplyPredicted ==
    ASSUME ConvergeInv, Apply
    PROVE  SavePredicted'
  <1> SUFFICES ASSUME calm.dry, plan.known, ~state.stale, plan.yaml = conf.yaml
      PROVE  /\ plan.proj = Projection(obj', OwnedPaths(obj', plan.yaml) \ plan.ignore)
             /\ state.exists =>
                   \A f \in Fields \ plan.ignore :
                       ManagedFields(obj', plan.yaml, state.base)[f] = plan.mf[f]
    <2>1. UNCHANGED <<conf, state, plan, calm>>
      BY DEF Apply
    <2> QED
      BY <2>1 DEF SavePredicted, Projection, OwnedPaths, Set, ManagedFields, RelevantPaths
  <1>1. /\ pc = "planned" /\ plan.ignore = conf.ignore
        /\ plan.proj = Projection(DryRunResult, DryRunPaths)
    BY DEF ConvergeInv, DriftInv, PlanInv, FollowsConfig, PlanPredicts, Apply
  <1>2. OwnedPaths(obj', plan.yaml) = {f \in Fields : Us \in obj'.by[f]}
    BY DEF Apply, Applied, OwnedPaths
  <1>3. ASSUME NEW f \in Fields \ conf.ignore
        PROVE  /\ Sent[f] = DrySent(f) /\ DrySent(f) = conf.yaml[f]
               /\ DrySent(f) # None =>
                    /\ Us \in obj'.by[f] /\ obj'.val[f] = conf.yaml[f]
               /\ DrySent(f) = None => obj'.by[f] = obj.by[f] \ {Us}
    <2>1. Sent[f] = DrySent(f) /\ DrySent(f) = conf.yaml[f]
      BY <1>1 DEF Sent, Without, DrySent
    <2> QED BY <2>1, ApplyField
  <1>4. ASSUME NEW f \in Fields
        PROVE  plan.proj[f] =
                 Projection(obj', OwnedPaths(obj', plan.yaml) \ plan.ignore)[f]
    <2> DEFINE projected == Projection(obj', OwnedPaths(obj', plan.yaml) \ plan.ignore)
    <2>1. /\ plan.proj[f] = IF f \in DryRunPaths THEN DryRunResult.val[f] ELSE None
          /\ projected[f] = IF Us \in obj'.by[f] /\ f \notin conf.ignore
                            THEN obj'.val[f] ELSE None
      BY <1>1, <1>2 DEF Projection
    <2> HIDE DEF projected
    <2>2. CASE f \in conf.ignore
      <3>1. f \notin DryRunPaths
        BY <2>2 DEF DryRunPaths
      <3>2. plan.proj[f] = projected[f]
        BY <2>1, <2>2, <3>1
      <3> QED BY <3>2 DEF projected
    <2>3. CASE f \notin conf.ignore
      <3>1. plan.proj[f] = projected[f]
        BY <1>3, <2>1, <2>3, DryRunField
      <3> QED BY <3>1 DEF projected
    <2> QED BY <2>2, <2>3
  <1>5. ASSUME state.exists, NEW f \in Fields \ plan.ignore
        PROVE  ManagedFields(obj', plan.yaml, state.base)[f] = plan.mf[f]
    <2>1. plan.mf[f] = PredictedOwners[f]
      BY <1>1, <1>5 DEF ConvergeInv, PlanFresh
    <2>2. ManagedFields(obj', plan.yaml, state.base)[f] =
            IF \/ Us \in obj'.by[f] \/ state.base[f] = Us \/ conf.yaml[f] # None
            THEN Flatten(obj'.by[f]) ELSE None
      BY DEF ManagedFields, RelevantPaths
    <2>3. CASE DrySent(f) # None
      <3>1. Flatten(obj'.by[f]) = Us
        BY <1>1, <1>3, <1>5, <2>3 DEF Flatten
      <3> QED BY <1>1, <1>3, <1>5, <2>1, <2>2, <2>3, <3>1, DryRunField
    <2>4. CASE DrySent(f) = None
      <3>1. obj'.by[f] = obj.by[f] \ {Us}
        BY <1>1, <1>3, <1>5, <2>4
      <3>2. conf.yaml[f] = None
        BY <1>1, <1>3, <1>5, <2>4
      <3>3. PredictedOwners[f] =
              IF state.base[f] = Us THEN Flatten(obj.by[f] \ {Us}) ELSE None
        BY <2>4, <3>2, DryRunField
      <3> QED BY <2>1, <2>2, <3>1, <3>2, <3>3
    <2> QED BY <2>3, <2>4
  <1>6. plan.proj = Projection(obj', OwnedPaths(obj', plan.yaml) \ plan.ignore)
    BY <1>1, <1>4 DEF Projection
  <1> QED BY <1>5, <1>6

\* What an apply has made stays until it is saved or somebody writes.
LEMMA AppliedNext ==
    ASSUME ConvergeInv, [Next]_vars
    PROVE  (JustApplied /\ SavePredicted)'
  <1>1. TypeOK /\ ValueHasOwner /\ JustApplied /\ SavePredicted
    BY DEF ConvergeInv, DriftInv, PlanInv
  <1>2. CASE pc' # "saving"
    BY <1>2 DEF JustApplied, SavePredicted
  <1>3. CASE UNCHANGED vars
    BY <1>1, <1>3
    DEF vars, JustApplied, SavePredicted, Has, Set, Projection, OwnedPaths,
        ManagedFields, RelevantPaths
  <1>4. CASE Apply
    BY <1>4, ApplyHas, ApplyPredicted DEF JustApplied
  <1>5. CASE Touched
    <2>1. ~calm'.dry
      BY <1>1, <1>5, TouchedKeeps DEF Touches
    <2> QED BY <2>1 DEF JustApplied, SavePredicted
  <1>6. CASE Import \/ Refresh \/ Discard \/ Replan
    BY <1>2, <1>6 DEF Import, Refresh, Discard, Replan
  <1>7. CASE DryRun \/ PlanBlind \/ PlanGet
    BY <1>2, <1>7 DEF DryRun, PlanBlind, PlanGet
  <1>8. CASE Save \/ SaveFails \/ Configure
    BY <1>2, <1>8 DEF Save, SaveFails, Configure
  <1> QED BY <1>3, <1>4, <1>5, <1>6, <1>7, <1>8, StepCases

-----------------------------------------------------------------------------
(* One apply is enough.                                                     *)

\* Nothing but the user and other managers ends the agreement.
LEMMA SettledNext ==
    ASSUME ConvergeInv, [Next]_vars
    PROVE  Settled'
  <1>1. /\ TypeOK /\ ValueHasOwner /\ FollowsConfig /\ PlanFresh /\ JustApplied
        /\ Settled /\ Converges
        /\ state \in State /\ plan \in Plan /\ calm \in Calm
    BY DEF ConvergeInv, DriftInv, PlanInv, TypeOK
  <1>2. CASE ~calm'.saved
    BY <1>2 DEF Settled
  <1>3. ASSUME /\ calm'.saved = calm.saved /\ UNCHANGED <<obj, conf>>
               /\ UNCHANGED <<state.exists, state.yaml, state.ignore, state.other>>
               /\ \/ calm'.read
                  \/ calm'.read = calm.read /\ pc \in {"planning", "get", "planned"}
                  \/ pc' \in {"idle", "saving"}
        PROVE  Settled'
    BY <1>1, <1>3 DEF Settled, Has, Set
  <1>4. CASE UNCHANGED vars
    BY <1>1, <1>4 DEF vars, Settled, Has, Set
  <1>5. CASE Import
    BY <1>1, <1>5 DEF Import, Settled
  <1>6. CASE Refresh
    <2>1. UNCHANGED <<state.exists, state.yaml, state.ignore, state.other>>
      BY <1>1, <1>6 DEF Refresh, State
    <2>2. calm'.read /\ calm'.saved = calm.saved
      BY <1>1, <1>6 DEF Refresh, Calm
    <2> QED BY <1>3, <1>6, <2>1, <2>2 DEF Refresh
  <1>7. CASE DryRun \/ PlanBlind \/ PlanGet \/ Replan
    <2>1. /\ UNCHANGED <<obj, conf, state>> /\ pc \in {"planning", "get", "planned"}
      BY <1>7 DEF DryRun, PlanBlind, PlanGet, Replan
    <2>2. calm'.read = calm.read /\ calm'.saved = calm.saved
      BY <1>1, <1>7 DEF DryRun, PlanBlind, PlanGet, Replan, Calm
    <2> QED BY <1>3, <2>1, <2>2
  <1>8. CASE Discard \/ SaveFails
    BY <1>3, <1>8 DEF Discard, SaveFails
  <1>9. CASE Apply
    <2> SUFFICES ASSUME calm.saved PROVE Settled'
      BY <1>9 DEF Apply, Settled
    <2>1. /\ pc = "planned" /\ state.exists /\ ~plan.known
      BY <1>1, <1>9 DEF Apply, Settled, Converges
    <2>2. plan.yaml = conf.yaml /\ plan.ignore = conf.ignore
      BY <1>1, <2>1 DEF PlanFresh, FollowsConfig
    <2>3. Has(conf.yaml, conf.ignore)'
      <3>1. Has(plan.yaml, plan.ignore)'
        BY <1>9, ApplyHas
      <3>2. plan' = plan /\ conf' = conf
        BY <1>9 DEF Apply
      <3> QED BY <2>2, <3>1, <3>2 DEF Has, Set
    <2> QED BY <1>1, <1>9, <2>3 DEF Apply, Settled
  <1>10. CASE Save
    <2> SUFFICES ASSUME calm'.saved PROVE Settled'
      BY <1>2
    <2>1. calm.dry /\ plan.yaml = conf.yaml
      BY <1>10 DEF Save
    <2>2. /\ pc = "saving" /\ pc' = "idle" /\ UNCHANGED <<obj, conf>>
          /\ state'.exists /\ state'.yaml = plan.yaml
          /\ state'.ignore = plan.ignore /\ state'.other = plan.other
      BY <1>10 DEF Save
    <2>3. plan.other = conf.other /\ plan.ignore = conf.ignore
      BY <1>1, <2>2 DEF PlanFresh, FollowsConfig
    <2>4. Has(conf.yaml, conf.ignore)
      BY <1>1, <2>1, <2>2, <2>3 DEF JustApplied
    <2>5. Has(conf.yaml, conf.ignore)'
      BY <2>2, <2>4 DEF Has, Set
    <2> QED BY <2>1, <2>2, <2>3, <2>5 DEF Settled
  <1>11. CASE Configure
    <2>1. ~calm'.saved
      BY <1>1, <1>11 DEF Configure, Calm
    <2> QED BY <1>2, <2>1
  <1>12. CASE Touched
    <2>1. ~calm'.saved
      BY <1>1, <1>12, TouchedKeeps DEF Touches
    <2> QED BY <1>2, <2>1
  <1> QED
    BY <1>4, <1>5, <1>6, <1>7, <1>8, <1>9, <1>10, <1>11, <1>12, StepCases

\* What is read of an object in its maps agrees with it.
LEMMA ReadSettled ==
    ASSUME obj.anno, NEW body, NEW base, NEW f \in Fields
    PROVE  /\ OwnedPaths(obj, body) = {g \in Fields : Us \in obj.by[g]}
           /\ ManagedFields(obj, body, base)[f] \in {None, Flatten(obj.by[f])}
  BY DEF OwnedPaths, ManagedFields

\* A blind Update of an object that is as configured changes ignored fields only,
\* which k8sconnect gives up.
LEMMA BlindApply ==
    ASSUME ConvergeInv, Apply, calm.saved, NEW f \in Fields
    PROVE  IF f \in state.ignore
           THEN obj'.by[f] \in {{}, obj.by[f]} /\ Us \notin obj'.by[f]
           ELSE obj'.by[f] = obj.by[f] /\ obj'.val[f] = obj.val[f]
  <1>1. /\ state.exists /\ Has(conf.yaml, conf.ignore) /\ state.ignore = conf.ignore
        /\ pc = "planned" /\ ~plan.known
    BY DEF ConvergeInv, Settled, Converges, Apply
  <1>2. plan.yaml = conf.yaml /\ plan.ignore = conf.ignore
    BY <1>1 DEF ConvergeInv, PlanFresh, DriftInv, PlanInv, FollowsConfig
  <1>3. Sent[f] = DrySent(f) /\ obj' = Applied(obj, Sent, TRUE)
    BY <1>1, <1>2 DEF Sent, Without, DrySent, Apply
  <1>4. CASE DrySent(f) # None
    <2>1. f \notin conf.ignore /\ DrySent(f) = conf.yaml[f]
      BY <1>4 DEF DrySent
    <2>2. obj.val[f] = conf.yaml[f] /\ Us \in obj.by[f]
      BY <1>1, <1>4, <2>1 DEF Has, Set
    <2>3. obj'.val[f] = Sent[f] /\ obj'.by[f] = obj.by[f] \cup {Us}
      BY <1>3, <1>4, <2>1, <2>2 DEF Applied
    <2>4. obj'.by[f] = obj.by[f]
      BY <2>2, <2>3
    <2> QED BY <1>1, <1>3, <2>1, <2>2, <2>3, <2>4
  <1>5. CASE DrySent(f) = None
    <2>1. /\ obj'.by[f] = obj.by[f] \ {Us}
          /\ obj'.val[f] = IF obj.by[f] = {Us} THEN None ELSE obj.val[f]
      BY <1>3, <1>5, ApplyField
    <2>2. CASE f \in conf.ignore
      <3>1. Us \in obj.by[f] => obj.by[f] = {Us}
        BY <1>1, <2>2 DEF Has
      <3>2. obj'.by[f] \in {{}, obj.by[f]} /\ Us \notin obj'.by[f]
        BY <2>1, <3>1
      <3> QED BY <1>1, <2>2, <3>2
    <2>3. CASE f \notin conf.ignore
      <3>1. conf.yaml[f] = None
        BY <1>5, <2>3 DEF DrySent
      <3>2. Us \notin obj.by[f]
        BY <1>1, <3>1 DEF Has
      <3>3. obj'.by[f] = obj.by[f] /\ obj'.val[f] = obj.val[f]
        BY <2>1, <3>2
      <3> QED BY <1>1, <2>3, <3>3
    <2> QED BY <2>2, <2>3
  <1> QED BY <1>4, <1>5

\* The maps of the state stay what they are, or are read again.
LEMMA MapsSettledNext ==
    ASSUME ConvergeInv, [Next]_vars
    PROVE  MapsSettled'
  <1>1. /\ TypeOK /\ ValueHasOwner /\ MapsSettled /\ Settled
        /\ state \in State /\ calm \in Calm
    BY DEF ConvergeInv, DriftInv, PlanInv, TypeOK
  <1>2. CASE ~calm'.saved
    BY <1>2 DEF MapsSettled
  <1>3. ASSUME UNCHANGED <<obj, state>>, calm'.saved = calm.saved
        PROVE  MapsSettled'
    BY <1>1, <1>3 DEF MapsSettled, Projection
  <1>4. CASE UNCHANGED vars
    BY <1>3, <1>4 DEF vars
  <1>5. CASE Import
    BY <1>1, <1>5 DEF Import, MapsSettled, Settled
  <1>6. CASE Refresh
    <2> SUFFICES ASSUME calm.saved, calm'.saved PROVE MapsSettled'
      BY <1>1, <1>6 DEF Refresh, Calm, MapsSettled
    <2>1. obj' = obj /\ obj.anno /\ state.exists
      BY <1>1, <1>6 DEF Refresh, Settled, Has
    <2>2. CASE state' = [state EXCEPT
                 !.proj = Projection(obj, OwnedPaths(obj, state.yaml) \ state.ignore),
                 !.mf = ManagedFields(obj, state.yaml, state.base),
                 !.stale = FALSE]
      <3>1. /\ state'.proj = Projection(obj, OwnedPaths(obj, state.yaml) \ state.ignore)
            /\ state'.mf = ManagedFields(obj, state.yaml, state.base)
            /\ state'.ignore = state.ignore
        BY <1>1, <2>2 DEF State
      <3>2. /\ state'.proj =
                  Projection(obj, {g \in Fields : Us \in obj.by[g]} \ state.ignore)
            /\ \A f \in Fields : state'.mf[f] \in {None, Flatten(obj.by[f])}
        BY <2>1, <3>1, ReadSettled DEF Projection, OwnedPaths
      <3> QED BY <2>1, <3>1, <3>2 DEF MapsSettled, Projection
    <2>3. CASE state' = [state EXCEPT !.stale = TRUE]
      <3>1. UNCHANGED <<state.proj, state.mf, state.ignore>>
        BY <1>1, <2>3 DEF State
      <3> QED BY <1>1, <2>1, <3>1 DEF MapsSettled, Projection
    <2> QED BY <1>6, <2>1, <2>2, <2>3 DEF Refresh
  <1>7. CASE DryRun \/ PlanBlind \/ PlanGet \/ Replan
    <2>1. UNCHANGED <<obj, state>>
      BY <1>7 DEF DryRun, PlanBlind, PlanGet, Replan
    <2>2. calm'.saved = calm.saved
      BY <1>1, <1>7 DEF DryRun, PlanBlind, PlanGet, Replan, Calm
    <2> QED BY <1>3, <2>1, <2>2
  <1>8. CASE Discard \/ SaveFails
    BY <1>3, <1>8 DEF Discard, SaveFails
  <1>9. CASE Apply
    <2> SUFFICES ASSUME calm.saved PROVE MapsSettled'
      BY <1>9 DEF Apply, MapsSettled
    <2>1. state' = state
      BY <1>9 DEF Apply
    <2>2. ASSUME NEW f \in Fields
          PROVE  /\ Projection(obj', {g \in Fields : Us \in obj'.by[g]} \ state.ignore)[f]
                      = Projection(obj, {g \in Fields : Us \in obj.by[g]} \ state.ignore)[f]
                 /\ obj'.by[f] = {} \/ state.mf[f] \in {None, Flatten(obj'.by[f])}
      <3>1. obj'.by[f] = {} \/ obj'.by[f] = obj.by[f]
        BY <1>9, BlindApply
      <3>2. obj.by[f] = {} \/ state.mf[f] \in {None, Flatten(obj.by[f])}
        BY <1>1 DEF MapsSettled
      <3> QED BY <1>9, <3>1, <3>2, BlindApply DEF Projection
    <2>3. Projection(obj', {g \in Fields : Us \in obj'.by[g]} \ state.ignore)
            = Projection(obj, {g \in Fields : Us \in obj.by[g]} \ state.ignore)
      BY <2>2 DEF Projection
    <2> QED BY <1>1, <2>1, <2>2, <2>3 DEF MapsSettled
  <1>10. CASE Save
    <2> SUFFICES ASSUME calm'.saved PROVE MapsSettled'
      BY <1>2
    <2>1. /\ state'.proj = Projection(obj, OwnedPaths(obj, plan.yaml) \ plan.ignore)
          /\ state'.mf = ManagedFields(obj, plan.yaml, state.base)
          /\ state'.ignore = plan.ignore /\ obj' = obj
      BY <1>10 DEF Save
    <2>2. obj.anno
      BY <1>10 DEF Save, ConvergeInv, JustApplied, Has
    <2>3. /\ state'.proj =
                Projection(obj, {g \in Fields : Us \in obj.by[g]} \ plan.ignore)
          /\ \A f \in Fields : state'.mf[f] \in {None, Flatten(obj.by[f])}
      BY <2>1, <2>2, ReadSettled DEF Projection, OwnedPaths
    <2> QED BY <2>1, <2>3 DEF MapsSettled, Projection
  <1>11. CASE Configure
    <2>1. ~calm'.saved
      BY <1>1, <1>11 DEF Configure, Calm
    <2> QED BY <1>2, <2>1
  <1>12. CASE Touched
    <2>1. ~calm'.saved
      BY <1>1, <1>12, TouchedKeeps DEF Touches
    <2> QED BY <1>2, <2>1
  <1> QED
    BY <1>4, <1>5, <1>6, <1>7, <1>8, <1>9, <1>10, <1>11, <1>12, StepCases

\* The dry run of an object that is as configured finds what the state has, and
\* what is read for a stale one.
LEMMA NothingToDo ==
    ASSUME ConvergeInv, calm.saved, pc = "get"
    PROVE  /\ plan.yaml = state.yaml /\ plan.other = state.other
           /\ plan.ignore = state.ignore
           /\ Preserves(state.proj) /\ Preserves(Projection(obj, Set(plan.proj)))
           /\ ~Transition(state.mf, plan.mf)
  <1>1. /\ state.exists /\ state.yaml = conf.yaml
        /\ state.ignore = conf.ignore /\ state.other = conf.other
        /\ Has(conf.yaml, conf.ignore) /\ calm.read
    BY DEF ConvergeInv, Settled
  <1>2. /\ calm.dry /\ plan.other = conf.other
        /\ plan.known /\ plan.yaml = conf.yaml /\ plan.mf = PredictedOwners
    BY <1>1 DEF ConvergeInv, DriftInv, PlanPredicts, PlanFresh
  <1>3. plan.ignore = conf.ignore /\ conf.ignore \subseteq Fields
    BY DEF ConvergeInv, DriftInv, PlanInv, FollowsConfig, TypeOK, Config
  <1>5. /\ state.proj = Projection(obj, {f \in Fields : Us \in obj.by[f]} \ state.ignore)
        /\ \A f \in Fields :
              obj.by[f] = {} \/ state.mf[f] \in {None, Flatten(obj.by[f])}
    BY DEF ConvergeInv, MapsSettled
  <1>6. plan.proj = Projection(DryRunResult, DryRunPaths)
    BY <1>2 DEF ConvergeInv, DriftInv, PlanPredicts
  <1>8. ASSUME NEW f \in Fields
        PROVE  /\ f \notin conf.ignore /\ conf.yaml[f] # None =>
                    Us \in obj.by[f] /\ obj.val[f] = conf.yaml[f]
               /\ conf.yaml[f] = None => Us \notin obj.by[f]
               /\ f \in conf.ignore /\ Us \in obj.by[f] => obj.by[f] = {Us}
               /\ state.base[f] = Us => conf.yaml[f] # None
    BY <1>1 DEF Has, Set, ConvergeInv, OwnedSent
  <1>9. ASSUME NEW f \in Fields PROVE state.proj[f] = plan.proj[f]
    <2>1. /\ plan.proj[f] = IF f \in DryRunPaths THEN DryRunResult.val[f] ELSE None
          /\ state.proj[f] = IF Us \in obj.by[f] /\ f \notin conf.ignore
                             THEN obj.val[f] ELSE None
      BY <1>1, <1>5, <1>6 DEF Projection
    <2>2. CASE DrySent(f) # None
      BY <1>8, <2>1, <2>2, DryRunField DEF DrySent
    <2>3. CASE DrySent(f) = None
      BY <1>8, <2>1, <2>3, DryRunField DEF DrySent
    <2> QED BY <2>2, <2>3
  <1>10. Preserves(state.proj) /\ Preserves(Projection(obj, Set(plan.proj)))
    <2>1. state.proj = plan.proj
      BY <1>5, <1>6, <1>9 DEF Projection
    <2>2. ASSUME NEW f \in Fields
          PROVE  Projection(obj, Set(plan.proj))[f] = plan.proj[f]
      BY <1>5, <2>1 DEF Projection, Set
    <2>3. Projection(obj, Set(plan.proj)) = plan.proj
      BY <1>6, <2>2 DEF Projection
    <2> QED BY <1>1, <1>2, <2>1, <2>3 DEF Preserves
  <1>11. ASSUME NEW f \in Fields, state.mf[f] # None, PredictedOwners[f] # None
         PROVE  state.mf[f] = PredictedOwners[f]
    <2>1. state.mf[f] = Flatten(obj.by[f])
      <3>1. obj.by[f] # {}
        <4>1. CASE DrySent(f) # None
          BY <1>8, <4>1 DEF DrySent
        <4>2. CASE DrySent(f) = None
          <5>1. Flatten(obj.by[f] \ {Us}) # None
            BY <1>11, <4>2, DryRunField
          <5> QED BY <5>1 DEF Flatten
        <4> QED BY <4>1, <4>2
      <3> QED BY <1>5, <1>11, <3>1
    <2>2. CASE DrySent(f) # None
      <3>1. Us \in obj.by[f]
        BY <1>8, <2>2 DEF DrySent
      <3> QED BY <2>1, <2>2, <3>1, DryRunField DEF Flatten
    <2>3. CASE DrySent(f) = None
      <3>1. PredictedOwners[f] = Flatten(obj.by[f] \ {Us})
        BY <1>11, <2>3, DryRunField
      <3>2. Us \notin obj.by[f]
        <4>1. CASE conf.yaml[f] = None
          BY <1>8, <4>1
        <4>2. CASE conf.yaml[f] # None
          <5>1. f \in conf.ignore
            BY <2>3, <4>2 DEF DrySent
          <5>2. obj.by[f] # {Us}
            BY <1>11, <3>1 DEF Flatten
          <5> QED BY <1>8, <5>1, <5>2
        <4> QED BY <4>1, <4>2
      <3>3. obj.by[f] \ {Us} = obj.by[f]
        BY <3>2
      <3> QED BY <2>1, <3>1, <3>3
    <2> QED BY <2>2, <2>3
  <1>12. ~Transition(state.mf, plan.mf)
    BY <1>2, <1>11 DEF Transition
  <1> QED BY <1>1, <1>2, <1>3, <1>10, <1>12

\* ModifyPlan finds no difference where there is nothing to do.
LEMMA ConvergesNext ==
    ASSUME ConvergeInv, [Next]_vars
    PROVE  Converges'
  <1>1. /\ TypeOK /\ ValueHasOwner /\ Settled /\ Converges
        /\ state \in State /\ plan \in Plan /\ calm \in Calm
    BY DEF ConvergeInv, DriftInv, PlanInv, TypeOK
  <1>2. CASE pc' # "planned" \/ ~calm'.saved \/ ~plan'.known
    BY <1>2 DEF Converges
  <1>3. CASE UNCHANGED vars
    BY <1>1, <1>3 DEF vars, Converges, HasDiff
  <1>4. CASE DryRun
    <2>1. calm'.saved = calm.saved
      BY <1>1, <1>4 DEF DryRun, Calm
    <2>2. ~calm.saved \/ pc' = "get"
      BY <1>1, <1>4 DEF DryRun, Settled
    <2> QED BY <1>2, <2>1, <2>2
  <1>5. CASE PlanBlind
    BY <1>2, <1>5 DEF PlanBlind
  <1>6. CASE PlanGet
    <2> SUFFICES ASSUME calm.saved, plan'.known PROVE ~HasDiff'
      BY <1>6 DEF PlanGet, Converges
    <2>1. pc = "get" /\ UNCHANGED <<obj, conf, state, calm>>
      BY <1>6 DEF PlanGet
    <2>2. /\ plan.other = state.other /\ plan.ignore = state.ignore
          /\ ~Transition(state.mf, plan.mf)
      BY <2>1, NothingToDo
    <2>3. PICK baseline, checked : Decide(baseline, checked) /\ Preserves(baseline)
      BY <1>6, <2>1, NothingToDo DEF PlanGet
    <2>4. /\ plan'.other = state.other /\ plan'.ignore = state.ignore
          /\ plan'.yaml = state.yaml /\ plan'.proj = state.proj /\ plan'.mf = state.mf
      BY <1>1, <2>2, <2>3, Decided
    <2> QED BY <2>1, <2>4 DEF HasDiff
  <1>7. CASE Touched
    <2>1. ~calm'.saved
      BY <1>1, <1>7, TouchedKeeps DEF Touches
    <2> QED BY <1>2, <2>1
  <1>8. CASE Import \/ Refresh \/ Discard \/ Replan
    BY <1>2, <1>8 DEF Import, Refresh, Discard, Replan
  <1>9. CASE Apply \/ Save \/ SaveFails
    BY <1>2, <1>9 DEF Apply, Save, SaveFails
  <1>10. CASE Configure
    BY <1>2, <1>10 DEF Configure
  <1> QED BY <1>3, <1>4, <1>5, <1>6, <1>7, <1>8, <1>9, <1>10, StepCases

\* The initial states satisfy the invariant.
LEMMA InitConverge == Init => ConvergeInv
  <1> SUFFICES ASSUME Init PROVE ConvergeInv
    OBVIOUS
  <1>1. pc = "idle" /\ state = NoState /\ ~calm.saved
    BY DEF Init
  <1>2. ValueHasOwner
    BY DEF Init, ValueHasOwner
  <1>3. OwnedSent
    BY <1>1, UsFacts DEF NoState, Empty, OwnedSent
  <1>4. CreateEmpty /\ MapsAgree /\ OwnersCurrent /\ PlanFresh
    BY <1>1 DEF CreateEmpty, MapsAgree, OwnersCurrent, PlanFresh, Planning
  <1>5. JustApplied /\ SavePredicted /\ Settled /\ MapsSettled /\ Converges
    BY <1>1 DEF JustApplied, SavePredicted, Settled, MapsSettled, Converges
  <1> QED BY <1>2, <1>3, <1>4, <1>5, InitDrift DEF ConvergeInv

\* Every step keeps the invariant.
LEMMA NextConverge == ConvergeInv /\ [Next]_vars => ConvergeInv'
  <1> SUFFICES ASSUME ConvergeInv, [Next]_vars PROVE ConvergeInv'
    OBVIOUS
  <1>1. DriftInv'
    BY NextDrift DEF ConvergeInv
  <1> QED
    BY <1>1, BooksNext, OwnedSentNext, MapsNext, FreshNext, AppliedNext, SettledNext,
       MapsSettledNext, ConvergesNext
    DEF ConvergeInv

\* The invariant holds in every behaviour.
LEMMA ConvergeInvCorrect == Spec => []ConvergeInv
  BY InitConverge, NextConverge, PTL DEF Spec

\* One apply is enough: as long as nobody touches the object or the
\* configuration, the next plan has no difference.
THEOREM ConvergesCorrect == Spec => []Converges
  <1>1. ConvergeInv => Converges
    BY DEF ConvergeInv
  <1> QED BY <1>1, ConvergeInvCorrect, PTL

\* ADR-012: what Create and Update return is what the plan has predicted.
THEOREM PlanKeptCorrect == Spec => PlanKept
  <1>1. ASSUME ConvergeInv, Save, calm.dry, plan.known, ~state.stale,
               plan.yaml = conf.yaml
        PROVE  /\ state'.proj = plan.proj
               /\ state.exists =>
                     \A f \in Fields \ plan.ignore : state'.mf[f] = plan.mf[f]
    <2>1. /\ pc = "saving"
          /\ state'.proj = Projection(obj, OwnedPaths(obj, plan.yaml) \ plan.ignore)
          /\ state'.mf = ManagedFields(obj, plan.yaml, state.base)
      BY <1>1 DEF Save
    <2> QED BY <1>1, <2>1 DEF ConvergeInv, SavePredicted
  <1>2. ConvergeInv /\ [Next]_vars =>
          [Save /\ calm.dry /\ plan.known /\ ~state.stale /\ plan.yaml = conf.yaml =>
             /\ state'.proj = plan.proj
             /\ state.exists =>
                   \A f \in Fields \ plan.ignore : state'.mf[f] = plan.mf[f]]_vars
    BY <1>1
  <1> QED BY <1>2, ConvergeInvCorrect, PTL DEF Spec, PlanKept
=============================================================================
