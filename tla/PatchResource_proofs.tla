------------------------- MODULE PatchResource_proofs -------------------------
(***************************************************************************)
(* Proofs about PatchResource, for every set of patches, fields, values,    *)
(* managers and faults.                                                     *)
(*                                                                          *)
(* Good says of each patch what its state promises between two handlers     *)
(* and what its handler relies on between its write and its last read; it   *)
(* is about one patch at a time, and whatever another patch or manager      *)
(* does takes calm and quiet away.  OwnInv says who may own a field,        *)
(* Planning what a plan has compared, and KeptInv what it predicts.         *)
(***************************************************************************)
EXTENDS PatchResource, TLAPS

Pcs == {"idle", "create", "createBack", "read", "readBack", "update", "updateBack"}

\* An object has every value of a content.
Has(o, body) == \A f \in Set(body) : o.val[f] = body[f]

\* A handler works for an id of its own or for the one in the state.
Session(p) ==
    /\ st[p].exists => st[p].id \in Ids
    /\ pc[p] \in {"create", "createBack"} => mem[p].id \in Ids
    /\ pc[p] \notin {"create", "createBack"} => mem[p].id = None
    /\ pc[p] \in {"read", "readBack", "update", "updateBack"} => st[p].exists

\* After its write and until somebody else's, a handler finds what it has sent,
\* and what the patch owned in the answer of the Patch API.
Landed(p) ==
    quiet[p] =>
        /\ pc[p] \in {"createBack", "updateBack"} => Has(obj, plan[p].body)
        /\ pc[p] = "createBack" => mem[p].seen = Own(obj, mem[p].id)
        /\ pc[p] = "readBack" =>
              /\ Has(obj, st[p].body)
              /\ st[p].kind = "raw" => mem[p].seen = Own(obj, st[p].id)

\* The state of p becomes s.
Stores(p, s) == st' = [st EXCEPT ![p] = s]

\* A state is in step with an object: values and owners agree.
Matches(o, s) ==
    /\ Has(o, s.body)
    /\ s.mf = Own(o, s.id)

\* Between two handlers a calm state is in step with the target.
InStep(p) == pc[p] = "idle" /\ st[p].exists /\ calm[p] => Matches(obj, st[p])

Good(p) == Session(p) /\ Landed(p) /\ InStep(p)

PatchInv == TypeOK /\ \A p \in Patches : Good(p)

\* What a step leaves to a patch that has no part in it.
Untouched(q) ==
    /\ pc'[q] = pc[q] /\ mem'[q] = mem[q] /\ plan'[q].body = plan[q].body
    /\ quiet'[q] => quiet[q] /\ obj' = obj
    /\ calm'[q] => calm[q] /\ obj' = obj

-----------------------------------------------------------------------------
(* Types of the operators.                                                  *)

\* Fields without a value, and a target that is not there.
LEMMA EmptyType == Empty \in Body /\ NoObj \in Object
<1>1. Empty \in Body
  BY DEF Empty, Body
<1>2. QED
  BY <1>1 DEF NoObj, Object

\* The values that stand for no state, no plan and an idle handler.
LEMMA NoneTypes == NoState \in State /\ NoPlan \in Plan /\ NoMem \in Locals
<1>1. Null \in Projections /\ Null.tag = "null"
  BY EmptyType DEF Null, Projections
<1>2. NoState \in State
  BY <1>1, EmptyType DEF NoState, State, AllKinds
<1>3. NoPlan \in Plan
  BY <1>1, EmptyType DEF NoPlan, Plan, AllKinds
<1>4. QED
  BY <1>2, <1>3 DEF NoMem, Locals

\* A forced apply makes an object of an object: it is live, has the values of
\* the body, and new owners are the manager's only.
LEMMA AppliedEffect ==
    ASSUME NEW o \in Object, NEW m \in Managers, NEW body \in Body
    PROVE  /\ Applied(o, m, body) \in Object
           /\ Applied(o, m, body).live
           /\ \A f \in Set(body) : Applied(o, m, body).val[f] = body[f]
           /\ \A f \in Fields : Applied(o, m, body).by[f] \subseteq o.by[f] \cup {m}
<1> DEFINE val == [f \in Fields |-> IF body[f] # None THEN body[f]
                                    ELSE IF o.by[f] = {m} THEN None ELSE o.val[f]]
           by == [f \in Fields |-> IF body[f] = None THEN o.by[f] \ {m}
                                   ELSE IF body[f] = o.val[f] THEN o.by[f] \cup {m}
                                   ELSE {m}]
           a == [o EXCEPT !.live = TRUE, !.val = val, !.by = by]
<1>1. Applied(o, m, body) = a
  BY DEF Applied
<1>2. \A f \in Fields : body[f] \in Values \cup {None} /\ o.val[f] \in Values \cup {None}
  BY DEF Object, Body
<1>3. \A f \in Fields : o.by[f] \in SUBSET Managers
  BY DEF Object
<1>4. val \in Body
  BY <1>2 DEF Body
<1>5. by \in [Fields -> SUBSET Managers]
  BY <1>3
<1>6. \A f \in Set(body) : val[f] = body[f]
  BY DEF Set
<1>7. \A f \in Fields : by[f] \subseteq o.by[f] \cup {m}
  OBVIOUS
<1> HIDE DEF val, by
<1>8. a \in Object /\ a.live /\ a.val = val /\ a.by = by
  BY <1>4, <1>5 DEF Object
<1>9. QED
  BY <1>1, <1>6, <1>7, <1>8

\* The same of the Patch API, which leaves alone whether the object is live.
LEMMA MergedEffect ==
    ASSUME NEW o \in Object, NEW m \in Managers, NEW body \in Body
    PROVE  /\ Merged(o, m, body) \in Object
           /\ Merged(o, m, body).live = o.live
           /\ \A f \in Set(body) : Merged(o, m, body).val[f] = body[f]
           /\ \A f \in Fields : Merged(o, m, body).by[f] \subseteq o.by[f] \cup {m}
<1> DEFINE changed == {f \in Set(body) : body[f] # o.val[f]}
           val == [f \in Fields |-> IF f \in changed THEN body[f] ELSE o.val[f]]
           by == [f \in Fields |-> IF f \in changed THEN {m} ELSE o.by[f]]
           a == [o EXCEPT !.val = val, !.by = by]
<1>1. Merged(o, m, body) = a
  BY DEF Merged
<1>2. \A f \in Fields : body[f] \in Values \cup {None} /\ o.val[f] \in Values \cup {None}
  BY DEF Object, Body
<1>3. \A f \in Fields : o.by[f] \in SUBSET Managers
  BY DEF Object
<1>4. val \in Body
  BY <1>2 DEF Body
<1>5. by \in [Fields -> SUBSET Managers]
  BY <1>3
<1>6. \A f \in Set(body) : val[f] = body[f]
  BY DEF Set
<1>7. \A f \in Fields : by[f] \subseteq o.by[f] \cup {m}
  OBVIOUS
<1> HIDE DEF val, by
<1>8. a \in Object /\ a.live = o.live /\ a.val = val /\ a.by = by
  BY <1>4, <1>5 DEF Object
<1>9. QED
  BY <1>1, <1>6, <1>7, <1>8

\* Whatever its kind, a patch leaves its values in the object, and no id but its
\* own owns more than before.
LEMMA PatchedEffect ==
    ASSUME NEW o \in Object, NEW id \in Ids, NEW kind \in AllKinds, NEW body \in Body
    PROVE  /\ Patched(o, id, kind, body) \in Object
           /\ o.live => Patched(o, id, kind, body).live
           /\ kind = "ssa" => Patched(o, id, kind, body).live
           /\ Has(Patched(o, id, kind, body), body)
           /\ \A j : j # id => Own(Patched(o, id, kind, body), j) \subseteq Own(o, j)
<1> DEFINE a == Patched(o, id, kind, body)
<1>1. <<id, "ssa">> \in Managers /\ <<id, "raw">> \in Managers
  BY DEF Managers, PatchManagers, AllKinds
<1>2. \E m \in {<<id, "ssa">>, <<id, "raw">>} :
        /\ a \in Object
        /\ o.live => a.live
        /\ kind = "ssa" => a.live
        /\ \A f \in Set(body) : a.val[f] = body[f]
        /\ \A f \in Fields : a.by[f] \subseteq o.by[f] \cup {m}
  <2>1. CASE kind = "ssa"
    BY <1>1, <2>1, AppliedEffect DEF Patched
  <2>2. CASE kind # "ssa"
    BY <1>1, <2>2, MergedEffect DEF Patched
  <2>3. QED
    BY <2>1, <2>2
<1> HIDE DEF a
<1>3. ASSUME NEW j, j # id PROVE Own(a, j) \subseteq Own(o, j)
  <2>1. PICK m \in {<<id, "ssa">>, <<id, "raw">>} : \A f \in Fields : a.by[f] \subseteq o.by[f] \cup {m}
    BY <1>2
  <2>2. m \notin {j} \X AllKinds
    BY <1>3, <2>1
  <2>3. QED
    BY <2>1, <2>2 DEF Own
<1>4. QED
  BY <1>2, <1>3 DEF a, Has

\* What a patch owns is a set of fields, and a projection is a body.
LEMMA OwnType == ASSUME NEW o, NEW id PROVE Own(o, id) \in SUBSET Fields
BY DEF Own

LEMMA ProjectionType ==
    ASSUME NEW o \in Object, NEW id PROVE Projection(o, id) \in Body
<1>1. \A f \in Fields : o.val[f] \in Values \cup {None}
  BY DEF Object, Body
<1>2. QED
  BY <1>1 DEF Projection, Body

\* What a failed apply leaves is an object.
LEMMA LeftByErrorType ==
    ASSUME TypeOK, NEW id \in Ids, NEW kind \in AllKinds, NEW body \in Body,
           NEW o \in LeftByError(id, kind, body)
    PROVE  /\ o \in Object
           /\ o = obj \/ (obj.live /\ o = Patched(obj, id, kind, body))
<1>1. obj \in Object
  BY DEF TypeOK
<1>2. o = obj \/ (obj.live /\ o = Patched(obj, id, kind, body))
  BY DEF LeftByError
<1>3. QED
  BY <1>1, <1>2, PatchedEffect

\* The attributes of a configuration, a state and a plan.
LEMMA FieldTypes ==
    ASSUME TypeOK, NEW p \in Patches
    PROVE  /\ conf[p].kind \in AllKinds /\ conf[p].body \in Body /\ conf[p].other \in BOOLEAN
           /\ st[p].kind \in AllKinds /\ st[p].body \in Body /\ st[p].mf \in SUBSET Fields
           /\ plan[p].kind \in AllKinds /\ plan[p].body \in Body /\ plan[p].mf \in SUBSET Fields
           /\ mem[p].seen \in SUBSET Fields
           /\ st[p].proj \in Projections /\ calm[p] \in BOOLEAN /\ quiet[p] \in BOOLEAN
<1>1. conf[p] \in Config /\ st[p] \in State /\ plan[p] \in Plan /\ mem[p] \in Locals
  BY DEF TypeOK
<1>2. conf[p].kind \in AllKinds /\ conf[p].body \in Body /\ conf[p].other \in BOOLEAN
  BY <1>1, KindAssumption DEF Config
<1>3. st[p].kind \in AllKinds /\ st[p].body \in Body /\ st[p].mf \in SUBSET Fields
      /\ st[p].proj \in Projections
  BY <1>1 DEF State
<1>4. plan[p].kind \in AllKinds /\ plan[p].body \in Body /\ plan[p].mf \in SUBSET Fields
  BY <1>1 DEF Plan
<1>5. mem[p].seen \in SUBSET Fields
  BY <1>1 DEF Locals
<1>6. QED
  BY <1>2, <1>3, <1>4, <1>5 DEF TypeOK

\* A success leaves a state with the content and the kind of the plan.
LEMMA SavedType ==
    ASSUME TypeOK, NEW p \in Patches, NEW id \in Ids, NEW mf \in SUBSET Fields
    PROVE  /\ Saved(p, id, mf) \in State
           /\ Saved(p, id, mf).id = id /\ Saved(p, id, mf).mf = mf
           /\ Saved(p, id, mf).body = plan[p].body /\ Saved(p, id, mf).kind = plan[p].kind
<1> DEFINE n == plan[p]
           proj == IF n.proj.tag = "unknown" THEN Null ELSE n.proj
           tainted == ~st[p].exists /\ (n.proj.tag = "unknown" \/ (n.mfKnown /\ n.mf # mf))
<1>1. n \in Plan
  BY DEF TypeOK
<1>2. n.kind \in AllKinds /\ n.body \in Body /\ n.other \in BOOLEAN /\ n.proj \in Projections
  BY <1>1 DEF Plan
<1>3. Null \in Projections /\ Null.tag = "null"
  BY EmptyType DEF Null, Projections
<1>4. proj \in {x \in Projections : x.tag # "unknown"}
  BY <1>2, <1>3
<1>5. tainted \in BOOLEAN
  OBVIOUS
<1>6. Saved(p, id, mf) =
        [exists |-> TRUE, id |-> id, kind |-> n.kind, body |-> n.body, other |-> n.other,
         proj |-> proj, mf |-> mf, tainted |-> tainted]
  BY DEF Saved
<1> HIDE DEF proj, tainted
<1>7. QED
  BY <1>2, <1>4, <1>5, <1>6 DEF State

\* A planned state is a plan.
LEMMA PlannedType ==
    ASSUME TypeOK, NEW p \in Patches, NEW proj \in Projections, NEW mf \in SUBSET Fields,
           NEW mfKnown \in BOOLEAN
    PROVE  Planned(p, proj, mf, mfKnown) \in Plan
<1>1. st[p] \in State /\ calm[p] \in BOOLEAN
  BY DEF TypeOK
<1>2. st[p].proj \in Projections /\ st[p].kind \in AllKinds /\ st[p].body \in Body
      /\ st[p].mf \in SUBSET Fields
  BY <1>1 DEF State
<1>3. [exists |-> TRUE, kind |-> conf[p].kind, body |-> conf[p].body, other |-> conf[p].other,
       proj |-> proj, mf |-> mf, mfKnown |-> mfKnown, sound |-> TRUE] \in Plan
  BY FieldTypes DEF Plan
<1>4. [exists |-> TRUE, kind |-> st[p].kind, body |-> st[p].body, other |-> conf[p].other,
       proj |-> st[p].proj, mf |-> st[p].mf, mfKnown |-> TRUE, sound |-> calm[p]] \in Plan
  BY <1>1, <1>2, FieldTypes DEF Plan
<1>5. QED
  BY <1>3, <1>4 DEF Planned

-----------------------------------------------------------------------------
(* What the steps of a handler change.                                      *)

\* Another patch learns at most that its prediction is out of date.
LEMMA PlanOutdated ==
    ASSUME NEW n \in Plan, NEW b
    PROVE  LET m == [n EXCEPT !.sound = @ /\ b]
           IN  m \in Plan /\ m.body = n.body /\ m.kind = n.kind /\ m.exists = n.exists
<1> DEFINE s == n.sound /\ b
<1>1. s \in BOOLEAN
  OBVIOUS
<1> HIDE DEF s
<1>2. [n EXCEPT !.sound = s] \in Plan /\ [n EXCEPT !.sound = s].body = n.body
      /\ [n EXCEPT !.sound = s].kind = n.kind /\ [n EXCEPT !.sound = s].exists = n.exists
  BY <1>1 DEF Plan
<1>3. QED
  BY <1>2 DEF s

LEMMA GotoEffect ==
    ASSUME TypeOK, NEW p \in Patches, NEW label \in Pcs \ {"idle"}, NEW o \in Object,
           NEW seen \in SUBSET Fields, Goto(p, label, o, seen)
    PROVE  /\ obj' = o
           /\ pc' \in [Patches -> Pcs] /\ pc'[p] = label
           /\ mem' \in [Patches -> Locals] /\ mem'[p].id = mem[p].id /\ mem'[p].seen = seen
           /\ plan' \in [Patches -> Plan] /\ plan'[p] = plan[p]
           /\ calm' \in [Patches -> BOOLEAN] /\ quiet' \in [Patches -> BOOLEAN]
           /\ \A q \in Patches \ {p} : Untouched(q)
<1>1. mem \in [Patches -> Locals] /\ pc \in [Patches -> Pcs] /\ plan \in [Patches -> Plan]
  BY DEF TypeOK, Pcs
<1>2. obj' = o /\ pc' = [pc EXCEPT ![p] = label] /\ mem' = [mem EXCEPT ![p].seen = seen]
  BY DEF Goto, Disturbs
<1>3. mem' \in [Patches -> Locals] /\ mem'[p].id = mem[p].id /\ mem'[p].seen = seen
      /\ \A q \in Patches \ {p} : mem'[q] = mem[q]
  BY <1>1, <1>2 DEF Locals
<1>4. pc' \in [Patches -> Pcs] /\ pc'[p] = label /\ \A q \in Patches \ {p} : pc'[q] = pc[q]
  BY <1>1, <1>2
<1>5. calm' = [q \in Patches |-> calm[q] /\ (q = p \/ o = obj)]
      /\ quiet' = [q \in Patches |-> q = p \/ (quiet[q] /\ o = obj)]
  BY DEF Goto
<1>6. calm' \in [Patches -> BOOLEAN] /\ quiet' \in [Patches -> BOOLEAN]
  BY <1>5
<1>7. \A q \in Patches \ {p} : (quiet'[q] => quiet[q] /\ o = obj) /\ (calm'[q] => calm[q] /\ o = obj)
  BY <1>5
<1>8. plan' = [q \in Patches |-> IF q # p THEN [plan[q] EXCEPT !.sound = @ /\ o = obj] ELSE plan[p]]
  BY <1>4 DEF Goto, Disturbs
<1>9. plan' \in [Patches -> Plan] /\ plan'[p] = plan[p]
      /\ \A q \in Patches \ {p} : plan'[q].body = plan[q].body
  BY <1>1, <1>8, PlanOutdated
<1>10. \A q \in Patches \ {p} : Untouched(q)
  BY <1>2, <1>3, <1>4, <1>7, <1>9 DEF Untouched
<1>11. QED
  BY <1>2, <1>3, <1>4, <1>6, <1>9, <1>10

LEMMA ReturnEffect ==
    ASSUME TypeOK, NEW p \in Patches, NEW o \in Object, NEW inStep \in BOOLEAN,
           Return(p, o, inStep)
    PROVE  /\ obj' = o
           /\ pc' \in [Patches -> Pcs] /\ pc'[p] = "idle"
           /\ mem' \in [Patches -> Locals] /\ mem'[p] = NoMem
           /\ plan' \in [Patches -> Plan]
           /\ calm' \in [Patches -> BOOLEAN] /\ calm'[p] = inStep
           /\ quiet' \in [Patches -> BOOLEAN]
           /\ \A q \in Patches \ {p} : Untouched(q)
<1>1. mem \in [Patches -> Locals] /\ pc \in [Patches -> Pcs] /\ plan \in [Patches -> Plan]
  BY DEF TypeOK, Pcs
<1>2. obj' = o /\ pc' = [pc EXCEPT ![p] = "idle"] /\ mem' = [mem EXCEPT ![p] = NoMem]
  BY DEF Return, Disturbs
<1>3. mem' \in [Patches -> Locals] /\ mem'[p] = NoMem
      /\ \A q \in Patches \ {p} : mem'[q] = mem[q]
  BY <1>1, <1>2, NoneTypes
<1>4. pc' \in [Patches -> Pcs] /\ pc'[p] = "idle" /\ \A q \in Patches \ {p} : pc'[q] = pc[q]
  BY <1>1, <1>2 DEF Pcs
<1>5. calm' = [q \in Patches |-> IF q = p THEN inStep ELSE calm[q] /\ o = obj]
      /\ quiet' = [q \in Patches |-> q # p /\ quiet[q] /\ o = obj]
  BY DEF Return
<1>6. calm' \in [Patches -> BOOLEAN] /\ calm'[p] = inStep /\ quiet' \in [Patches -> BOOLEAN]
  BY <1>5
<1>7. \A q \in Patches \ {p} : (quiet'[q] => quiet[q] /\ o = obj) /\ (calm'[q] => calm[q] /\ o = obj)
  BY <1>5
<1>8. plan' = [q \in Patches |-> IF q # p THEN [plan[q] EXCEPT !.sound = @ /\ o = obj] ELSE NoPlan]
  BY <1>4 DEF Return, Disturbs
<1>9. plan' \in [Patches -> Plan]
      /\ \A q \in Patches \ {p} : plan'[q].body = plan[q].body
  BY <1>1, <1>8, PlanOutdated, NoneTypes
<1>10. \A q \in Patches \ {p} : Untouched(q)
  BY <1>2, <1>3, <1>4, <1>7, <1>9 DEF Untouched
<1>11. QED
  BY <1>2, <1>3, <1>4, <1>6, <1>9, <1>10

\* A patch without a part in a step stays good.
LEMMA UntouchedGood ==
    ASSUME NEW q \in Patches, Untouched(q), st'[q] = st[q], Good(q)
    PROVE  Good(q)'
<1>1. Session(q)'
  BY DEF Untouched, Good, Session
<1>2. Landed(q)'
  BY DEF Untouched, Good, Landed, Has, Own
<1>3. InStep(q)'
  BY DEF Untouched, Good, InStep, Matches, Has, Own
<1>4. QED
  BY <1>1, <1>2, <1>3 DEF Good

\* A handler may go on if what it relies on next is so.
LEMMA GotoKeeps ==
    ASSUME PatchInv, NEW p \in Patches, NEW label \in Pcs \ {"idle"}, NEW o \in Object,
           NEW seen \in SUBSET Fields, Goto(p, label, o, seen), UNCHANGED <<conf, st, edits, left>>,
           label \in {"create", "createBack"} => mem[p].id \in Ids,
           label \notin {"create", "createBack"} => st[p].exists /\ mem[p].id = None,
           label \in {"createBack", "updateBack"} => Has(o, plan[p].body),
           label = "createBack" => seen = Own(o, mem[p].id),
           label = "readBack" => /\ Has(o, st[p].body)
                                 /\ st[p].kind = "raw" => seen = Own(o, st[p].id)
    PROVE  PatchInv'
<1>1. TypeOK
  BY DEF PatchInv
<1>2. /\ obj' = o
      /\ pc' \in [Patches -> Pcs] /\ pc'[p] = label
      /\ mem' \in [Patches -> Locals] /\ mem'[p].id = mem[p].id /\ mem'[p].seen = seen
      /\ plan' \in [Patches -> Plan] /\ plan'[p] = plan[p]
      /\ calm' \in [Patches -> BOOLEAN] /\ quiet' \in [Patches -> BOOLEAN]
      /\ \A q \in Patches \ {p} : Untouched(q)
  BY <1>1, GotoEffect
<1>3. TypeOK'
  BY <1>1, <1>2 DEF TypeOK, Pcs
<1>4. Good(p)'
  <2>1. st'[p] = st[p] /\ Session(p)
    BY DEF PatchInv, Good
  <2>2. Session(p)'
    BY <1>2, <2>1 DEF Session
  <2>3. Landed(p)'
    BY <1>2, <2>1 DEF Landed, Has
  <2>4. InStep(p)'
    BY <1>2 DEF InStep
  <2>5. QED
    BY <2>2, <2>3, <2>4 DEF Good
<1>5. \A q \in Patches \ {p} : Good(q)'
  BY <1>2, UntouchedGood DEF PatchInv
<1>6. QED
  BY <1>3, <1>4, <1>5 DEF PatchInv

\* A handler may return a state, in step if it is.
LEMMA ReturnKeeps ==
    ASSUME PatchInv, NEW p \in Patches, NEW o \in Object, NEW inStep \in BOOLEAN,
           NEW s \in State, Return(p, o, inStep), UNCHANGED <<conf, edits>>,
           left' \in SUBSET Ids, Stores(p, s), s.exists => s.id \in Ids,
           s.exists /\ inStep => Matches(o, s)
    PROVE  PatchInv'
<1>1. TypeOK
  BY DEF PatchInv
<1>2. /\ obj' = o
      /\ pc' \in [Patches -> Pcs] /\ pc'[p] = "idle"
      /\ mem' \in [Patches -> Locals] /\ mem'[p] = NoMem
      /\ plan' \in [Patches -> Plan]
      /\ calm' \in [Patches -> BOOLEAN] /\ calm'[p] = inStep
      /\ quiet' \in [Patches -> BOOLEAN]
      /\ \A q \in Patches \ {p} : Untouched(q)
  BY <1>1, ReturnEffect
<1>3. /\ st' \in [Patches -> State] /\ st'[p] = s
      /\ \A q \in Patches \ {p} : st'[q] = st[q]
  BY <1>1 DEF TypeOK, Stores
<1>4. TypeOK'
  BY <1>1, <1>2, <1>3 DEF TypeOK, Pcs
<1>5. Good(p)'
  <2>1. Session(p)'
    BY <1>2, <1>3 DEF Session, NoMem
  <2>2. Landed(p)'
    BY <1>2 DEF Landed
  <2>3. InStep(p)'
    BY <1>2, <1>3 DEF InStep, Matches, Has, Own
  <2>4. QED
    BY <2>1, <2>2, <2>3 DEF Good
<1>6. \A q \in Patches \ {p} : Good(q)'
  BY <1>2, <1>3, UntouchedGood DEF PatchInv
<1>7. QED
  BY <1>4, <1>5, <1>6 DEF PatchInv

\* Returning with the prior state.
LEMMA ReturnPrior ==
    ASSUME PatchInv, NEW p \in Patches, NEW o \in Object, NEW inStep \in BOOLEAN,
           Return(p, o, inStep), UNCHANGED <<conf, st, edits>>, left' \in SUBSET Ids,
           st[p].exists /\ inStep => Matches(o, st[p])
    PROVE  PatchInv'
<1>1. st[p] \in State /\ Stores(p, st[p])
  BY DEF PatchInv, TypeOK, Stores
<1>2. st[p].exists => st[p].id \in Ids
  BY DEF PatchInv, Good, Session
<1>3. QED
  BY <1>1, <1>2, ReturnKeeps

\* Returning with other managed_fields.
LEMMA ReturnSeen ==
    ASSUME PatchInv, NEW p \in Patches, NEW o \in Object, NEW inStep \in BOOLEAN,
           NEW mf \in SUBSET Fields, Return(p, o, inStep), UNCHANGED <<conf, edits, left>>,
           st' = [st EXCEPT ![p].mf = mf], st[p].exists,
           inStep => Has(o, st[p].body) /\ mf = Own(o, st[p].id)
    PROVE  PatchInv'
<1> DEFINE s == [st[p] EXCEPT !.mf = mf]
<1>1. st[p] \in State /\ left' \in SUBSET Ids /\ UNCHANGED <<conf, edits>>
  BY DEF PatchInv, TypeOK
<1>2. s \in State /\ s.id = st[p].id /\ s.body = st[p].body /\ s.mf = mf /\ s.exists = st[p].exists
  BY <1>1 DEF State
<1>3. Stores(p, s)
  BY <1>1 DEF Stores
<1> HIDE DEF s
<1>4. s.exists => s.id \in Ids
  BY <1>2 DEF PatchInv, Good, Session
<1>5. s.exists /\ inStep => Matches(o, s)
  BY <1>2 DEF Matches
<1>6. QED
  BY <1>1, <1>2, <1>3, <1>4, <1>5, ReturnKeeps

-----------------------------------------------------------------------------
(* Every step keeps PatchInv.                                               *)

LEMMA CreateKeeps ==
    ASSUME PatchInv, NEW p \in Patches,
           \/ CreateGet(p) \/ CreateGetFails(p) \/ CreateApply(p) \/ CreateApplyFails(p)
           \/ CreateBack(p) \/ CreateBackFails(p)
    PROVE  PatchInv'
<1>1. TypeOK /\ Good(p) /\ obj \in Object /\ left \in SUBSET Ids
  BY DEF PatchInv, TypeOK
<1>2. plan[p].kind \in AllKinds /\ plan[p].body \in Body /\ mem[p].seen \in SUBSET Fields
      /\ quiet[p] \in BOOLEAN
  BY <1>1, FieldTypes
<1>3. CASE CreateGet(p)
  <2>1. PICK id \in Ids : mem' = [mem EXCEPT ![p].id = id] /\ pc' = [pc EXCEPT ![p] = "create"]
    BY <1>3 DEF CreateGet
  <2>2. UNCHANGED <<obj, conf, st, plan, edits, calm, quiet, left>>
    BY <1>3 DEF CreateGet
  <2>3. mem' \in [Patches -> Locals] /\ mem'[p].id = id
        /\ \A q \in Patches \ {p} : mem'[q] = mem[q]
    BY <1>1, <2>1 DEF TypeOK, Locals
  <2>4. pc' \in [Patches -> Pcs] /\ pc'[p] = "create"
        /\ \A q \in Patches \ {p} : pc'[q] = pc[q]
    BY <1>1, <2>1 DEF TypeOK, Pcs
  <2>5. TypeOK'
    BY <1>1, <2>2, <2>3, <2>4 DEF TypeOK, Pcs
  <2>6. \A q \in Patches \ {p} : Good(q)'
    BY <2>2, <2>3, <2>4, UntouchedGood DEF PatchInv, Untouched
  <2>7. Good(p)'
    BY <1>1, <2>2, <2>3, <2>4 DEF Good, Session, Landed, InStep
  <2>8. QED
    BY <2>5, <2>6, <2>7 DEF PatchInv
<1>4. CASE CreateGetFails(p)
  <2>1. Return(p, obj, FALSE) /\ UNCHANGED <<conf, st, edits>> /\ left' \in SUBSET Ids
    BY <1>1, <1>4 DEF CreateGetFails
  <2>2. QED
    BY <1>1, <2>1, ReturnPrior
<1>5. CASE CreateApply(p)
  <2> DEFINE o == Patched(obj, mem[p].id, plan[p].kind, plan[p].body)
  <2>1. pc[p] = "create" /\ UNCHANGED <<conf, st, edits, left>>
        /\ Goto(p, "createBack", o, Own(o, mem[p].id))
    BY <1>5 DEF CreateApply
  <2>2. mem[p].id \in Ids
    BY <1>1, <2>1 DEF Good, Session
  <2>3. o \in Object /\ Has(o, plan[p].body)
    BY <1>1, <1>2, <2>2, PatchedEffect
  <2>4. Own(o, mem[p].id) \in SUBSET Fields /\ "createBack" \in Pcs \ {"idle"}
    BY OwnType DEF Pcs
  <2> HIDE DEF o
  <2>5. QED
    BY <2>1, <2>2, <2>3, <2>4, GotoKeeps
<1>6. CASE CreateApplyFails(p)
  <2>1. PICK o \in LeftByError(mem[p].id, plan[p].kind, plan[p].body) :
          /\ left' = IF o = obj THEN left ELSE left \cup {mem[p].id}
          /\ Return(p, o, FALSE)
    BY <1>6 DEF CreateApplyFails
  <2>2. pc[p] = "create" /\ UNCHANGED <<conf, st, edits>>
    BY <1>6 DEF CreateApplyFails
  <2>3. mem[p].id \in Ids
    BY <1>1, <2>2 DEF Good, Session
  <2>4. o \in Object /\ left' \in SUBSET Ids
    BY <1>1, <1>2, <2>1, <2>3, LeftByErrorType
  <2>5. QED
    BY <2>1, <2>2, <2>4, ReturnPrior
<1>7. CASE CreateBack(p)
  <2> DEFINE mf == IF plan[p].kind = "ssa" THEN Own(obj, mem[p].id) ELSE mem[p].seen
             s == Saved(p, mem[p].id, mf)
  <2>1. pc[p] = "createBack" /\ Stores(p, s) /\ Return(p, obj, quiet[p])
        /\ UNCHANGED <<conf, edits>> /\ left' \in SUBSET Ids
    BY <1>1, <1>7 DEF CreateBack, Stores
  <2>2. mem[p].id \in Ids /\ mf \in SUBSET Fields
    BY <1>1, <1>2, <2>1, OwnType DEF Good, Session
  <2>3. quiet[p] => /\ Has(obj, plan[p].body)
                    /\ mf = Own(obj, mem[p].id)
    BY <1>1, <2>1 DEF Good, Landed, Has
  <2>4. s \in State /\ s.id = mem[p].id /\ s.mf = mf /\ s.body = plan[p].body
    BY <1>1, <2>2, SavedType
  <2>5. quiet[p] => Matches(obj, s)
    BY <2>3, <2>4 DEF Matches
  <2> HIDE DEF mf, s
  <2>6. QED
    BY <1>1, <1>2, <2>1, <2>2, <2>4, <2>5, ReturnKeeps
<1>8. CASE CreateBackFails(p)
  <2>1. Return(p, obj, FALSE) /\ UNCHANGED <<conf, st, edits>> /\ left' = left \cup {mem[p].id}
        /\ pc[p] = "createBack"
    BY <1>8 DEF CreateBackFails
  <2>2. left' \in SUBSET Ids
    BY <1>1, <2>1 DEF Good, Session
  <2>3. QED
    BY <1>1, <2>1, <2>2, ReturnPrior
<1>9. QED
  BY <1>3, <1>4, <1>5, <1>6, <1>7, <1>8

LEMMA ReadKeeps ==
    ASSUME PatchInv, NEW p \in Patches,
           ReadGet(p) \/ ReadApply(p) \/ ReadApplyFails(p) \/ ReadBack(p) \/ ReadBackFails(p)
    PROVE  PatchInv'
<1>1. TypeOK /\ Good(p) /\ obj \in Object /\ left \in SUBSET Ids
  BY DEF PatchInv, TypeOK
<1>2. st[p].kind \in AllKinds /\ st[p].body \in Body /\ mem[p].seen \in SUBSET Fields
      /\ quiet[p] \in BOOLEAN
  BY <1>1, FieldTypes
<1>3. st[p].exists
  BY <1>1 DEF ReadGet, ReadApply, ReadApplyFails, ReadBack, ReadBackFails, Good, Session
<1>4. st[p].id \in Ids /\ Own(obj, st[p].id) \in SUBSET Fields
  BY <1>1, <1>3, OwnType DEF Good, Session
<1>5. UNCHANGED <<conf, edits, left>>
  BY DEF ReadGet, ReadApply, ReadApplyFails, ReadBack, ReadBackFails
<1>6. CASE ReadGet(p)
  <2>1. CASE Stores(p, NoState) /\ Return(p, obj, FALSE)
    <3>1. NoState \in State /\ ~NoState.exists
      BY NoneTypes DEF NoState
    <3>2. QED
      BY <1>1, <1>5, <2>1, <3>1, ReturnKeeps
  <2>2. CASE Drifted(obj, st[p].body) = {} /\ Return(p, obj, TRUE)
             /\ st' = [st EXCEPT ![p].mf = Own(obj, st[p].id)]
    <3>1. Has(obj, st[p].body)
      BY <2>2 DEF Drifted, Has
    <3>2. QED
      BY <1>1, <1>3, <1>4, <1>5, <2>2, <3>1, ReturnSeen
  <2>3. CASE st' = st /\ Goto(p, "read", obj, Own(obj, st[p].id))
    <3>1. pc[p] = "idle" /\ "read" \in Pcs \ {"idle"}
      BY <1>6 DEF ReadGet, Pcs
    <3>2. mem[p].id = None
      BY <1>1, <3>1 DEF Good, Session
    <3>3. QED
      BY <1>1, <1>3, <1>4, <1>5, <2>3, <3>1, <3>2, GotoKeeps
  <2>4. QED
    BY <1>6, <2>1, <2>2, <2>3 DEF ReadGet, Stores
<1>7. CASE ReadApply(p)
  <2> DEFINE o == Patched(obj, st[p].id, st[p].kind, st[p].body)
             seen == IF st[p].kind = "raw" THEN Own(o, st[p].id) ELSE mem[p].seen
  <2>1. pc[p] = "read" /\ Goto(p, "readBack", o, seen) /\ UNCHANGED <<conf, st, edits, left>>
    BY <1>7 DEF ReadApply
  <2>2. o \in Object /\ Has(o, st[p].body)
    BY <1>1, <1>2, <1>4, PatchedEffect
  <2>3. seen \in SUBSET Fields /\ "readBack" \in Pcs \ {"idle"} /\ mem[p].id = None
    BY <1>1, <1>2, <2>1, OwnType DEF Pcs, Good, Session
  <2>4. st[p].kind = "raw" => seen = Own(o, st[p].id)
    OBVIOUS
  <2> HIDE DEF o, seen
  <2>5. QED
    BY <1>3, <2>1, <2>2, <2>3, <2>4, GotoKeeps
<1>8. CASE ReadApplyFails(p)
  <2>1. PICK o \in LeftByError(st[p].id, st[p].kind, st[p].body) : Return(p, o, FALSE)
    BY <1>8 DEF ReadApplyFails
  <2>2. o \in Object
    BY <1>1, <1>2, <1>4, LeftByErrorType
  <2>3. st' = [st EXCEPT ![p].mf = mem[p].seen]
    BY <1>8 DEF ReadApplyFails
  <2>4. QED
    BY <1>2, <1>3, <1>5, <2>1, <2>2, <2>3, ReturnSeen
<1>9. CASE ReadBack(p)
  <2> DEFINE mf == IF st[p].kind = "ssa" THEN Own(obj, st[p].id) ELSE mem[p].seen
  <2>1. pc[p] = "readBack" /\ st' = [st EXCEPT ![p].mf = mf] /\ Return(p, obj, quiet[p])
    BY <1>9 DEF ReadBack
  <2>2. mf \in SUBSET Fields
    BY <1>2, <1>4
  <2>3. quiet[p] => /\ Has(obj, st[p].body)
                    /\ mf = Own(obj, st[p].id)
    BY <1>1, <1>2, <2>1 DEF Good, Landed, Has, AllKinds
  <2> HIDE DEF mf
  <2>4. QED
    BY <1>1, <1>2, <1>3, <1>5, <2>1, <2>2, <2>3, ReturnSeen
<1>10. CASE ReadBackFails(p)
  <2>1. st' = [st EXCEPT ![p].mf = mem[p].seen] /\ Return(p, obj, FALSE)
    BY <1>10 DEF ReadBackFails
  <2>2. QED
    BY <1>1, <1>2, <1>3, <1>5, <2>1, ReturnSeen
<1>11. QED
  BY <1>6, <1>7, <1>8, <1>9, <1>10

LEMMA UpdateKeeps ==
    ASSUME PatchInv, NEW p \in Patches,
           \/ UpdateGet(p) \/ UpdateGetFails(p) \/ UpdateApply(p) \/ UpdateApplyFails(p)
           \/ UpdateFresh(p) \/ UpdateFreshFails(p)
    PROVE  PatchInv'
<1>1. TypeOK /\ Good(p) /\ obj \in Object /\ left \in SUBSET Ids
  BY DEF PatchInv, TypeOK
<1>2. plan[p].kind \in AllKinds /\ plan[p].body \in Body
      /\ quiet[p] \in BOOLEAN /\ calm[p] \in BOOLEAN
  BY <1>1, FieldTypes
<1>3. st[p].exists
  BY <1>1 DEF UpdateGet, UpdateGetFails, UpdateApply, UpdateApplyFails, UpdateFresh,
              UpdateFreshFails, Good, Session
<1>4. st[p].id \in Ids /\ Own(obj, st[p].id) \in SUBSET Fields /\ {} \in SUBSET Fields
  BY <1>1, <1>3, OwnType DEF Good, Session
<1>5. UNCHANGED <<conf, edits>> /\ left' \in SUBSET Ids /\ left' = left
  BY <1>1 DEF UpdateGet, UpdateGetFails, UpdateApply, UpdateApplyFails, UpdateFresh, UpdateFreshFails
<1>6. CASE UpdateGet(p)
  <2>1. pc[p] = "idle" /\ Goto(p, "update", obj, {}) /\ st' = st
    BY <1>6 DEF UpdateGet
  <2>2. mem[p].id = None /\ "update" \in Pcs \ {"idle"}
    BY <1>1, <2>1 DEF Good, Session, Pcs
  <2>3. QED
    BY <1>1, <1>3, <1>4, <1>5, <2>1, <2>2, GotoKeeps
<1>7. CASE UpdateGetFails(p)
  <2>1. pc[p] = "idle" /\ Return(p, obj, calm[p]) /\ st' = st
    BY <1>7 DEF UpdateGetFails
  <2>2. calm[p] => Matches(obj, st[p])
    BY <1>1, <1>3, <2>1 DEF Good, InStep
  <2>3. QED
    BY <1>1, <1>2, <1>5, <2>1, <2>2, ReturnPrior
<1>8. CASE UpdateApply(p)
  <2> DEFINE o == Patched(obj, st[p].id, plan[p].kind, plan[p].body)
  <2>1. pc[p] = "update" /\ Goto(p, "updateBack", o, {}) /\ st' = st
    BY <1>8 DEF UpdateApply
  <2>2. o \in Object /\ Has(o, plan[p].body)
    BY <1>1, <1>2, <1>4, PatchedEffect
  <2>3. "updateBack" \in Pcs \ {"idle"} /\ mem[p].id = None
    BY <1>1, <2>1 DEF Pcs, Good, Session
  <2> HIDE DEF o
  <2>4. QED
    BY <1>3, <1>4, <1>5, <2>1, <2>2, <2>3, GotoKeeps
<1>9. CASE UpdateApplyFails(p)
  <2>1. PICK o \in LeftByError(st[p].id, plan[p].kind, plan[p].body) : Return(p, o, FALSE)
    BY <1>9 DEF UpdateApplyFails
  <2>2. o \in Object
    BY <1>1, <1>2, <1>4, LeftByErrorType
  <2>3. st' = st
    BY <1>9 DEF UpdateApplyFails
  <2>4. QED
    BY <1>5, <2>1, <2>2, <2>3, ReturnPrior
<1>10. CASE UpdateFresh(p)
  <2> DEFINE s == Saved(p, st[p].id, Own(obj, st[p].id))
  <2>1. pc[p] = "updateBack" /\ Stores(p, s) /\ Return(p, obj, quiet[p])
    BY <1>10 DEF UpdateFresh, Stores
  <2>2. quiet[p] => Has(obj, plan[p].body)
    BY <1>1, <2>1 DEF Good, Landed, Has
  <2>3. s \in State /\ s.id = st[p].id /\ s.mf = Own(obj, st[p].id) /\ s.body = plan[p].body
    BY <1>1, <1>4, SavedType
  <2>4. quiet[p] => Matches(obj, s)
    BY <2>2, <2>3 DEF Matches
  <2> HIDE DEF s
  <2>5. QED
    BY <1>1, <1>2, <1>4, <1>5, <2>1, <2>3, <2>4, ReturnKeeps
<1>11. CASE UpdateFreshFails(p)
  <2>1. Return(p, obj, FALSE) /\ st' = st
    BY <1>11 DEF UpdateFreshFails
  <2>2. QED
    BY <1>1, <1>5, <2>1, ReturnPrior
<1>12. QED
  BY <1>6, <1>7, <1>8, <1>9, <1>10, <1>11

LEMMA DeleteKeeps ==
    ASSUME PatchInv, NEW p \in Patches, Delete(p)
    PROVE  PatchInv'
<1>1. NoState \in State /\ ~NoState.exists /\ obj \in Object
  BY NoneTypes DEF NoState, PatchInv, TypeOK
<1>2. left' \in SUBSET Ids
  BY DEF Delete, PatchInv, TypeOK, Good, Session
<1>3. Stores(p, NoState) /\ Return(p, obj, FALSE) /\ UNCHANGED <<conf, edits>>
  BY DEF Delete, Stores
<1>4. QED
  BY <1>1, <1>2, <1>3, ReturnKeeps

\* A plan made or discarded concerns no handler.
LEMMA PlanKeeps ==
    ASSUME PatchInv, NEW p \in Patches,
           PlanGet(p) \/ PlanMissing(p) \/ PlanBlind(p) \/ Discard(p)
    PROVE  PatchInv'
<1>1. TypeOK /\ Good(p) /\ obj \in Object
  BY DEF PatchInv, TypeOK
<1>2. pc[p] = "idle" /\ UNCHANGED <<obj, conf, st, pc, mem, edits, calm, quiet, left>>
  BY DEF PlanGet, PlanMissing, PlanBlind, Discard, CanPlan
<1>3. Unknown \in Projections /\ Null \in Projections
  BY EmptyType DEF Unknown, Null, Projections
<1>4. \E n \in Plan : plan' = [plan EXCEPT ![p] = n]
  <2>1. CASE PlanGet(p)
    <3> DEFINE id == DryRunId(p)
               dry == Applied(obj, <<id, "ssa">>, conf[p].body)
    <3>1. <<id, "ssa">> \in Managers
      BY <1>1 DEF DryRunId, Managers, PatchManagers, AllKinds, Good, Session
    <3>2. dry \in Object
      BY <1>1, <3>1, AppliedEffect, FieldTypes
    <3>3. Projection(dry, id) \in Body /\ Own(dry, id) \in SUBSET Fields
      BY <3>2, ProjectionType, OwnType
    <3>4. Known(Projection(dry, id)) \in Projections
      BY <3>3 DEF Known, Projections
    <3>5. Planned(p, Known(Projection(dry, id)), Own(dry, id), TRUE) \in Plan
      BY <1>1, <3>3, <3>4, PlannedType
    <3>6. Planned(p, Null, {}, FALSE) \in Plan
      BY <1>1, <1>3, PlannedType
    <3>7. QED
      BY <2>1, <3>5, <3>6 DEF PlanGet
  <2>2. CASE PlanMissing(p)
    <3>1. Planned(p, Unknown, {}, FALSE) \in Plan
      BY <1>1, <1>3, PlannedType
    <3>2. QED
      BY <2>2, <3>1 DEF PlanMissing
  <2>3. CASE PlanBlind(p)
    <3> DEFINE c == conf[p]
               s == st[p]
               same == s.exists /\ <<c.kind, c.body, c.other>> = <<s.kind, s.body, s.other>>
               n == [exists |-> TRUE, kind |-> c.kind, body |-> c.body, other |-> c.other,
                     proj |-> Unknown, mf |-> IF same THEN s.mf ELSE {}, mfKnown |-> same,
                     sound |-> same /\ calm[p]]
    <3>1. same \in BOOLEAN /\ (same /\ calm[p]) \in BOOLEAN
      <4>1. s.exists \in BOOLEAN
        BY <1>1 DEF TypeOK, State
      <4>2. QED
        BY <4>1
    <3>2. plan' = [plan EXCEPT ![p] = n]
      BY <2>3 DEF PlanBlind
    <3>3. c.kind \in AllKinds /\ c.body \in Body /\ c.other \in BOOLEAN /\ s.mf \in SUBSET Fields
      BY <1>1, FieldTypes
    <3> HIDE DEF same, c, s
    <3>4. n \in Plan
      BY <1>3, <3>1, <3>3 DEF Plan
    <3>5. QED
      BY <3>2, <3>4
  <2>4. CASE Discard(p)
    BY <2>4, NoneTypes DEF Discard
  <2>5. QED
    BY <2>1, <2>2, <2>3, <2>4
<1>5. /\ plan' \in [Patches -> Plan]
      /\ \A q \in Patches \ {p} : plan'[q] = plan[q]
  BY <1>1, <1>4 DEF TypeOK
<1>6. TypeOK'
  BY <1>1, <1>2, <1>5 DEF TypeOK
<1>7. \A q \in Patches \ {p} : Good(q)'
  BY <1>2, <1>5, UntouchedGood DEF PatchInv, Untouched
<1>8. Good(p)'
  BY <1>1, <1>2 DEF Good, Session, Landed, InStep, Matches, Has, Own
<1>9. QED
  BY <1>6, <1>7, <1>8 DEF PatchInv

LEMMA ConfigureKeeps ==
    ASSUME PatchInv, NEW p \in Patches, Configure(p)
    PROVE  PatchInv'
<1>1. conf' \in [Patches -> Config]
  <2>1. conf \in [Patches -> Config] /\ conf[p] \in Config
    BY DEF PatchInv, TypeOK
  <2>2. \E c \in {[conf[p] EXCEPT !.body = b] : b \in Bodies}
                 \cup {[conf[p] EXCEPT !.kind = k] : k \in Kinds}
                 \cup {[conf[p] EXCEPT !.other = ~@], [conf[p] EXCEPT !.want = ~@]} :
           conf' = [conf EXCEPT ![p] = c]
    BY DEF Configure
  <2>3. \A b \in Bodies : [conf[p] EXCEPT !.body = b] \in Config
    BY <2>1, BodyAssumption DEF Config, Body
  <2>4. \A k \in Kinds : [conf[p] EXCEPT !.kind = k] \in Config
    BY <2>1 DEF Config
  <2>5. [conf[p] EXCEPT !.other = ~@] \in Config /\ [conf[p] EXCEPT !.want = ~@] \in Config
    BY <2>1 DEF Config
  <2>6. QED
    BY <2>1, <2>2, <2>3, <2>4, <2>5
<1>2. UNCHANGED <<obj, st, plan, pc, mem, calm, quiet, left>> /\ edits' \in 0..MaxEdits
  BY FaultAssumption DEF Configure, Edits, PatchInv, TypeOK
<1>3. TypeOK'
  BY <1>1, <1>2 DEF PatchInv, TypeOK
<1>4. \A q \in Patches : Good(q)'
  BY <1>2, UntouchedGood DEF PatchInv, Untouched
<1>5. QED
  BY <1>3, <1>4 DEF PatchInv

\* What the others make of the target is an object, and gives no patch a field.
LEMMA OutsideObject ==
    ASSUME TypeOK, Environment
    PROVE  \E o \in Object :
             /\ Outside(o)
             /\ \A id \in Ids \cup {Temp} : Own(o, id) \subseteq Own(obj, id)
             /\ o.live = obj.live \/ \A id \in Ids \cup {Temp} : Own(o, id) = {}
<1>1. /\ obj \in Object /\ obj.val \in Body /\ obj.by \in [Fields -> SUBSET Managers]
      /\ obj.live \in BOOLEAN /\ obj.owned \in BOOLEAN
  BY DEF TypeOK, Object
<1>2. \A m \in Others : m \in Managers /\ \A id \in Ids \cup {Temp} : m \notin {id} \X AllKinds
  BY OtherAssumption DEF Managers, PatchManagers
<1>3. ASSUME NEW m \in Others, NEW f \in Fields, NEW v \in Values, Write(m, f, v)
      PROVE  \E o \in Object :
               /\ Outside(o) /\ o.live = obj.live
               /\ \A id \in Ids \cup {Temp} : Own(o, id) \subseteq Own(obj, id)
  <2> DEFINE o == [obj EXCEPT !.val[f] = v, !.by[f] = {m}]
  <2>1. o \in Object
    BY <1>1, <1>2 DEF Object, Body
  <2>2. o.live = obj.live /\ o.by = [obj.by EXCEPT ![f] = {m}]
    BY <1>1 DEF Object
  <2>3. Outside(o)
    BY <1>3 DEF Write
  <2> HIDE DEF o
  <2>4. \A id \in Ids \cup {Temp} : Own(o, id) \subseteq Own(obj, id)
    BY <1>1, <1>2, <2>2 DEF Own
  <2>5. QED
    BY <2>1, <2>2, <2>3, <2>4
<1>4. ASSUME NEW m \in Others, NEW f \in Fields, Share(m, f)
      PROVE  \E o \in Object :
               /\ Outside(o) /\ o.live = obj.live
               /\ \A id \in Ids \cup {Temp} : Own(o, id) \subseteq Own(obj, id)
  <2> DEFINE o == [obj EXCEPT !.by[f] = @ \cup {m}]
  <2>1. o \in Object
    BY <1>1, <1>2 DEF Object
  <2>2. o.live = obj.live /\ o.by = [obj.by EXCEPT ![f] = obj.by[f] \cup {m}]
    BY <1>1 DEF Object
  <2>3. Outside(o)
    BY <1>4 DEF Share
  <2> HIDE DEF o
  <2>4. \A id \in Ids \cup {Temp} : Own(o, id) \subseteq Own(obj, id)
    BY <1>1, <1>2, <2>2 DEF Own
  <2>5. QED
    BY <2>1, <2>2, <2>3, <2>4
<1>5. ASSUME NEW f \in Fields, Remove(f)
      PROVE  \E o \in Object :
               /\ Outside(o) /\ o.live = obj.live
               /\ \A id \in Ids \cup {Temp} : Own(o, id) \subseteq Own(obj, id)
  <2> DEFINE o == [obj EXCEPT !.val[f] = None, !.by[f] = {}]
  <2>1. o \in Object
    BY <1>1 DEF Object, Body
  <2>2. o.live = obj.live /\ o.by = [obj.by EXCEPT ![f] = {}]
    BY <1>1 DEF Object
  <2>3. Outside(o)
    BY <1>5 DEF Remove
  <2> HIDE DEF o
  <2>4. \A id \in Ids \cup {Temp} : Own(o, id) \subseteq Own(obj, id)
    BY <1>1, <2>2 DEF Own
  <2>5. QED
    BY <2>1, <2>2, <2>3, <2>4
<1>6. ASSUME NEW m \in Others, NEW body \in Bodies, TargetCreated(m, body)
      PROVE  \E o \in Object : Outside(o) /\ \A id \in Ids \cup {Temp} : Own(o, id) = {}
  <2> DEFINE by == [f \in Fields |-> IF body[f] = None THEN {} ELSE {m}]
             o == [live |-> TRUE, val |-> body, owned |-> FALSE, by |-> by]
  <2>1. by \in [Fields -> SUBSET Managers] /\ body \in Body
    BY <1>2, BodyAssumption DEF Body
  <2>2. o \in Object
    BY <2>1 DEF Object
  <2>3. Outside(o)
    BY <1>6 DEF TargetCreated
  <2>4. \A id \in Ids \cup {Temp} : Own(o, id) = {}
    BY <1>2 DEF Own
  <2> HIDE DEF o
  <2>5. QED
    BY <2>2, <2>3, <2>4
<1>7. ASSUME TargetDeleted
      PROVE  \E o \in Object : Outside(o) /\ \A id \in Ids \cup {Temp} : Own(o, id) = {}
  <2>1. NoObj \in Object /\ \A id \in Ids \cup {Temp} : Own(NoObj, id) = {}
    BY EmptyType DEF NoObj, Own
  <2>2. QED
    BY <1>7, <2>1 DEF TargetDeleted
<1>8. ASSUME Adopt
      PROVE  \E o \in Object :
               /\ Outside(o) /\ o.live = obj.live
               /\ \A id \in Ids \cup {Temp} : Own(o, id) \subseteq Own(obj, id)
  <2> DEFINE o == [obj EXCEPT !.owned = TRUE]
  <2>1. o \in Object /\ o.live = obj.live /\ o.by = obj.by
    BY <1>1 DEF Object
  <2>2. Outside(o)
    BY <1>8 DEF Adopt
  <2> HIDE DEF o
  <2>3. \A id \in Ids \cup {Temp} : Own(o, id) \subseteq Own(obj, id)
    BY <2>1 DEF Own
  <2>4. QED
    BY <2>1, <2>2, <2>3
<1>9. QED
  BY <1>3, <1>4, <1>5, <1>6, <1>7, <1>8 DEF Environment

\* The others end what a patch knows, and touch nothing that it has.
LEMMA OutsideEffect ==
    ASSUME TypeOK, NEW o \in Object, Outside(o)
    PROVE  /\ obj' = o /\ TypeOK' /\ UNCHANGED <<conf, st, pc, mem, left>>
           /\ \A q \in Patches : Untouched(q)
<1>1. /\ obj' = o
      /\ calm' = [p \in Patches |-> FALSE] /\ quiet' = [p \in Patches |-> FALSE]
      /\ plan' = [p \in Patches |-> [plan[p] EXCEPT !.sound = FALSE]]
      /\ UNCHANGED <<conf, st, pc, mem, left>>
  BY DEF Outside
<1>2. edits' \in 0..MaxEdits
  BY FaultAssumption DEF Outside, Edits, TypeOK
<1>3. \A p \in Patches : [plan[p] EXCEPT !.sound = FALSE] \in Plan
                         /\ [plan[p] EXCEPT !.sound = FALSE].body = plan[p].body
  <2>1. SUFFICES ASSUME NEW p \in Patches
                 PROVE  /\ [plan[p] EXCEPT !.sound = FALSE] \in Plan
                        /\ [plan[p] EXCEPT !.sound = FALSE].body = plan[p].body
    OBVIOUS
  <2>2. plan[p] \in Plan
    BY DEF TypeOK
  <2>3. QED
    BY <2>2 DEF Plan
<1>4. plan' \in [Patches -> Plan] /\ \A p \in Patches : plan'[p].body = plan[p].body
  BY <1>1, <1>3
<1>5. calm' \in [Patches -> BOOLEAN] /\ quiet' \in [Patches -> BOOLEAN]
  BY <1>1
<1>6. TypeOK'
  BY <1>1, <1>2, <1>4, <1>5 DEF TypeOK
<1>7. \A q \in Patches : Untouched(q)
  BY <1>1, <1>4 DEF Untouched
<1>8. QED
  BY <1>1, <1>6, <1>7

LEMMA EnvironmentKeeps ==
    ASSUME PatchInv, Environment
    PROVE  PatchInv'
<1>1. PICK o \in Object : Outside(o)
  BY OutsideObject DEF PatchInv
<1>2. TypeOK' /\ st' = st /\ \A q \in Patches : Untouched(q)
  BY <1>1, OutsideEffect DEF PatchInv
<1>3. \A q \in Patches : Good(q)'
  BY <1>2, UntouchedGood DEF PatchInv
<1>4. QED
  BY <1>2, <1>3 DEF PatchInv

LEMMA InitPatchInv == Init => PatchInv
<1> SUFFICES ASSUME Init PROVE PatchInv
  OBVIOUS
<1>1. obj \in Object
  <2>1. PICK m \in Others, body \in Bodies \cup {Empty} :
          obj = [live |-> TRUE, val |-> body, owned |-> FALSE,
                 by |-> [f \in Fields |-> IF body[f] = None THEN {} ELSE {m}]]
    BY DEF Init
  <2>2. body \in Body
    BY BodyAssumption, EmptyType DEF Body
  <2>3. [f \in Fields |-> IF body[f] = None THEN {} ELSE {m}] \in [Fields -> SUBSET Managers]
    BY DEF Managers
  <2>4. QED
    BY <2>1, <2>2, <2>3 DEF Object
<1>2. conf \in [Patches -> Config]
  <2>1. [want: {TRUE}, kind: Kinds, body: Bodies, other: {FALSE}] \subseteq Config
    BY BodyAssumption DEF Config, Body
  <2>2. QED
    BY <2>1 DEF Init
<1>3. TypeOK
  BY <1>1, <1>2, NoneTypes, FaultAssumption DEF Init, TypeOK
<1>4. \A p \in Patches : Good(p)
  BY DEF Init, NoState, NoMem, Good, Session, Landed, InStep
<1>5. QED
  BY <1>3, <1>4 DEF PatchInv

LEMMA NextPatchInv == PatchInv /\ [Next]_vars => PatchInv'
<1> SUFFICES ASSUME PatchInv, [Next]_vars PROVE PatchInv'
  OBVIOUS
<1>1. CASE UNCHANGED vars
  <2>1. TypeOK'
    BY <1>1 DEF PatchInv, TypeOK, vars
  <2>2. \A q \in Patches : Good(q)'
    BY <1>1, UntouchedGood DEF PatchInv, Untouched, vars
  <2>3. QED
    BY <2>1, <2>2 DEF PatchInv
<1>2. ASSUME NEW p \in Patches, Handler(p) PROVE PatchInv'
  BY <1>2, CreateKeeps, ReadKeeps, UpdateKeeps, DeleteKeeps DEF Handler
<1>3. QED
  BY <1>1, <1>2, PlanKeeps, ConfigureKeeps, EnvironmentKeeps DEF Next

THEOREM Invariance == Spec => []PatchInv
BY InitPatchInv, NextPatchInv, PTL DEF Spec

\* Every variable keeps its type: no state has an unknown value, and its id is
\* one that GenerateID has returned.
THEOREM TypeCorrect == Spec => []TypeOK
<1>1. PatchInv => TypeOK
  BY DEF PatchInv
<1>2. QED
  BY <1>1, Invariance, PTL

\* After a successful Create, Read or Update the target has every value of the
\* patch as long as nobody else writes, hidden fields included.
THEOREM DriftIsCorrected == Spec => []DriftCorrected
<1>1. PatchInv => DriftCorrected
  BY DEF PatchInv, Good, InStep, Matches, Has, DriftCorrected
<1>2. QED
  BY <1>1, Invariance, PTL

\* managed_fields names what the patch owns in the target, from whichever
\* answer it was taken, and whatever the kind of the patch was before.
THEOREM OwnershipRecorded == Spec => []OwnFieldsRecorded
<1>1. PatchInv => OwnFieldsRecorded
  BY DEF PatchInv, Good, InStep, Matches, OwnFieldsRecorded
<1>2. QED
  BY <1>1, Invariance, PTL

-----------------------------------------------------------------------------
(* Who may own a field.                                                     *)

\* A target that is not there has no owners.
Vacant == ~obj.live => \A id \in Ids : Own(obj, id) = {}

\* Before the apply of a Create nobody else knows its id.
Secret(p) ==
    pc[p] = "create" =>
        /\ Own(obj, mem[p].id) = {}
        /\ \A q \in Patches : st[q].id # mem[p].id /\ (q # p => mem[q].id # mem[p].id)

\* A patch without a state has no id in it.
Blank(p) ==
    /\ ~st[p].exists => st[p].id = None
    /\ pc[p] \in {"create", "createBack"} => ~st[p].exists

OwnInv == Vacant /\ OwnersKnown /\ \A p \in Patches : Secret(p) /\ Blank(p)

\* An id that p's handler forgets is abandoned, or owns nothing.
Settles(p) ==
    \A id \in {st[p].id, mem[p].id} \cap Ids :
        id \in left' \cup {st'[p].id, mem'[p].id} \/ Own(obj', id) = {}

\* The only owner p's handler adds is the one it works for.
OwnOnly(p) ==
    \/ obj' = obj
    \/ /\ obj'.live
       /\ \E id \in {st[p].id, mem[p].id} \cap Ids :
             \A j : j # id => Own(obj', j) \subseteq Own(obj, j)

LEMMA HandlerOwners ==
    ASSUME PatchInv, OwnInv, NEW p \in Patches, Settles(p), OwnOnly(p), left \subseteq left',
           \A q \in Patches \ {p} : pc'[q] = pc[q] /\ mem'[q] = mem[q] /\ st'[q] = st[q],
           pc'[p] # "create", {st'[p].id, mem'[p].id} \subseteq {st[p].id, mem[p].id, None},
           Blank(p)'
    PROVE  OwnInv'
<1>1. \A id \in Ids : id # st[p].id /\ id # mem[p].id => Own(obj', id) \subseteq Own(obj, id)
  BY DEF OwnOnly
<1>2. Vacant'
  <2>1. CASE obj' = obj
    BY <2>1 DEF OwnInv, Vacant, Own
  <2>2. CASE obj'.live
    BY <2>2 DEF Vacant
  <2>3. QED
    BY <2>1, <2>2 DEF OwnOnly
<1>3. OwnersKnown'
  <2>1. SUFFICES ASSUME NEW id \in Ids, Own(obj', id) # {}
                 PROVE  id \in left' \/ \E q \in Patches : id \in {st'[q].id, mem'[q].id}
    BY DEF OwnersKnown, Own
  <2>2. CASE id \in {st[p].id, mem[p].id}
    BY <2>1, <2>2 DEF Settles
  <2>3. CASE id \notin {st[p].id, mem[p].id}
    <3>1. Own(obj, id) # {}
      BY <1>1, <2>1, <2>3
    <3>2. id \in left \/ \E q \in Patches \ {p} : id \in {st[q].id, mem[q].id}
      BY <2>3, <3>1 DEF OwnInv, OwnersKnown
    <3>3. QED
      BY <3>2
  <2>4. QED
    BY <2>2, <2>3
<1>4. ASSUME NEW q \in Patches \ {p} PROVE Secret(q)' /\ Blank(q)'
  <2>1. Blank(q)'
    BY <1>4 DEF OwnInv, Blank
  <2>2. CASE pc[q] = "create"
    <3>1. /\ mem[q].id \in Ids /\ Own(obj, mem[q].id) = {}
          /\ \A r \in Patches : st[r].id # mem[q].id /\ (r # q => mem[r].id # mem[q].id)
      BY <1>4, <2>2 DEF PatchInv, Good, Session, OwnInv, Secret
    <3>2. Own(obj', mem[q].id) = {}
      BY <1>1, <1>4, <3>1
    <3>3. \A r \in Patches : st'[r].id # mem[q].id /\ (r # q => mem'[r].id # mem[q].id)
      BY <1>4, <3>1, IdAssumption
    <3>4. QED
      BY <1>4, <2>1, <3>2, <3>3 DEF Secret, Own
  <2>3. CASE pc[q] # "create"
    BY <1>4, <2>1, <2>3 DEF Secret
  <2>4. QED
    BY <2>2, <2>3
<1>5. Secret(p)'
  BY DEF Secret
<1>6. QED
  BY <1>2, <1>3, <1>4, <1>5 DEF OwnInv

LEMMA PatchedOnly ==
    ASSUME PatchInv, NEW p \in Patches, NEW id \in {st[p].id, mem[p].id} \cap Ids,
           NEW kind \in AllKinds, NEW body \in Body, obj.live \/ kind = "ssa",
           obj' = Patched(obj, id, kind, body)
    PROVE  OwnOnly(p)
<1>1. obj \in Object
  BY DEF PatchInv, TypeOK
<1>2. obj'.live /\ \A j : j # id => Own(obj', j) \subseteq Own(obj, j)
  BY <1>1, PatchedEffect
<1>3. QED
  BY <1>2 DEF OwnOnly

LEMMA GotoOwners ==
    ASSUME PatchInv, OwnInv, NEW p \in Patches, NEW label \in Pcs \ {"idle", "create"},
           NEW o \in Object, NEW seen \in SUBSET Fields, Goto(p, label, o, seen),
           UNCHANGED <<st, left>>, label = "createBack" => pc[p] = "create", OwnOnly(p)
    PROVE  OwnInv'
<1>1. /\ pc'[p] = label /\ mem'[p].id = mem[p].id
      /\ \A q \in Patches \ {p} : Untouched(q)
  BY GotoEffect DEF PatchInv
<1>2. \A q \in Patches \ {p} : pc'[q] = pc[q] /\ mem'[q] = mem[q] /\ st'[q] = st[q]
  BY <1>1 DEF Untouched
<1>3. Settles(p)
  BY <1>1 DEF Settles
<1>4. Blank(p)'
  BY <1>1 DEF OwnInv, Blank
<1>5. QED
  BY <1>1, <1>2, <1>3, <1>4, HandlerOwners

LEMMA ReturnOwners ==
    ASSUME PatchInv, OwnInv, NEW p \in Patches, NEW o \in Object, NEW inStep \in BOOLEAN,
           NEW s \in State, Return(p, o, inStep), Stores(p, s),
           left \subseteq left', s.id \in {st[p].id, mem[p].id, None}, ~s.exists => s.id = None,
           OwnOnly(p),
           \A id \in {st[p].id, mem[p].id} \cap Ids :
              id \in left' \cup {s.id} \/ Own(o, id) = {}
    PROVE  OwnInv'
<1>1. /\ obj' = o /\ pc'[p] = "idle" /\ mem'[p] = NoMem
      /\ \A q \in Patches \ {p} : Untouched(q)
  BY ReturnEffect DEF PatchInv
<1>2. st'[p] = s /\ \A q \in Patches \ {p} : st'[q] = st[q]
  BY DEF PatchInv, TypeOK, Stores
<1>3. \A q \in Patches \ {p} : pc'[q] = pc[q] /\ mem'[q] = mem[q] /\ st'[q] = st[q]
  BY <1>1, <1>2 DEF Untouched
<1>4. mem'[p].id = None
  BY <1>1 DEF NoMem
<1>5. Settles(p)
  BY <1>1, <1>2 DEF Settles
<1>6. Blank(p)'
  BY <1>1, <1>2 DEF Blank
<1>7. QED
  BY <1>1, <1>2, <1>3, <1>4, <1>5, <1>6, HandlerOwners

\* Returning with the same id in the state, if any, and none of a Create's.
LEMMA ReturnSameOwners ==
    ASSUME PatchInv, OwnInv, NEW p \in Patches, NEW o \in Object, NEW inStep \in BOOLEAN,
           NEW s \in State, Return(p, o, inStep), Stores(p, s),
           left' = left, s.id = st[p].id, s.exists = st[p].exists, OwnOnly(p),
           pc[p] \notin {"create", "createBack"}
    PROVE  OwnInv'
<1>1. mem[p].id \notin Ids
  BY IdAssumption DEF PatchInv, Good, Session
<1>2. ~s.exists => s.id = None
  BY DEF OwnInv, Blank
<1>3. QED
  BY <1>1, <1>2, ReturnOwners

LEMMA CreateOwners ==
    ASSUME PatchInv, OwnInv, NEW p \in Patches,
           \/ CreateGet(p) \/ CreateGetFails(p) \/ CreateApply(p) \/ CreateApplyFails(p)
           \/ CreateBack(p) \/ CreateBackFails(p)
    PROVE  OwnInv'
<1>1. TypeOK /\ Session(p) /\ Blank(p) /\ Secret(p) /\ obj \in Object /\ st[p] \in State
  BY DEF PatchInv, OwnInv, TypeOK, Good
<1>2. plan[p].kind \in AllKinds /\ plan[p].body \in Body /\ mem[p].seen \in SUBSET Fields
      /\ quiet[p] \in BOOLEAN
  BY <1>1, FieldTypes
<1>3. st[p].id = None /\ st[p].id \notin Ids
  BY <1>1, IdAssumption DEF CreateGet, CreateGetFails, CreateApply, CreateApplyFails, CreateBack,
     CreateBackFails, Blank
<1>4. CASE CreateGet(p)
  <2>1. PICK id \in Ids \ UsedIds :
          mem' = [mem EXCEPT ![p].id = id] /\ pc' = [pc EXCEPT ![p] = "create"]
    BY <1>4 DEF CreateGet
  <2>2. UNCHANGED <<obj, st, left>> /\ ~st[p].exists /\ pc[p] = "idle"
    BY <1>4 DEF CreateGet
  <2>3. mem'[p].id = id /\ pc'[p] = "create"
        /\ \A q \in Patches \ {p} : mem'[q] = mem[q] /\ pc'[q] = pc[q]
    BY <1>1, <2>1 DEF TypeOK, Locals
  <2>4. /\ \A q \in Patches : st[q].id # id /\ mem[q].id # id
        /\ Own(obj, id) = {}
    BY <2>1 DEF UsedIds
  <2>5. mem[p].id \notin Ids
    BY <1>1, <2>2, IdAssumption DEF Session
  <2>6. Vacant'
    BY <2>2 DEF OwnInv, Vacant, Own
  <2>7. OwnersKnown'
    <3>1. SUFFICES ASSUME NEW j \in Ids, Own(obj, j) # {}
                   PROVE  j \in left \/ \E q \in Patches : j \in {st[q].id, mem'[q].id}
      BY <2>2 DEF OwnersKnown, Own
    <3>2. j \in left \/ \E q \in Patches : j \in {st[q].id, mem[q].id}
      BY <3>1 DEF OwnInv, OwnersKnown
    <3>3. QED
      BY <2>3, <2>5, <3>2
  <2>8. Secret(p)' /\ Blank(p)'
    BY <1>3, <2>2, <2>3, <2>4 DEF Secret, Blank, Own
  <2>9. ASSUME NEW q \in Patches \ {p} PROVE Secret(q)' /\ Blank(q)'
    <3>1. Secret(q) /\ Blank(q)
      BY DEF OwnInv
    <3>2. Blank(q)'
      BY <2>2, <2>3, <2>9, <3>1 DEF Blank
    <3>3. Secret(q)'
      BY <2>2, <2>3, <2>4, <2>9, <3>1 DEF Secret, Own
    <3>4. QED
      BY <3>2, <3>3
  <2>10. QED
    BY <2>6, <2>7, <2>8, <2>9 DEF OwnInv
<1>5. CASE CreateGetFails(p)
  <2>1. Return(p, obj, FALSE) /\ UNCHANGED <<st, left>> /\ pc[p] = "idle"
    BY <1>5 DEF CreateGetFails
  <2>2. Stores(p, st[p])
    BY <1>1, <2>1 DEF TypeOK, Stores
  <2>3. OwnOnly(p)
    BY <2>1 DEF Return, Disturbs, OwnOnly
  <2>4. QED
    BY <1>1, <2>1, <2>2, <2>3, ReturnSameOwners
<1>6. CASE CreateApply(p)
  <2> DEFINE o == Patched(obj, mem[p].id, plan[p].kind, plan[p].body)
  <2>1. pc[p] = "create" /\ UNCHANGED <<st, left>> /\ Goto(p, "createBack", o, Own(o, mem[p].id))
        /\ (obj.live \/ plan[p].kind = "ssa")
    BY <1>6 DEF CreateApply
  <2>2. mem[p].id \in Ids /\ "createBack" \in Pcs \ {"idle", "create"}
    BY <1>1, <2>1 DEF Session, Pcs
  <2>3. o \in Object /\ Own(o, mem[p].id) \in SUBSET Fields
    BY <1>1, <1>2, <2>2, PatchedEffect, OwnType
  <2>4. obj' = o
    BY <2>1 DEF Goto, Disturbs
  <2>5. OwnOnly(p)
    BY <1>2, <2>1, <2>2, <2>4, PatchedOnly
  <2> HIDE DEF o
  <2>6. QED
    BY <2>1, <2>2, <2>3, <2>5, GotoOwners
<1>7. CASE CreateApplyFails(p)
  <2>1. PICK o \in LeftByError(mem[p].id, plan[p].kind, plan[p].body) :
          /\ left' = IF o = obj THEN left ELSE left \cup {mem[p].id}
          /\ Return(p, o, FALSE)
    BY <1>7 DEF CreateApplyFails
  <2>2. pc[p] = "create" /\ st' = st
    BY <1>7 DEF CreateApplyFails
  <2>3. mem[p].id \in Ids /\ Own(obj, mem[p].id) = {}
    BY <1>1, <2>2 DEF Session, Secret
  <2>4. o \in Object /\ (o = obj \/ (obj.live /\ o = Patched(obj, mem[p].id, plan[p].kind, plan[p].body)))
    BY <1>1, <1>2, <2>1, <2>3, LeftByErrorType
  <2>5. obj' = o
    BY <2>1 DEF Return, Disturbs
  <2>6. OwnOnly(p)
    <3>1. CASE o = obj
      BY <2>5, <3>1 DEF OwnOnly
    <3>2. CASE o # obj
      BY <1>2, <2>3, <2>4, <2>5, <3>2, PatchedOnly
    <3>3. QED
      BY <3>1, <3>2
  <2>7. Stores(p, st[p])
    BY <1>1, <2>2 DEF TypeOK, Stores
  <2>8. left \subseteq left' /\ (mem[p].id \in left' \/ Own(o, mem[p].id) = {})
    BY <2>1, <2>3
  <2>9. QED
    BY <1>1, <1>3, <2>1, <2>4, <2>6, <2>7, <2>8, ReturnOwners
<1>8. CASE CreateBack(p)
  <2> DEFINE mf == IF plan[p].kind = "ssa" THEN Own(obj, mem[p].id) ELSE mem[p].seen
             s == Saved(p, mem[p].id, mf)
  <2>1. pc[p] = "createBack" /\ Stores(p, s) /\ Return(p, obj, quiet[p])
        /\ left' = left
    BY <1>8 DEF CreateBack, Stores
  <2>2. mem[p].id \in Ids /\ mf \in SUBSET Fields
    BY <1>1, <1>2, <2>1, OwnType DEF Session
  <2>3. s \in State /\ s.id = mem[p].id
    BY <1>1, <2>2, SavedType
  <2>4. s.exists
    BY DEF Saved
  <2>5. OwnOnly(p)
    BY <2>1 DEF Return, Disturbs, OwnOnly
  <2> HIDE DEF s
  <2>6. QED
    BY <1>1, <1>2, <1>3, <2>1, <2>3, <2>4, <2>5, ReturnOwners
<1>9. CASE CreateBackFails(p)
  <2>1. Return(p, obj, FALSE) /\ st' = st /\ left' = left \cup {mem[p].id}
    BY <1>9 DEF CreateBackFails
  <2>2. Stores(p, st[p])
    BY <1>1, <2>1 DEF TypeOK, Stores
  <2>3. OwnOnly(p)
    BY <2>1 DEF Return, Disturbs, OwnOnly
  <2>4. QED
    BY <1>1, <1>3, <2>1, <2>2, <2>3, ReturnOwners
<1>10. QED
  BY <1>4, <1>5, <1>6, <1>7, <1>8, <1>9

LEMMA ReadOwners ==
    ASSUME PatchInv, OwnInv, NEW p \in Patches,
           ReadGet(p) \/ ReadApply(p) \/ ReadApplyFails(p) \/ ReadBack(p) \/ ReadBackFails(p)
    PROVE  OwnInv'
<1>1. TypeOK /\ Session(p) /\ obj \in Object /\ st[p] \in State
  BY DEF PatchInv, TypeOK, Good
<1>2. st[p].kind \in AllKinds /\ st[p].body \in Body /\ mem[p].seen \in SUBSET Fields
      /\ quiet[p] \in BOOLEAN
  BY <1>1, FieldTypes
<1>3. st[p].exists /\ pc[p] \notin {"create", "createBack"} /\ left' = left
  BY <1>1 DEF ReadGet, ReadApply, ReadApplyFails, ReadBack, ReadBackFails, Session
<1>4. st[p].id \in Ids /\ Own(obj, st[p].id) \in SUBSET Fields
  BY <1>1, <1>3, OwnType DEF Session
<1>5. ASSUME NEW o \in Object, NEW inStep \in BOOLEAN, NEW mf \in SUBSET Fields, OwnOnly(p),
             Return(p, o, inStep), st' = [st EXCEPT ![p].mf = mf]
      PROVE  OwnInv'
  <2> DEFINE s == [st[p] EXCEPT !.mf = mf]
  <2>1. s \in State /\ s.id = st[p].id /\ s.exists = st[p].exists
    BY <1>1 DEF State
  <2>2. Stores(p, s)
    BY <1>1, <1>5 DEF TypeOK, Stores
  <2> HIDE DEF s
  <2>3. QED
    BY <1>3, <1>5, <2>1, <2>2, ReturnSameOwners
<1>6. ASSUME obj' = obj PROVE OwnOnly(p)
  BY <1>6 DEF OwnOnly
<1>7. CASE ReadGet(p)
  <2>1. CASE ~obj.live /\ Stores(p, NoState) /\ Return(p, obj, FALSE)
    <3>1. NoState \in State /\ NoState.id = None
      BY NoneTypes DEF NoState
    <3>2. \A id \in Ids : Own(obj, id) = {}
      BY <2>1 DEF OwnInv, Vacant
    <3>3. OwnOnly(p)
      BY <1>6, <2>1 DEF Return, Disturbs
    <3>4. QED
      BY <1>1, <1>3, <2>1, <3>1, <3>2, <3>3, ReturnOwners
  <2>2. CASE Return(p, obj, TRUE) /\ st' = [st EXCEPT ![p].mf = Own(obj, st[p].id)]
    BY <1>1, <1>4, <1>5, <1>6, <2>2 DEF Return, Disturbs
  <2>3. CASE st' = st /\ Goto(p, "read", obj, Own(obj, st[p].id))
    <3>1. OwnOnly(p)
      BY <1>6, <2>3 DEF Goto, Disturbs
    <3>2. "read" \in Pcs \ {"idle", "create"} /\ "read" # "createBack"
      BY DEF Pcs
    <3>3. QED
      BY <1>1, <1>3, <1>4, <2>3, <3>1, <3>2, GotoOwners
  <2>4. QED
    BY <1>7, <2>1, <2>2, <2>3 DEF ReadGet, Stores
<1>8. CASE ReadApply(p)
  <2> DEFINE o == Patched(obj, st[p].id, st[p].kind, st[p].body)
             seen == IF st[p].kind = "raw" THEN Own(o, st[p].id) ELSE mem[p].seen
  <2>1. Goto(p, "readBack", o, seen) /\ st' = st /\ (obj.live \/ st[p].kind = "ssa")
    BY <1>8 DEF ReadApply
  <2>2. o \in Object /\ seen \in SUBSET Fields
    BY <1>1, <1>2, <1>4, PatchedEffect, OwnType
  <2>3. OwnOnly(p)
    BY <1>2, <1>4, <2>1, PatchedOnly DEF Goto, Disturbs
  <2>4. "readBack" \in Pcs \ {"idle", "create"} /\ "readBack" # "createBack"
    BY DEF Pcs
  <2> HIDE DEF o, seen
  <2>5. QED
    BY <1>3, <2>1, <2>2, <2>3, <2>4, GotoOwners
<1>9. CASE ReadApplyFails(p)
  <2>1. PICK o \in LeftByError(st[p].id, st[p].kind, st[p].body) : Return(p, o, FALSE)
    BY <1>9 DEF ReadApplyFails
  <2>2. o \in Object /\ (o = obj \/ (obj.live /\ o = Patched(obj, st[p].id, st[p].kind, st[p].body)))
    BY <1>1, <1>2, <1>4, LeftByErrorType
  <2>3. obj' = o
    BY <2>1 DEF Return, Disturbs
  <2>4. OwnOnly(p)
    BY <1>2, <1>4, <1>6, <2>2, <2>3, PatchedOnly
  <2>5. QED
    BY <1>2, <1>5, <1>9, <2>1, <2>2, <2>4 DEF ReadApplyFails
<1>10. CASE ReadBack(p)
  <2> DEFINE mf == IF st[p].kind = "ssa" THEN Own(obj, st[p].id) ELSE mem[p].seen
  <2>1. st' = [st EXCEPT ![p].mf = mf] /\ Return(p, obj, quiet[p])
    BY <1>10 DEF ReadBack
  <2>2. mf \in SUBSET Fields
    BY <1>2, <1>4
  <2>3. OwnOnly(p)
    BY <1>6, <2>1 DEF Return, Disturbs
  <2> HIDE DEF mf
  <2>4. QED
    BY <1>1, <1>2, <1>5, <2>1, <2>2, <2>3
<1>11. CASE ReadBackFails(p)
  <2>1. st' = [st EXCEPT ![p].mf = mem[p].seen] /\ Return(p, obj, FALSE)
    BY <1>11 DEF ReadBackFails
  <2>2. OwnOnly(p)
    BY <1>6, <2>1 DEF Return, Disturbs
  <2>3. QED
    BY <1>1, <1>2, <1>5, <2>1, <2>2
<1>12. QED
  BY <1>7, <1>8, <1>9, <1>10, <1>11

LEMMA UpdateOwners ==
    ASSUME PatchInv, OwnInv, NEW p \in Patches,
           \/ UpdateGet(p) \/ UpdateGetFails(p) \/ UpdateApply(p) \/ UpdateApplyFails(p)
           \/ UpdateFresh(p) \/ UpdateFreshFails(p)
    PROVE  OwnInv'
<1>1. TypeOK /\ Session(p) /\ obj \in Object /\ st[p] \in State
  BY DEF PatchInv, TypeOK, Good
<1>2. plan[p].kind \in AllKinds /\ plan[p].body \in Body
      /\ quiet[p] \in BOOLEAN /\ calm[p] \in BOOLEAN
  BY <1>1, FieldTypes
<1>3. st[p].exists /\ pc[p] \notin {"create", "createBack"} /\ left' = left
  BY <1>1 DEF UpdateGet, UpdateGetFails, UpdateApply, UpdateApplyFails, UpdateFresh,
              UpdateFreshFails, Session
<1>4. st[p].id \in Ids /\ Own(obj, st[p].id) \in SUBSET Fields /\ {} \in SUBSET Fields
  BY <1>1, <1>3, OwnType DEF Session
<1>5. ASSUME NEW o \in Object, NEW inStep \in BOOLEAN, OwnOnly(p), Return(p, o, inStep), st' = st
      PROVE  OwnInv'
  <2>1. Stores(p, st[p])
    BY <1>1, <1>5 DEF TypeOK, Stores
  <2>2. QED
    BY <1>1, <1>3, <1>5, <2>1, ReturnSameOwners
<1>6. ASSUME obj' = obj PROVE OwnOnly(p)
  BY <1>6 DEF OwnOnly
<1>7. CASE UpdateGet(p)
  <2>1. Goto(p, "update", obj, {}) /\ st' = st
    BY <1>7 DEF UpdateGet
  <2>2. OwnOnly(p) /\ "update" \in Pcs \ {"idle", "create"} /\ "update" # "createBack"
    BY <1>6, <2>1 DEF Goto, Disturbs, Pcs
  <2>3. QED
    BY <1>1, <1>3, <1>4, <2>1, <2>2, GotoOwners
<1>8. CASE UpdateGetFails(p) \/ UpdateFreshFails(p)
  <2>1. st' = st /\ (Return(p, obj, calm[p]) \/ Return(p, obj, FALSE))
    BY <1>8 DEF UpdateGetFails, UpdateFreshFails
  <2>2. OwnOnly(p)
    BY <1>6, <2>1 DEF Return, Disturbs
  <2>3. QED
    BY <1>1, <1>2, <1>5, <2>1, <2>2
<1>9. CASE UpdateApply(p)
  <2> DEFINE o == Patched(obj, st[p].id, plan[p].kind, plan[p].body)
  <2>1. Goto(p, "updateBack", o, {}) /\ st' = st /\ (obj.live \/ plan[p].kind = "ssa")
    BY <1>9 DEF UpdateApply
  <2>2. o \in Object
    BY <1>1, <1>2, <1>4, PatchedEffect
  <2>3. OwnOnly(p)
    BY <1>2, <1>4, <2>1, PatchedOnly DEF Goto, Disturbs
  <2>4. "updateBack" \in Pcs \ {"idle", "create"} /\ "updateBack" # "createBack"
    BY DEF Pcs
  <2> HIDE DEF o
  <2>5. QED
    BY <1>3, <1>4, <2>1, <2>2, <2>3, <2>4, GotoOwners
<1>10. CASE UpdateApplyFails(p)
  <2>1. PICK o \in LeftByError(st[p].id, plan[p].kind, plan[p].body) : Return(p, o, FALSE)
    BY <1>10 DEF UpdateApplyFails
  <2>2. o \in Object /\ (o = obj \/ (obj.live /\ o = Patched(obj, st[p].id, plan[p].kind, plan[p].body)))
    BY <1>1, <1>2, <1>4, LeftByErrorType
  <2>3. obj' = o
    BY <2>1 DEF Return, Disturbs
  <2>4. OwnOnly(p)
    BY <1>2, <1>4, <1>6, <2>2, <2>3, PatchedOnly
  <2>5. QED
    BY <1>5, <1>10, <2>1, <2>2, <2>4 DEF UpdateApplyFails
<1>11. CASE UpdateFresh(p)
  <2> DEFINE s == Saved(p, st[p].id, Own(obj, st[p].id))
  <2>1. Stores(p, s) /\ Return(p, obj, quiet[p])
    BY <1>11 DEF UpdateFresh, Stores
  <2>2. s \in State /\ s.id = st[p].id
    BY <1>1, <1>4, SavedType
  <2>3. s.exists
    BY DEF Saved
  <2>4. OwnOnly(p)
    BY <1>6, <2>1 DEF Return, Disturbs
  <2> HIDE DEF s
  <2>5. QED
    BY <1>1, <1>2, <1>3, <2>1, <2>2, <2>3, <2>4, ReturnSameOwners
<1>12. QED
  BY <1>7, <1>8, <1>9, <1>10, <1>11

LEMMA DeleteOwners ==
    ASSUME PatchInv, OwnInv, NEW p \in Patches, Delete(p)
    PROVE  OwnInv'
<1>1. NoState \in State /\ NoState.id = None /\ obj \in Object /\ pc[p] = "idle"
  BY NoneTypes DEF NoState, PatchInv, TypeOK, Delete
<1>2. mem[p].id \notin Ids
  BY <1>1, IdAssumption DEF PatchInv, Good, Session
<1>3. Stores(p, NoState) /\ Return(p, obj, FALSE) /\ left' = left \cup {st[p].id}
  BY DEF Delete, Stores
<1>4. OwnOnly(p)
  BY <1>3 DEF Return, Disturbs, OwnOnly
<1>5. QED
  BY <1>1, <1>2, <1>3, <1>4, ReturnOwners

\* Nothing that OwnInv is about changes, except that the others take fields away.
LEMMA OtherOwners ==
    ASSUME PatchInv, OwnInv, UNCHANGED <<st, pc, mem, left>>,
           \A id \in Ids : Own(obj', id) \subseteq Own(obj, id),
           obj'.live = obj.live \/ \A id \in Ids : Own(obj', id) = {}
    PROVE  OwnInv'
<1>1. Vacant'
  BY DEF OwnInv, Vacant, Own
<1>2. OwnersKnown'
  <2>1. SUFFICES ASSUME NEW id \in Ids, Own(obj', id) # {}
                 PROVE  id \in left \/ \E q \in Patches : id \in {st[q].id, mem[q].id}
    BY DEF OwnersKnown, Own
  <2>2. Own(obj, id) # {}
    BY <2>1
  <2>3. QED
    BY <2>2 DEF OwnInv, OwnersKnown
<1>3. ASSUME NEW p \in Patches PROVE Secret(p)' /\ Blank(p)'
  <2>1. Blank(p)'
    BY DEF OwnInv, Blank
  <2>2. pc[p] = "create" => Own(obj', mem[p].id) = {}
    BY DEF PatchInv, Good, Session, OwnInv, Secret
  <2>3. Secret(p)'
    BY <2>2 DEF OwnInv, Secret, Own
  <2>4. QED
    BY <2>1, <2>3
<1>4. QED
  BY <1>1, <1>2, <1>3 DEF OwnInv

LEMMA InitOwnInv == Init => OwnInv
<1> SUFFICES ASSUME Init PROVE OwnInv
  OBVIOUS
<1>1. obj.live /\ \A id \in Ids : Own(obj, id) = {}
  <2>1. PICK m \in Others, body \in Bodies \cup {Empty} :
          obj = [live |-> TRUE, val |-> body, owned |-> FALSE,
                 by |-> [f \in Fields |-> IF body[f] = None THEN {} ELSE {m}]]
    BY DEF Init
  <2>2. \A id \in Ids : m \notin {id} \X AllKinds
    BY OtherAssumption DEF PatchManagers
  <2>3. \A f \in Fields : obj.by[f] = {} \/ obj.by[f] = {m}
    BY <2>1
  <2>4. \A id \in Ids : Own(obj, id) = {}
    BY <2>2, <2>3 DEF Own
  <2>5. QED
    BY <2>1, <2>4
<1>2. \A p \in Patches : st[p] = NoState /\ pc[p] = "idle"
  BY DEF Init
<1>3. QED
  BY <1>1, <1>2 DEF OwnInv, Vacant, OwnersKnown, Secret, Blank, NoState

LEMMA NextOwnInv == PatchInv /\ OwnInv /\ [Next]_vars => OwnInv'
<1> SUFFICES ASSUME PatchInv, OwnInv, [Next]_vars PROVE OwnInv'
  OBVIOUS
<1>1. ASSUME UNCHANGED <<obj, st, pc, mem, left>> PROVE OwnInv'
  <2>1. UNCHANGED <<st, pc, mem, left>> /\ obj' = obj
    BY <1>1
  <2>2. QED
    BY <2>1, OtherOwners
<1>2. ASSUME NEW p \in Patches, Handler(p) PROVE OwnInv'
  BY <1>2, CreateOwners, ReadOwners, UpdateOwners, DeleteOwners DEF Handler
<1>3. ASSUME NEW p \in Patches,
             PlanGet(p) \/ PlanMissing(p) \/ PlanBlind(p) \/ Discard(p) \/ Configure(p)
      PROVE  OwnInv'
  BY <1>1, <1>3 DEF PlanGet, PlanMissing, PlanBlind, Discard, Configure, CanPlan
<1>4. CASE Environment
  <2>1. PICK o \in Object :
          /\ Outside(o)
          /\ \A id \in Ids : Own(o, id) \subseteq Own(obj, id)
          /\ o.live = obj.live \/ \A id \in Ids : Own(o, id) = {}
    BY <1>4, OutsideObject DEF PatchInv
  <2>2. obj' = o /\ UNCHANGED <<st, pc, mem, left>>
    BY <2>1 DEF Outside
  <2>3. QED
    BY <2>1, <2>2, OtherOwners
<1>5. QED
  BY <1>1, <1>2, <1>3, <1>4 DEF Next, vars

\* A field of the target whose owner is a patch has one that a state or a
\* running handler knows, or that Delete or a failed Create left behind.
THEOREM OwnersAreKnown == Spec => []OwnersKnown
<1>1. PatchInv /\ OwnInv => OwnersKnown
  BY DEF OwnInv
<1>2. QED
  BY <1>1, InitPatchInv, NextPatchInv, InitOwnInv, NextOwnInv, PTL DEF Spec

-----------------------------------------------------------------------------
(* What a plan compares.                                                    *)

\* A projection is of an apply, and shows the visible fields of its content.
Shows(s) == s.kind = "ssa" /\ \A f \in Set(s.body) \ Hidden : s.proj.val[f] = s.body[f]

Shown(p) ==
    /\ st[p].proj.tag = "known" => Shows(st[p])
    /\ plan[p].proj.tag = "known" => Shows(plan[p])

\* If a plan has another content than the configuration, it is that of the state,
\* whose projection shows the visible fields of both.
Kept(p) ==
    plan[p].exists /\ st[p].exists /\ plan[p].body # conf[p].body =>
        /\ st[p].proj.tag = "known"
        /\ \A f \in Set(conf[p].body) \ Hidden : st[p].proj.val[f] = conf[p].body[f]

\* A plan has the values of a state.
Preserves(n, c, s) ==
    /\ n.kind = s.kind /\ n.body = s.body /\ n.other = c.other
    /\ n.proj = s.proj /\ n.mf = s.mf /\ n.mfKnown

\* What a dry run of the configuration shows.
DryProjection(p) ==
    Known(Projection(Applied(obj, <<st[p].id, "ssa">>, conf[p].body), st[p].id))

\* As long as the state is calm, its plan is one that could be made now.
Fresh(p) ==
    pc[p] = "idle" /\ plan[p].exists /\ st[p].exists /\ calm[p] =>
        \/ plan[p].proj.tag = "unknown"
        \/ Preserves(plan[p], conf[p], st[p])
        \/ conf[p].kind = "raw" /\ PatchChanged(st[p], conf[p].body, Null)
        \/ conf[p].kind = "ssa" /\ PatchChanged(st[p], conf[p].body, DryProjection(p))

Planning(p) == Shown(p) /\ Kept(p) /\ Fresh(p)

PlanInv == \A p \in Patches : Planning(p)

\* Two plans differ at most in whether they are up to date.
SamePlan(n, m) ==
    /\ n.exists = m.exists /\ n.kind = m.kind /\ n.body = m.body /\ n.other = m.other
    /\ n.proj = m.proj /\ n.mf = m.mf /\ n.mfKnown = m.mfKnown

\* What a step leaves to the plan of a patch that has no part in it.
Stays(q) ==
    /\ pc'[q] = pc[q] /\ st'[q] = st[q] /\ conf'[q] = conf[q]
    /\ SamePlan(plan'[q], plan[q])
    /\ calm'[q] => calm[q] /\ obj' = obj

LEMMA StaysPlanning ==
    ASSUME NEW q \in Patches, Stays(q), Planning(q)
    PROVE  Planning(q)'
<1>1. Shown(q)'
  BY DEF Stays, SamePlan, Planning, Shown, Shows
<1>2. Kept(q)'
  BY DEF Stays, SamePlan, Planning, Kept
<1>3. Fresh(q)'
  <2>1. SUFFICES ASSUME pc'[q] = "idle", plan'[q].exists, st'[q].exists, calm'[q]
                 PROVE  \/ plan'[q].proj.tag = "unknown"
                        \/ Preserves(plan'[q], conf'[q], st'[q])
                        \/ conf'[q].kind = "raw" /\ PatchChanged(st'[q], conf'[q].body, Null)
                        \/ conf'[q].kind = "ssa" /\ PatchChanged(st'[q], conf'[q].body, DryProjection(q)')
    BY DEF Fresh, Preserves, PatchChanged
  <2>2. obj' = obj /\ st'[q] = st[q] /\ conf'[q] = conf[q] /\ SamePlan(plan'[q], plan[q])
        /\ pc[q] = "idle" /\ plan[q].exists /\ st[q].exists /\ calm[q]
    BY <2>1 DEF Stays, SamePlan
  <2>3. DryProjection(q)' = DryProjection(q)
    BY <2>2 DEF DryProjection, Applied, Projection, Own
  <2>4. QED
    BY <2>2, <2>3 DEF Planning, Fresh, SamePlan, Preserves
<1>4. QED
  BY <1>1, <1>2, <1>3 DEF Planning

LEMMA GotoPlan ==
    ASSUME TypeOK, NEW p \in Patches, NEW label, NEW o, NEW seen, Goto(p, label, o, seen),
           label # "idle", UNCHANGED <<conf, st>>
    PROVE  /\ pc'[p] # "idle" /\ plan'[p] = plan[p]
           /\ \A q \in Patches \ {p} : Stays(q)
<1>1. pc' = [pc EXCEPT ![p] = label] /\ pc'[p] = label
  BY DEF Goto, TypeOK
<1>2. plan' = [q \in Patches |-> IF q # p THEN [plan[q] EXCEPT !.sound = @ /\ o = obj] ELSE plan[p]]
  BY <1>1 DEF Goto, Disturbs
<1>3. \A q \in Patches \ {p} : SamePlan(plan'[q], plan[q])
  BY <1>2 DEF SamePlan, TypeOK, Plan
<1>4. \A q \in Patches \ {p} : (calm'[q] => calm[q] /\ obj' = obj) /\ pc'[q] = pc[q]
  BY <1>1 DEF Goto, Disturbs, TypeOK
<1>5. QED
  BY <1>1, <1>2, <1>3, <1>4 DEF Stays

LEMMA ReturnPlan ==
    ASSUME TypeOK, NEW p \in Patches, NEW o, NEW inStep, NEW s, Return(p, o, inStep),
           Stores(p, s), UNCHANGED conf
    PROVE  /\ plan'[p] = NoPlan /\ st'[p] = s
           /\ \A q \in Patches \ {p} : Stays(q)
<1>1. pc' = [pc EXCEPT ![p] = "idle"] /\ pc'[p] = "idle"
  BY DEF Return, TypeOK
<1>2. plan' = [q \in Patches |-> IF q # p THEN [plan[q] EXCEPT !.sound = @ /\ o = obj] ELSE NoPlan]
  BY <1>1 DEF Return, Disturbs
<1>3. \A q \in Patches \ {p} : SamePlan(plan'[q], plan[q])
  BY <1>2 DEF SamePlan, TypeOK, Plan
<1>4. \A q \in Patches \ {p} : (calm'[q] => calm[q] /\ obj' = obj) /\ pc'[q] = pc[q]
  BY <1>1 DEF Return, Disturbs, TypeOK
<1>5. st'[p] = s /\ \A q \in Patches \ {p} : st'[q] = st[q]
  BY DEF Stores, TypeOK
<1>6. QED
  BY <1>1, <1>2, <1>3, <1>4, <1>5 DEF Stays

\* A handler that goes on has the plan and the state it had.
LEMMA GotoPlanning ==
    ASSUME TypeOK, PlanInv, NEW p \in Patches, NEW label, NEW o, NEW seen,
           Goto(p, label, o, seen), label # "idle", UNCHANGED <<conf, st>>
    PROVE  PlanInv'
<1>1. pc'[p] # "idle" /\ plan'[p] = plan[p] /\ \A q \in Patches \ {p} : Stays(q)
  BY GotoPlan
<1>2. Planning(p)'
  BY <1>1 DEF PlanInv, Planning, Shown, Shows, Kept, Fresh
<1>3. QED
  BY <1>1, <1>2, StaysPlanning DEF PlanInv

\* One that returns has no plan, and a projection that shows its content.
LEMMA ReturnPlanning ==
    ASSUME TypeOK, PlanInv, NEW p \in Patches, NEW o, NEW inStep, NEW s, Return(p, o, inStep),
           Stores(p, s), UNCHANGED conf, s.proj.tag = "known" => Shows(s)
    PROVE  PlanInv'
<1>1. plan'[p] = NoPlan /\ st'[p] = s /\ \A q \in Patches \ {p} : Stays(q)
  BY ReturnPlan
<1>2. NoPlan.proj.tag # "known" /\ ~NoPlan.exists
  BY DEF NoPlan, Null
<1>3. Planning(p)'
  BY <1>1, <1>2 DEF Planning, Shown, Shows, Kept, Fresh
<1>4. QED
  BY <1>1, <1>3, StaysPlanning DEF PlanInv

LEMMA HandlerPlanning ==
    ASSUME TypeOK, PlanInv, NEW p \in Patches, Handler(p)
    PROVE  PlanInv'
<1>1. Shown(p) /\ st[p] \in State
  BY DEF PlanInv, Planning, TypeOK
<1>2. ASSUME NEW o, NEW inStep, Return(p, o, inStep), UNCHANGED <<conf, st>> PROVE PlanInv'
  <2>1. Stores(p, st[p]) /\ UNCHANGED conf
    BY <1>2 DEF Stores, TypeOK
  <2>2. QED
    BY <1>1, <1>2, <2>1, ReturnPlanning DEF Shown
<1>3. ASSUME NEW o, NEW inStep, NEW mf, Return(p, o, inStep), UNCHANGED conf,
             st' = [st EXCEPT ![p].mf = mf]
      PROVE  PlanInv'
  <2> DEFINE s == [st[p] EXCEPT !.mf = mf]
  <2>1. s.proj = st[p].proj /\ s.body = st[p].body /\ s.kind = st[p].kind
    BY <1>1 DEF State
  <2>2. Stores(p, s)
    BY <1>3 DEF Stores, TypeOK
  <2> HIDE DEF s
  <2>3. s.proj.tag = "known" => Shows(s)
    BY <1>1, <2>1 DEF Shown, Shows
  <2>4. QED
    BY <1>3, <2>2, <2>3, ReturnPlanning
<1>4. ASSUME NEW o, NEW inStep, Return(p, o, inStep), UNCHANGED conf, Stores(p, NoState)
      PROVE  PlanInv'
  <2>1. NoState.proj.tag # "known"
    BY DEF NoState, Null
  <2>2. QED
    BY <1>4, <2>1, ReturnPlanning
<1>5. ASSUME NEW o, NEW inStep, NEW id, NEW mf, Return(p, o, inStep), UNCHANGED conf,
             Stores(p, Saved(p, id, mf))
      PROVE  PlanInv'
  <2> DEFINE s == Saved(p, id, mf)
  <2>1. s.body = plan[p].body /\ s.kind = plan[p].kind
        /\ s.proj = IF plan[p].proj.tag = "unknown" THEN Null ELSE plan[p].proj
    BY DEF Saved
  <2>2. Null.tag # "known"
    BY DEF Null
  <2> HIDE DEF s
  <2>3. s.proj.tag = "known" => Shows(s)
    BY <1>1, <2>1, <2>2 DEF Shown, Shows
  <2>4. QED
    BY <1>5, <2>3, ReturnPlanning DEF s
<1>6. CASE CreateGet(p)
  <2>1. pc'[p] # "idle" /\ UNCHANGED <<obj, conf, st, plan, calm>>
        /\ \A q \in Patches \ {p} : pc'[q] = pc[q]
    BY <1>6 DEF CreateGet, TypeOK
  <2>2. \A q \in Patches \ {p} : Stays(q)
    BY <2>1 DEF Stays, SamePlan
  <2>3. Planning(p)'
    BY <2>1 DEF PlanInv, Planning, Shown, Shows, Kept, Fresh
  <2>4. QED
    BY <2>2, <2>3, StaysPlanning DEF PlanInv
<1>7. CASE CreateGetFails(p) \/ CreateBackFails(p) \/ UpdateGetFails(p) \/ UpdateFreshFails(p)
           \/ CreateApplyFails(p) \/ UpdateApplyFails(p)
  BY <1>2, <1>7 DEF CreateGetFails, CreateBackFails, UpdateGetFails, UpdateFreshFails,
                    CreateApplyFails, UpdateApplyFails
<1>8. CASE ReadApplyFails(p) \/ ReadBack(p) \/ ReadBackFails(p)
  BY <1>3, <1>8 DEF ReadApplyFails, ReadBack, ReadBackFails
<1>9. CASE CreateBack(p) \/ UpdateFresh(p)
  BY <1>5, <1>9 DEF CreateBack, UpdateFresh, Stores
<1>10. CASE Delete(p)
  BY <1>4, <1>10 DEF Delete, Stores
<1>11. CASE CreateApply(p) \/ ReadApply(p) \/ UpdateGet(p) \/ UpdateApply(p)
  BY <1>11, GotoPlanning DEF CreateApply, ReadApply, UpdateGet, UpdateApply
<1>12. CASE ReadGet(p)
  <2>1. UNCHANGED conf
    BY <1>12 DEF ReadGet
  <2>2. CASE Return(p, obj, FALSE) /\ st' = [st EXCEPT ![p] = NoState]
    BY <1>4, <2>1, <2>2 DEF Stores
  <2>3. CASE Return(p, obj, TRUE) /\ st' = [st EXCEPT ![p].mf = Own(obj, st[p].id)]
    BY <1>3, <2>1, <2>3
  <2>4. CASE Goto(p, "read", obj, Own(obj, st[p].id)) /\ st' = st
    BY <2>1, <2>4, GotoPlanning
  <2>5. QED
    BY <1>12, <2>2, <2>3, <2>4 DEF ReadGet
<1>13. QED
  BY <1>6, <1>7, <1>8, <1>9, <1>10, <1>11, <1>12 DEF Handler

\* A dry run shows what it asks for.
LEMMA DryShows ==
    ASSUME NEW o \in Object, NEW id \in Ids \cup {Temp}, NEW body \in Body,
           NEW f \in Set(body) \ Hidden
    PROVE  Projection(Applied(o, <<id, "ssa">>, body), id)[f] = body[f]
<1> DEFINE m == <<id, "ssa">>
           a == Applied(o, m, body)
<1>1. m \in Managers /\ m \in {id} \X AllKinds /\ f \in Fields
  BY DEF Managers, PatchManagers, AllKinds, Set
<1>2. a.val[f] = body[f]
  BY <1>1, AppliedEffect
<1>3. m \in a.by[f]
  <2>1. a.by = [g \in Fields |-> IF body[g] = None THEN o.by[g] \ {m}
                                 ELSE IF body[g] = o.val[g] THEN o.by[g] \cup {m}
                                 ELSE {m}]
    BY DEF Applied, Object
  <2> HIDE DEF a
  <2>2. body[f] # None
    BY DEF Set
  <2>3. QED
    BY <1>1, <2>1, <2>2
<1> HIDE DEF a, m
<1>4. f \in Own(a, id) \ Hidden
  BY <1>1, <1>3 DEF Own
<1>5. Projection(a, id)[f] = body[f]
  BY <1>1, <1>2, <1>4 DEF Projection
<1>6. QED
  BY <1>5 DEF a, m

\* A plan made by ModifyPlan's dry run, or without one.
LEMMA PlannedPlanning ==
    ASSUME TypeOK, NEW p \in Patches, Planning(p), NEW proj, NEW mf, NEW mfKnown,
           UNCHANGED <<obj, conf, st, pc, calm>>, plan'[p] = Planned(p, proj, mf, mfKnown),
           proj.tag = "known" => /\ conf[p].kind = "ssa"
                                 /\ \A f \in Set(conf[p].body) \ Hidden : proj.val[f] = conf[p].body[f]
                                 /\ st[p].exists => proj = DryProjection(p),
           proj.tag = "null" => conf[p].kind = "raw" /\ proj = Null,
           proj.tag \in {"known", "null", "unknown"}
    PROVE  Planning(p)'
<1>1. st[p].proj.tag # "unknown"
  BY DEF TypeOK, State
<1>2. CASE ~st[p].exists \/ PatchChanged(st[p], conf[p].body, proj)
  <2>1. plan'[p] = [exists |-> TRUE, kind |-> conf[p].kind, body |-> conf[p].body,
                    other |-> conf[p].other, proj |-> proj, mf |-> mf, mfKnown |-> mfKnown,
                    sound |-> TRUE]
    BY <1>2 DEF Planned
  <2>2. plan'[p].kind = conf[p].kind /\ plan'[p].body = conf[p].body /\ plan'[p].proj = proj
    BY <2>1
  <2>3. Shown(p)'
    BY <2>2 DEF Planning, Shown, Shows
  <2>4. Kept(p)'
    BY <2>2 DEF Kept
  <2>5. Fresh(p)'
    <3>1. DryProjection(p)' = DryProjection(p)
      BY DEF DryProjection, Applied, Projection, Own
    <3>2. st[p].exists => \/ proj.tag = "unknown"
                          \/ conf[p].kind = "raw" /\ PatchChanged(st[p], conf[p].body, Null)
                          \/ conf[p].kind = "ssa" /\ PatchChanged(st[p], conf[p].body, DryProjection(p))
      BY <1>2
    <3>3. PatchChanged(st[p], conf[p].body, Null)' = PatchChanged(st[p], conf[p].body, Null)
      BY DEF PatchChanged, Null, Empty
    <3>4. PatchChanged(st[p], conf[p].body, DryProjection(p))'
            = PatchChanged(st[p], conf[p].body, DryProjection(p))
      BY <3>1 DEF PatchChanged
    <3>5. QED
      BY <2>2, <3>2, <3>3, <3>4 DEF Fresh
  <2>6. QED
    BY <2>3, <2>4, <2>5 DEF Planning
<1>3. CASE st[p].exists /\ ~PatchChanged(st[p], conf[p].body, proj)
  <2>1. plan'[p] = [exists |-> TRUE, kind |-> st[p].kind, body |-> st[p].body,
                    other |-> conf[p].other, proj |-> st[p].proj, mf |-> st[p].mf,
                    mfKnown |-> TRUE, sound |-> calm[p]]
    BY <1>3 DEF Planned
  <2>2. plan'[p].kind = st[p].kind /\ plan'[p].body = st[p].body /\ plan'[p].proj = st[p].proj
        /\ Preserves(plan'[p], conf[p], st[p])
    BY <2>1 DEF Preserves
  <2>3. Shown(p)'
    BY <2>2 DEF Planning, Shown, Shows
  <2>4. st[p].body # conf[p].body => proj.tag = "known" /\ st[p].proj = proj
    BY <1>1, <1>3 DEF PatchChanged
  <2>5. Kept(p)'
    BY <2>2, <2>4 DEF Kept
  <2>6. Fresh(p)'
    BY <2>2 DEF Fresh, Preserves
  <2>7. QED
    BY <2>3, <2>5, <2>6 DEF Planning
<1>4. QED
  BY <1>2, <1>3

LEMMA MakePlanning ==
    ASSUME PatchInv, PlanInv, NEW p \in Patches,
           PlanGet(p) \/ PlanMissing(p) \/ PlanBlind(p) \/ Discard(p)
    PROVE  PlanInv'
<1>1. TypeOK /\ Planning(p) /\ Session(p) /\ obj \in Object
  BY DEF PatchInv, PlanInv, TypeOK, Good
<1>2. UNCHANGED <<obj, conf, st, pc, calm>>
  BY DEF PlanGet, PlanMissing, PlanBlind, Discard, CanPlan
<1>3. \A q \in Patches \ {p} : Planning(q)'
  <2>1. \A q \in Patches \ {p} : plan'[q] = plan[q]
    BY <1>1 DEF PlanGet, PlanMissing, PlanBlind, Discard, TypeOK
  <2>2. \A q \in Patches \ {p} : Stays(q)
    BY <1>2, <2>1 DEF Stays, SamePlan
  <2>3. QED
    BY <2>2, StaysPlanning DEF PlanInv
<1>4. CASE PlanGet(p)
  <2> DEFINE id == DryRunId(p)
             val == Projection(Applied(obj, <<id, "ssa">>, conf[p].body), id)
             mf == Own(Applied(obj, <<id, "ssa">>, conf[p].body), id)
  <2>1. id \in Ids \cup {Temp}
    BY <1>1 DEF DryRunId, Session
  <2>2. conf[p].body \in Body
    BY <1>1, FieldTypes
  <2>3. \A f \in Set(conf[p].body) \ Hidden : val[f] = conf[p].body[f]
    BY <1>1, <2>1, <2>2, DryShows
  <2>4. st[p].exists => Known(val) = DryProjection(p)
    BY DEF DryRunId, DryProjection
  <2>5. Known(val).tag = "known" /\ Known(val).val = val /\ Null.tag = "null"
    BY DEF Known, Null
  <2>6. /\ conf[p].kind = "ssa" => plan'[p] = Planned(p, Known(val), mf, TRUE)
        /\ conf[p].kind # "ssa" => plan'[p] = Planned(p, Null, {}, FALSE)
    BY <1>1, <1>4 DEF PlanGet, TypeOK
  <2>7. conf[p].kind # "ssa" => conf[p].kind = "raw"
    BY <1>1, FieldTypes DEF AllKinds
  <2> HIDE DEF id, val, mf
  <2>8. ASSUME conf[p].kind = "ssa" PROVE Planning(p)'
    BY <1>1, <1>2, <2>3, <2>4, <2>5, <2>6, <2>8, PlannedPlanning
  <2>9. ASSUME conf[p].kind # "ssa" PROVE Planning(p)'
    BY <1>1, <1>2, <2>5, <2>6, <2>7, <2>9, PlannedPlanning
  <2>10. Planning(p)'
    BY <2>8, <2>9
  <2>11. QED
    BY <1>3, <2>10 DEF PlanInv
<1>5. CASE PlanMissing(p)
  <2>1. plan'[p] = Planned(p, Unknown, {}, FALSE)
    BY <1>1, <1>5 DEF PlanMissing, TypeOK
  <2>2. Unknown.tag = "unknown"
    BY DEF Unknown
  <2>3. Planning(p)'
    BY <1>1, <1>2, <2>1, <2>2, PlannedPlanning
  <2>4. QED
    BY <1>3, <2>3 DEF PlanInv
<1>6. CASE PlanBlind(p)
  <2>1. plan'[p].body = conf[p].body /\ plan'[p].proj = Unknown
    BY <1>1, <1>6 DEF PlanBlind, TypeOK
  <2>2. Unknown.tag = "unknown"
    BY DEF Unknown
  <2>3. Planning(p)'
    BY <1>1, <1>2, <2>1, <2>2 DEF Planning, Shown, Shows, Kept, Fresh
  <2>4. QED
    BY <1>3, <2>3 DEF PlanInv
<1>7. CASE Discard(p)
  <2>1. plan'[p] = NoPlan /\ NoPlan.proj.tag = "null" /\ ~NoPlan.exists
    BY <1>1, <1>7 DEF Discard, NoPlan, Null, TypeOK
  <2>2. Planning(p)'
    BY <1>1, <1>2, <2>1 DEF Planning, Shown, Shows, Kept, Fresh
  <2>3. QED
    BY <1>3, <2>2 DEF PlanInv
<1>8. QED
  BY <1>4, <1>5, <1>6, <1>7

LEMMA ConfigurePlanning ==
    ASSUME TypeOK, PlanInv, NEW p \in Patches, Configure(p)
    PROVE  PlanInv'
<1>1. UNCHANGED <<obj, st, plan, pc, calm>> /\ ~plan[p].exists
  BY DEF Configure
<1>2. \E c : conf' = [conf EXCEPT ![p] = c]
  BY DEF Configure
<1>3. \A q \in Patches \ {p} : conf'[q] = conf[q]
  BY <1>2 DEF TypeOK
<1>4. \A q \in Patches \ {p} : Stays(q)
  BY <1>1, <1>3 DEF Stays, SamePlan
<1>5. Planning(p)'
  BY <1>1 DEF PlanInv, Planning, Shown, Shows, Kept, Fresh
<1>6. QED
  BY <1>4, <1>5, StaysPlanning DEF PlanInv

LEMMA EnvironmentPlanning ==
    ASSUME TypeOK, PlanInv, Environment
    PROVE  PlanInv'
<1>1. PICK o \in Object : Outside(o)
  BY OutsideObject
<1>2. /\ UNCHANGED <<conf, st, pc>> /\ calm' = [p \in Patches |-> FALSE]
      /\ plan' = [p \in Patches |-> [plan[p] EXCEPT !.sound = FALSE]]
  BY <1>1 DEF Outside
<1>3. \A q \in Patches : SamePlan(plan'[q], plan[q])
  BY <1>2 DEF SamePlan, TypeOK, Plan
<1>4. \A q \in Patches : Stays(q)
  BY <1>2, <1>3 DEF Stays
<1>5. QED
  BY <1>4, StaysPlanning DEF PlanInv

LEMMA InitPlanInv == Init => PlanInv
BY DEF Init, NoState, NoPlan, Null, PlanInv, Planning, Shown, Kept, Fresh

LEMMA NextPlanInv == PatchInv /\ PlanInv /\ [Next]_vars => PlanInv'
<1> SUFFICES ASSUME PatchInv, PlanInv, [Next]_vars PROVE PlanInv'
  OBVIOUS
<1>1. TypeOK
  BY DEF PatchInv
<1>2. CASE UNCHANGED vars
  <2>1. \A q \in Patches : Stays(q)
    BY <1>2 DEF vars, Stays, SamePlan
  <2>2. QED
    BY <2>1, StaysPlanning DEF PlanInv
<1>3. QED
  BY <1>1, <1>2, HandlerPlanning, MakePlanning, ConfigurePlanning, EnvironmentPlanning DEF Next

\* What a visible field shows is its value.
LEMMA ShownValue ==
    ASSUME NEW o, NEW id, NEW f \in Fields, Projection(o, id)[f] # None
    PROVE  Projection(o, id)[f] = o.val[f]
BY DEF Projection

\* A plan that keeps the content of the state instead of that of the configuration
\* leaves the target with the visible values asked for (hasPatchChanged).
THEOREM KeptIsHarmless == Spec => []KeptContentHarmless
<1>1. ASSUME PlanInv PROVE KeptContentHarmless
  <2>1. SUFFICES ASSUME NEW p \in Patches, plan[p].exists, st[p].exists, Current(p),
                        plan[p].body # conf[p].body, NEW f \in Set(conf[p].body) \ Hidden
                 PROVE  obj.val[f] = conf[p].body[f]
    BY DEF KeptContentHarmless
  <2>2. st[p].proj.tag = "known" /\ st[p].proj.val[f] = conf[p].body[f]
    BY <1>1, <2>1 DEF PlanInv, Planning, Kept
  <2>3. Projection(obj, st[p].id)[f] = conf[p].body[f] /\ conf[p].body[f] # None /\ f \in Fields
    BY <2>1, <2>2 DEF Current, Set
  <2>4. QED
    BY <2>3, ShownValue
<1>2. QED
  BY <1>1, InitPatchInv, NextPatchInv, InitPlanInv, NextPlanInv, PTL DEF Spec

\* The dry run of a content that is applied shows what the target has.
LEMMA DryRunAgrees ==
    ASSUME PatchInv, PlanInv, NEW p \in Patches, st[p].exists, Current(p), Clean(p),
           Has(obj, st[p].body), conf[p].body = st[p].body, st[p].proj.tag = "known"
    PROVE  Projection(Applied(obj, <<st[p].id, "ssa">>, conf[p].body), st[p].id)
             = Projection(obj, st[p].id)
<1> DEFINE id == st[p].id
           body == st[p].body
           m == <<id, "ssa">>
           a == Applied(obj, m, body)
<1>1. id \in Ids /\ obj \in Object /\ body \in Body
  BY FieldTypes DEF PatchInv, Good, Session, TypeOK
<1>2. ASSUME NEW f \in Fields, body[f] = None
      PROVE  /\ a.val[f] = IF obj.by[f] = {m} THEN None ELSE obj.val[f]
             /\ a.by[f] = obj.by[f] \ {m}
  BY <1>1, <1>2 DEF Applied, Object
<1>3. ASSUME NEW f \in Fields \ Hidden
      PROVE  Projection(a, id)[f] = Projection(obj, id)[f]
  <2>1. CASE f \in Set(body)
    <3>1. Projection(a, id)[f] = body[f]
      BY <1>1, <1>3, <2>1, DryShows
    <3>2. st[p].proj.val[f] = body[f]
      BY <1>3, <2>1 DEF PlanInv, Planning, Shown, Shows
    <3>3. QED
      BY <3>1, <3>2 DEF Current
  <2>2. CASE f \notin Set(body)
    <3>1. m \notin obj.by[f] /\ body[f] = None
      BY <1>3, <2>2 DEF Clean, Set
    <3>2. a.by[f] = obj.by[f] /\ a.val[f] = obj.val[f]
      <4>1. obj.by[f] \ {m} = obj.by[f] /\ obj.by[f] # {m}
        BY <3>1
      <4>2. /\ a.val[f] = IF obj.by[f] = {m} THEN None ELSE obj.val[f]
            /\ a.by[f] = obj.by[f] \ {m}
        BY <1>2, <1>3, <3>1
      <4> HIDE DEF a, m
      <4>3. QED
        BY <4>1, <4>2
    <3> HIDE DEF a
    <3>3. QED
      BY <1>3, <3>2 DEF Projection, Own
  <2>3. QED
    BY <2>1, <2>2
<1>4. \A f \in Hidden : Projection(a, id)[f] = None /\ Projection(obj, id)[f] = None
  BY FieldAssumption DEF Projection
<1>5. Projection(a, id) = [f \in Fields |-> Projection(a, id)[f]]
      /\ Projection(obj, id) = [f \in Fields |-> Projection(obj, id)[f]]
  BY DEF Projection
<1>6. Projection(a, id) = Projection(obj, id)
  BY <1>3, <1>4, <1>5
<1>7. QED
  BY <1>6

\* Once is enough: a patch that is in step with its target and its configuration,
\* and has no remains of other calls there, has a plan without difference.
THEOREM OneApplyIsEnough == Spec => []Converges
<1>1. ASSUME PatchInv, PlanInv PROVE Converges
  <2>1. SUFFICES ASSUME NEW p \in Patches, pc[p] = "idle", plan[p].exists, st[p].exists, calm[p],
                        plan[p].proj.tag # "unknown", Current(p), Clean(p),
                        conf[p].kind = st[p].kind, conf[p].body = st[p].body,
                        conf[p].other = st[p].other
                 PROVE  ~HasDiff(p)
    BY DEF Converges
  <2>2. Shown(p) /\ Fresh(p) /\ InStep(p) /\ st[p].proj \in Projections /\ st[p].proj.tag # "unknown"
    BY <1>1 DEF PatchInv, PlanInv, Good, Planning, TypeOK, State
  <2>3. ~PatchChanged(st[p], conf[p].body, Null)
    BY <2>1 DEF PatchChanged, Null
  <2>4. conf[p].kind = "ssa" => ~PatchChanged(st[p], conf[p].body, DryProjection(p))
    <3>1. CASE st[p].proj.tag = "known"
      <4>1. DryProjection(p) = Known(st[p].proj.val)
        BY <1>1, <2>1, <2>2, <3>1, DryRunAgrees DEF DryProjection, Current, InStep, Matches
      <4>2. Known(st[p].proj.val) = st[p].proj
        BY <2>2, <3>1 DEF Known, Projections
      <4>3. QED
        BY <2>1, <4>1, <4>2 DEF PatchChanged
    <3>2. CASE st[p].proj.tag # "known"
      <4>1. st[p].proj.tag = "null"
        BY <2>2, <3>2 DEF Projections
      <4>2. QED
        BY <2>1, <4>1 DEF PatchChanged
    <3>3. QED
      BY <3>1, <3>2
  <2>5. Preserves(plan[p], conf[p], st[p])
    BY <2>1, <2>2, <2>3, <2>4 DEF Fresh
  <2>6. QED
    BY <2>1, <2>5 DEF Preserves, HasDiff
<1>2. QED
  BY <1>1, InitPatchInv, NextPatchInv, InitPlanInv, NextPlanInv, PTL DEF Spec

-----------------------------------------------------------------------------
(* What a plan predicts of managed_fields.                                  *)

\* The manager of a dry run before a Create never writes.
NoTemp == Own(obj, Temp) = {}

\* What a dry run of the planned content finds.
DryOwned(p) == Own(Applied(obj, <<st[p].id, "ssa">>, plan[p].body), st[p].id)

\* A prediction, if it is of the present object, is what the apply will leave:
\* that of a dry run, or the state's where the content is the state's and has
\* what the patch owns.  After the apply it is what the patch owns.
Predicted(p) ==
    plan[p].sound /\ plan[p].mfKnown =>
        \/ /\ ~st[p].exists
           /\ plan[p].kind = "ssa" /\ plan[p].mf = Set(plan[p].body)
           /\ pc[p] = "createBack" => plan[p].mf = Own(obj, mem[p].id)
        \/ /\ st[p].exists
           /\ pc[p] \in {"idle", "update"} =>
                \/ plan[p].kind = "ssa" /\ plan[p].mf = DryOwned(p)
                \/ plan[p].mf = st[p].mf /\ plan[p].mf = Own(obj, st[p].id)
           /\ pc[p] = "updateBack" =>
                \/ plan[p].mf = Own(obj, st[p].id)
                \/ plan[p].mf = st[p].mf /\ plan[p].mf # Set(plan[p].body)

\* Where there is no plan there is no prediction.
Unplanned(p) == ~plan[p].exists => ~plan[p].sound

KeptInv == NoTemp /\ \A p \in Patches : Predicted(p) /\ Unplanned(p)

\* What a patch that owns a part of its content owns after a server-side apply.
LEMMA AppliedOwns ==
    ASSUME NEW o \in Object, NEW id, NEW body \in Body, Own(o, id) \subseteq Set(body)
    PROVE  Own(Applied(o, <<id, "ssa">>, body), id) = Set(body)
<1> DEFINE m == <<id, "ssa">>
           a == Applied(o, m, body)
<1>1. m \in {id} \X AllKinds
  BY DEF AllKinds
<1>2. a.by = [f \in Fields |-> IF body[f] = None THEN o.by[f] \ {m}
                               ELSE IF body[f] = o.val[f] THEN o.by[f] \cup {m}
                               ELSE {m}]
  BY DEF Applied, Object
<1> HIDE DEF a, m
<1>3. ASSUME NEW f \in Fields, body[f] # None PROVE f \in Own(a, id)
  <2>1. m \in a.by[f]
    BY <1>2, <1>3
  <2>2. QED
    BY <1>1, <2>1 DEF Own
<1>4. ASSUME NEW f \in Fields, body[f] = None PROVE f \notin Own(a, id)
  <2>1. f \notin Own(o, id)
    BY <1>4 DEF Set
  <2>2. a.by[f] \subseteq o.by[f]
    BY <1>2, <1>4
  <2>3. QED
    BY <2>1, <2>2 DEF Own
<1>5. QED
  BY <1>3, <1>4 DEF a, m, Own, Set

\* What a patch that owns its content owns after it is applied again.
LEMMA PatchedOwns ==
    ASSUME NEW o \in Object, NEW id, NEW kind \in AllKinds, NEW body \in Body,
           Own(o, id) = Set(body)
    PROVE  Own(Patched(o, id, kind, body), id) = Set(body)
<1>1. CASE kind = "ssa"
  BY <1>1, AppliedOwns DEF Patched
<1>2. CASE kind # "ssa"
  <2> DEFINE m == <<id, "raw">>
             changed == {f \in Set(body) : body[f] # o.val[f]}
             a == Merged(o, m, body)
  <2>1. m \in {id} \X AllKinds
    BY DEF AllKinds
  <2>2. a.by = [f \in Fields |-> IF f \in changed THEN {m} ELSE o.by[f]]
    BY DEF Merged, Object
  <2>3. changed \subseteq Set(body) /\ Set(body) \subseteq Fields
    BY DEF Set
  <2>4. Patched(o, id, kind, body) = a
    BY <1>2 DEF Patched
  <2> HIDE DEF a, m, changed
  <2>5. \A f \in Fields : f \in Own(a, id) <=> f \in changed \/ f \in Own(o, id)
    BY <2>1, <2>2 DEF Own
  <2>6. Own(a, id) = Set(body)
    BY <2>3, <2>5 DEF Own
  <2>7. QED
    BY <2>4, <2>6
<1>3. QED
  BY <1>1, <1>2

\* A handler that writes, writes for the id of its patch.
LEMMA HandlerOnly ==
    ASSUME PatchInv, OwnInv, NEW p \in Patches, Handler(p)
    PROVE  OwnOnly(p)
<1>1. /\ TypeOK /\ Session(p) /\ plan[p].kind \in AllKinds /\ plan[p].body \in Body
      /\ st[p].kind \in AllKinds /\ st[p].body \in Body
  BY FieldTypes DEF PatchInv, Good
<1>2. CASE obj' = obj
  BY <1>2 DEF OwnOnly
<1>3. ASSUME NEW id \in {st[p].id, mem[p].id} \cap Ids, NEW kind \in AllKinds,
             NEW body \in Body, obj' \in LeftByError(id, kind, body)
      PROVE  OwnOnly(p)
  <2>1. obj' = obj \/ (obj.live /\ obj' = Patched(obj, id, kind, body))
    BY <1>3 DEF LeftByError
  <2>2. QED
    BY <1>2, <1>3, <2>1, PatchedOnly
<1>4. CASE CreateApply(p) \/ CreateApplyFails(p)
  <2>1. mem[p].id \in {st[p].id, mem[p].id} \cap Ids
    BY <1>1, <1>4 DEF CreateApply, CreateApplyFails, Session
  <2>2. CASE CreateApply(p)
    <3>1. /\ obj' = Patched(obj, mem[p].id, plan[p].kind, plan[p].body)
          /\ obj.live \/ plan[p].kind = "ssa"
      BY <2>2 DEF CreateApply, Goto, Disturbs
    <3>2. QED
      BY <1>1, <2>1, <3>1, PatchedOnly
  <2>3. CASE CreateApplyFails(p)
    <3>1. obj' \in LeftByError(mem[p].id, plan[p].kind, plan[p].body)
      BY <2>3 DEF CreateApplyFails, Return, Disturbs
    <3>2. QED
      BY <1>1, <1>3, <2>1, <3>1
  <2>4. QED
    BY <1>4, <2>2, <2>3
<1>5. CASE ReadApply(p) \/ ReadApplyFails(p) \/ UpdateApply(p) \/ UpdateApplyFails(p)
  <2>1. st[p].id \in {st[p].id, mem[p].id} \cap Ids
    BY <1>1, <1>5 DEF ReadApply, ReadApplyFails, UpdateApply, UpdateApplyFails, Session
  <2>2. CASE ReadApply(p)
    <3>1. /\ obj' = Patched(obj, st[p].id, st[p].kind, st[p].body)
          /\ obj.live \/ st[p].kind = "ssa"
      BY <2>2 DEF ReadApply, Goto, Disturbs
    <3>2. QED
      BY <1>1, <2>1, <3>1, PatchedOnly
  <2>3. CASE ReadApplyFails(p)
    <3>1. obj' \in LeftByError(st[p].id, st[p].kind, st[p].body)
      BY <2>3 DEF ReadApplyFails, Return, Disturbs
    <3>2. QED
      BY <1>1, <1>3, <2>1, <3>1
  <2>4. CASE UpdateApply(p)
    <3>1. /\ obj' = Patched(obj, st[p].id, plan[p].kind, plan[p].body)
          /\ obj.live \/ plan[p].kind = "ssa"
      BY <2>4 DEF UpdateApply, Goto, Disturbs
    <3>2. QED
      BY <1>1, <2>1, <3>1, PatchedOnly
  <2>5. CASE UpdateApplyFails(p)
    <3>1. obj' \in LeftByError(st[p].id, plan[p].kind, plan[p].body)
      BY <2>5 DEF UpdateApplyFails, Return, Disturbs
    <3>2. QED
      BY <1>1, <1>3, <2>1, <3>1
  <2>6. QED
    BY <1>5, <2>2, <2>3, <2>4, <2>5
<1>6. CASE CreateGet(p) \/ CreateGetFails(p) \/ CreateBack(p) \/ CreateBackFails(p) \/ Delete(p)
  BY <1>2, <1>6
  DEF CreateGet, CreateGetFails, CreateBack, CreateBackFails, Delete, Return, Disturbs
<1>7. CASE ReadGet(p) \/ ReadBack(p) \/ ReadBackFails(p)
  BY <1>2, <1>7 DEF ReadGet, ReadBack, ReadBackFails, Return, Goto, Disturbs
<1>8. CASE UpdateGet(p) \/ UpdateGetFails(p) \/ UpdateFresh(p) \/ UpdateFreshFails(p)
  BY <1>2, <1>8
  DEF UpdateGet, UpdateGetFails, UpdateFresh, UpdateFreshFails, Return, Goto, Disturbs
<1>9. QED
  BY <1>4, <1>5, <1>6, <1>7, <1>8 DEF Handler

\* No step lets the manager of the dry run own a field.
LEMMA NoTempNext ==
    ASSUME PatchInv, OwnInv, NoTemp, [Next]_vars
    PROVE  NoTemp'
<1>1. CASE obj' = obj
  BY <1>1 DEF NoTemp, Own
<1>2. ASSUME NEW p \in Patches, Handler(p) PROVE NoTemp'
  <2>1. OwnOnly(p)
    BY <1>2, HandlerOnly
  <2>2. obj' = obj \/ Own(obj', Temp) \subseteq Own(obj, Temp)
    BY <2>1, IdAssumption DEF OwnOnly
  <2>3. QED
    BY <1>1, <2>2 DEF NoTemp, Own
<1>3. CASE Environment
  <2>1. PICK o \in Object :
          /\ Outside(o)
          /\ \A id \in Ids \cup {Temp} : Own(o, id) \subseteq Own(obj, id)
    BY <1>3, OutsideObject DEF PatchInv
  <2>2. obj' = o /\ Own(o, Temp) \subseteq Own(obj, Temp)
    BY <2>1 DEF Outside
  <2>3. QED
    BY <2>2 DEF NoTemp, Own
<1>4. ASSUME NEW p \in Patches,
             PlanGet(p) \/ PlanMissing(p) \/ PlanBlind(p) \/ Discard(p) \/ Configure(p)
      PROVE  NoTemp'
  BY <1>1, <1>4 DEF PlanGet, PlanMissing, PlanBlind, Discard, Configure, CanPlan
<1>5. QED
  BY <1>1, <1>2, <1>3, <1>4 DEF Next, vars

\* What a step leaves to the prediction of a patch that has no part in it.
Sleeps(q) ==
    /\ pc'[q] = pc[q] /\ st'[q] = st[q] /\ mem'[q].id = mem[q].id
    /\ SamePlan(plan'[q], plan[q])
    /\ plan'[q].sound => plan[q].sound /\ obj' = obj

\* A patch without a part in a step keeps its prediction.
LEMMA SleepsPredicted ==
    ASSUME NEW q \in Patches, Sleeps(q), Predicted(q), Unplanned(q)
    PROVE  Predicted(q)' /\ Unplanned(q)'
<1>1. Unplanned(q)'
  BY DEF Sleeps, SamePlan, Unplanned
<1>2. CASE ~plan'[q].sound
  BY <1>1, <1>2 DEF Predicted
<1>3. CASE plan'[q].sound
  <2>1. obj' = obj /\ plan[q].sound
    BY <1>3 DEF Sleeps
  <2>2. DryOwned(q)' = DryOwned(q)
    BY <2>1 DEF Sleeps, SamePlan, DryOwned, Applied, Own
  <2>3. Own(obj, mem[q].id)' = Own(obj, mem[q].id) /\ Own(obj, st[q].id)' = Own(obj, st[q].id)
    BY <2>1 DEF Sleeps, Own
  <2>4. Set(plan[q].body)' = Set(plan[q].body)
    BY DEF Sleeps, SamePlan, Set
  <2>5. Predicted(q)'
    BY <2>1, <2>2, <2>3, <2>4 DEF Sleeps, SamePlan, Predicted
  <2>6. QED
    BY <1>1, <2>5
<1>4. QED
  BY <1>2, <1>3

\* The other patches, when p's handler takes a step.
LEMMA OthersSleep ==
    ASSUME TypeOK, NEW p \in Patches,
           \/ \E label, o, seen : Goto(p, label, o, seen)
           \/ \E o, inStep : Return(p, o, inStep),
           NEW q \in Patches \ {p}, st'[q] = st[q]
    PROVE  Sleeps(q)
<1>1. PICK o : /\ obj' = o
               /\ plan'[q] = [plan[q] EXCEPT !.sound = @ /\ o = obj]
  BY DEF Goto, Return, Disturbs
<1>2. plan[q] \in Plan
  BY DEF TypeOK
<1>3. /\ SamePlan(plan'[q], plan[q])
      /\ plan'[q].sound => plan[q].sound /\ o = obj
  BY <1>1, <1>2 DEF SamePlan, Plan
<1>4. pc'[q] = pc[q] /\ mem'[q] = mem[q]
  BY DEF Goto, Return, TypeOK
<1>5. QED
  BY <1>1, <1>3, <1>4 DEF Sleeps

\* A handler that returns has no plan left.
LEMMA ReturnPredicted ==
    ASSUME TypeOK, NEW p \in Patches, NEW o, NEW inStep, Return(p, o, inStep)
    PROVE  Predicted(p)' /\ Unplanned(p)'
<1>1. plan'[p] = NoPlan
  BY DEF Return, Disturbs, TypeOK
<1>2. QED
  BY <1>1 DEF NoPlan, Predicted, Unplanned

\* A handler that goes on keeps its plan.
LEMMA GotoPredicted ==
    ASSUME TypeOK, NEW p \in Patches, NEW label, NEW o, NEW seen, Goto(p, label, o, seen),
           label # "idle"
    PROVE  pc'[p] = label /\ plan'[p] = plan[p] /\ obj' = o /\ mem'[p].id = mem[p].id
<1>1. pc'[p] = label /\ mem'[p].id = mem[p].id
  <2>1. mem[p] \in Locals /\ mem' = [mem EXCEPT ![p].seen = seen]
    BY DEF Goto, TypeOK
  <2>2. mem'[p] = [mem[p] EXCEPT !.seen = seen]
    BY <2>1 DEF TypeOK
  <2>3. mem'[p].id = mem[p].id
    BY <2>1, <2>2 DEF Locals
  <2>4. QED
    BY <2>3 DEF Goto, TypeOK
<1>2. QED
  BY <1>1 DEF Goto, Disturbs

\* p's own handler does what p's plan predicts.
LEMMA HandlerPredicted ==
    ASSUME PatchInv, OwnInv, KeptInv, NEW p \in Patches, Handler(p)
    PROVE  Predicted(p)' /\ Unplanned(p)'
<1>1. /\ TypeOK /\ Session(p) /\ Blank(p) /\ Secret(p) /\ Predicted(p) /\ Unplanned(p)
      /\ obj \in Object /\ plan[p].kind \in AllKinds /\ plan[p].body \in Body
  BY FieldTypes DEF PatchInv, OwnInv, KeptInv, Good, TypeOK
<1>2. ASSUME \E o, inStep : Return(p, o, inStep) PROVE Predicted(p)' /\ Unplanned(p)'
  BY <1>1, <1>2, ReturnPredicted
<1>3. CASE CreateGet(p)
  <2>1. UNCHANGED <<obj, st, plan>> /\ pc'[p] = "create" /\ pc[p] = "idle" /\ ~st[p].exists
    BY <1>1, <1>3 DEF CreateGet, TypeOK
  <2>2. Predicted(p)'
    BY <1>1, <2>1 DEF Predicted, Set
  <2>3. QED
    BY <1>1, <2>1, <2>2 DEF Unplanned
<1>4. CASE CreateApply(p)
  <2> DEFINE o == Patched(obj, mem[p].id, plan[p].kind, plan[p].body)
  <2>1. pc[p] = "create" /\ st' = st /\ Goto(p, "createBack", o, Own(o, mem[p].id))
    BY <1>4 DEF CreateApply
  <2>2. /\ pc'[p] = "createBack" /\ plan'[p] = plan[p] /\ obj' = o
        /\ mem'[p].id = mem[p].id
    BY <1>1, <2>1, GotoPredicted
  <2>3. ~st[p].exists /\ Own(obj, mem[p].id) = {}
    BY <1>1, <2>1 DEF Blank, Secret
  <2>4. plan[p].kind = "ssa" => Own(obj', mem[p].id) = Set(plan[p].body)
    <3>1. SUFFICES ASSUME plan[p].kind = "ssa" PROVE Own(obj', mem[p].id) = Set(plan[p].body)
      OBVIOUS
    <3>2. obj' = Applied(obj, <<mem[p].id, "ssa">>, plan[p].body)
      BY <2>2, <3>1 DEF Patched
    <3>3. Own(Applied(obj, <<mem[p].id, "ssa">>, plan[p].body), mem[p].id) = Set(plan[p].body)
      BY <1>1, <2>3, AppliedOwns
    <3>4. QED
      BY <3>2, <3>3
  <2>5. Predicted(p)'
    <3>1. SUFFICES ASSUME plan[p].sound, plan[p].mfKnown
                   PROVE  /\ plan[p].kind = "ssa" /\ plan[p].mf = Set(plan[p].body)
                          /\ plan[p].mf = Own(obj', mem[p].id)
      BY <2>1, <2>2, <2>3 DEF Predicted, Own, Set
    <3>2. QED
      BY <1>1, <2>3, <2>4, <3>1 DEF Predicted
  <2>6. QED
    BY <1>1, <2>2, <2>5 DEF Unplanned
<1>5. CASE UpdateGet(p)
  <2>1. pc[p] = "idle" /\ st' = st /\ Goto(p, "update", obj, {}) /\ st[p].exists
    BY <1>5 DEF UpdateGet
  <2>2. pc'[p] = "update" /\ plan'[p] = plan[p] /\ obj' = obj
    BY <1>1, <2>1, GotoPredicted
  <2>3. DryOwned(p)' = DryOwned(p)
    BY <2>1, <2>2 DEF DryOwned, Applied, Own
  <2>4. Own(obj, st[p].id)' = Own(obj, st[p].id)
    BY <2>1, <2>2 DEF Own
  <2>5. Predicted(p)'
    BY <1>1, <2>1, <2>2, <2>3, <2>4 DEF Predicted
  <2>6. QED
    BY <1>1, <2>2, <2>5 DEF Unplanned
<1>6. CASE UpdateApply(p)
  <2> DEFINE id == st[p].id
             o == Patched(obj, id, plan[p].kind, plan[p].body)
  <2>1. pc[p] = "update" /\ st' = st /\ Goto(p, "updateBack", o, {})
    BY <1>6 DEF UpdateApply
  <2>2. pc'[p] = "updateBack" /\ plan'[p] = plan[p] /\ obj' = o /\ st[p].exists
    BY <1>1, <2>1, GotoPredicted DEF Session
  <2> HIDE DEF id, o
  <2>3. ASSUME plan[p].sound, plan[p].mfKnown, plan[p].mf = st[p].mf => plan[p].mf = Set(plan[p].body)
        PROVE  plan[p].mf = Own(obj', id)
    <3>1. CASE plan[p].kind = "ssa" /\ plan[p].mf = DryOwned(p)
      BY <2>2, <3>1 DEF o, id, Patched, DryOwned
    <3>2. CASE plan[p].mf = st[p].mf /\ plan[p].mf = Own(obj, id)
      <4>1. Own(obj, id) = Set(plan[p].body)
        BY <2>3, <3>2
      <4>2. Own(o, id) = Set(plan[p].body)
        BY <1>1, <4>1, PatchedOwns DEF o
      <4>3. QED
        BY <2>2, <3>2, <4>1, <4>2
    <3>3. QED
      BY <1>1, <2>1, <2>2, <2>3, <3>1, <3>2 DEF Predicted, id
  <2>4. Predicted(p)'
    BY <2>1, <2>2, <2>3 DEF Predicted, Own, Set, id
  <2>5. QED
    BY <1>1, <2>2, <2>4 DEF Unplanned
<1>7. CASE ReadGet(p)
  <2>1. CASE \E o, inStep : Return(p, o, inStep)
    BY <1>2, <2>1
  <2>2. CASE Goto(p, "read", obj, Own(obj, st[p].id))
    <3>1. plan'[p] = plan[p] /\ ~plan[p].exists
      BY <1>1, <1>7, <2>2, GotoPredicted DEF ReadGet
    <3>2. QED
      BY <1>1, <3>1 DEF Predicted, Unplanned
  <2>3. QED
    BY <1>7, <2>1, <2>2 DEF ReadGet
<1>8. CASE ReadApply(p)
  <2>1. /\ plan'[p] = plan[p] /\ pc'[p] = "readBack" /\ st' = st /\ st[p].exists
    BY <1>1, <1>8, GotoPredicted DEF ReadApply, Session
  <2>2. QED
    BY <1>1, <2>1 DEF Predicted, Unplanned
<1>9. CASE CreateGetFails(p) \/ CreateApplyFails(p) \/ CreateBack(p) \/ CreateBackFails(p)
           \/ Delete(p)
  BY <1>2, <1>9 DEF CreateGetFails, CreateApplyFails, CreateBack, CreateBackFails, Delete
<1>10. CASE ReadApplyFails(p) \/ ReadBack(p) \/ ReadBackFails(p)
  BY <1>2, <1>10 DEF ReadApplyFails, ReadBack, ReadBackFails
<1>11. CASE UpdateGetFails(p) \/ UpdateApplyFails(p) \/ UpdateFresh(p) \/ UpdateFreshFails(p)
  BY <1>2, <1>11 DEF UpdateGetFails, UpdateApplyFails, UpdateFresh, UpdateFreshFails
<1>12. QED
  BY <1>3, <1>4, <1>5, <1>6, <1>7, <1>8, <1>9, <1>10, <1>11 DEF Handler

\* A plan made by ModifyPlan's dry run, or without one, predicts well.
LEMMA PlannedPredicted ==
    ASSUME PatchInv, NEW p \in Patches, pc[p] = "idle",
           UNCHANGED <<obj, st, pc>>, NEW proj, NEW mf, NEW mfKnown,
           plan'[p] = Planned(p, proj, mf, mfKnown),
           mfKnown => /\ conf[p].kind = "ssa"
                      /\ ~st[p].exists => mf = Set(conf[p].body)
                      /\ mf = Own(Applied(obj, <<DryRunId(p), "ssa">>, conf[p].body),
                                  DryRunId(p))
    PROVE  Predicted(p)' /\ Unplanned(p)'
<1>1. plan'[p].exists
  BY DEF Planned
<1>2. CASE ~st[p].exists \/ PatchChanged(st[p], conf[p].body, proj)
  <2>1. plan'[p] = [exists |-> TRUE, kind |-> conf[p].kind, body |-> conf[p].body,
                    other |-> conf[p].other, proj |-> proj, mf |-> mf, mfKnown |-> mfKnown,
                    sound |-> TRUE]
    BY <1>2 DEF Planned
  <2>2. plan'[p].kind = conf[p].kind /\ plan'[p].body = conf[p].body
        /\ plan'[p].mf = mf /\ plan'[p].mfKnown = mfKnown
    BY <2>1
  <2>3. CASE ~mfKnown
    BY <1>1, <2>2, <2>3 DEF Predicted, Unplanned
  <2>4. CASE mfKnown /\ ~st[p].exists
    <3>1. Set(plan[p].body)' = Set(conf[p].body)
      BY <2>2 DEF Set
    <3>2. QED
      BY <1>1, <2>2, <2>4, <3>1 DEF Predicted, Unplanned
  <2>5. CASE mfKnown /\ st[p].exists
    <3>1. DryOwned(p)' = mf
      <4>1. DryOwned(p)' = Own(Applied(obj, <<st[p].id, "ssa">>, conf[p].body), st[p].id)
        BY <2>2 DEF DryOwned, Applied, Own
      <4>2. QED
        BY <2>5, <4>1 DEF DryRunId
    <3>2. QED
      BY <1>1, <2>2, <2>5, <3>1 DEF Predicted, Unplanned
  <2>6. QED
    BY <2>3, <2>4, <2>5
<1>3. CASE st[p].exists /\ ~PatchChanged(st[p], conf[p].body, proj)
  <2>1. plan'[p] = [exists |-> TRUE, kind |-> st[p].kind, body |-> st[p].body,
                    other |-> conf[p].other, proj |-> st[p].proj, mf |-> st[p].mf,
                    mfKnown |-> TRUE, sound |-> calm[p]]
    BY <1>3 DEF Planned
  <2>2. calm[p] => st[p].mf = Own(obj, st[p].id)
    BY <1>3 DEF PatchInv, Good, InStep, Matches
  <2>3. plan'[p].mf = st[p].mf /\ plan'[p].sound = calm[p]
    BY <2>1
  <2>4. Own(obj, st[p].id)' = Own(obj, st[p].id)
    BY DEF Own
  <2>5. QED
    BY <1>1, <1>3, <2>2, <2>3, <2>4 DEF Predicted, Unplanned
<1>4. QED
  BY <1>2, <1>3

\* What ModifyPlan predicts is true of the object it has looked at.
LEMMA MakePredicted ==
    ASSUME PatchInv, KeptInv, NEW p \in Patches,
           PlanGet(p) \/ PlanMissing(p) \/ PlanBlind(p) \/ Discard(p)
    PROVE  \A q \in Patches : Predicted(q)' /\ Unplanned(q)'
<1>1. TypeOK /\ Session(p) /\ obj \in Object /\ conf[p].body \in Body /\ NoTemp
  BY FieldTypes DEF PatchInv, TypeOK, Good, KeptInv
<1>2. UNCHANGED <<obj, conf, st, pc, mem, calm>> /\ pc[p] = "idle"
  BY DEF PlanGet, PlanMissing, PlanBlind, Discard, CanPlan
<1>3. \A q \in Patches \ {p} : Predicted(q)' /\ Unplanned(q)'
  <2>1. \A q \in Patches \ {p} : plan'[q] = plan[q]
    BY <1>1 DEF PlanGet, PlanMissing, PlanBlind, Discard, TypeOK
  <2>2. \A q \in Patches \ {p} : Sleeps(q)
    BY <1>2, <2>1 DEF Sleeps, SamePlan
  <2>3. QED
    BY <2>2, SleepsPredicted DEF KeptInv
<1>4. CASE PlanGet(p)
  <2> DEFINE id == DryRunId(p)
             dry == Applied(obj, <<id, "ssa">>, conf[p].body)
  <2>1. /\ conf[p].kind = "ssa" =>
              plan'[p] = Planned(p, Known(Projection(dry, id)), Own(dry, id), TRUE)
        /\ conf[p].kind # "ssa" => plan'[p] = Planned(p, Null, {}, FALSE)
    BY <1>1, <1>4 DEF PlanGet, TypeOK
  <2>2. ~st[p].exists => Own(dry, id) = Set(conf[p].body)
    <3>1. Own(Applied(obj, <<Temp, "ssa">>, conf[p].body), Temp) = Set(conf[p].body)
      BY <1>1, AppliedOwns DEF NoTemp
    <3>2. QED
      BY <3>1 DEF DryRunId
  <2> HIDE DEF id, dry
  <2>3. ASSUME conf[p].kind = "ssa" PROVE Predicted(p)' /\ Unplanned(p)'
    BY <1>2, <2>1, <2>2, <2>3, PlannedPredicted DEF id, dry
  <2>4. ASSUME conf[p].kind # "ssa" PROVE Predicted(p)' /\ Unplanned(p)'
    BY <1>2, <2>1, <2>4, PlannedPredicted
  <2>5. QED
    BY <1>3, <2>3, <2>4
<1>5. CASE PlanMissing(p)
  <2>1. plan'[p] = Planned(p, Unknown, {}, FALSE)
    BY <1>1, <1>5 DEF PlanMissing, TypeOK
  <2>2. Predicted(p)' /\ Unplanned(p)'
    BY <1>2, <2>1, PlannedPredicted
  <2>3. QED
    BY <1>3, <2>2
<1>6. CASE PlanBlind(p)
  <2> DEFINE same == /\ st[p].exists
                     /\ <<conf[p].kind, conf[p].body, conf[p].other>>
                          = <<st[p].kind, st[p].body, st[p].other>>
             mf == IF same THEN st[p].mf ELSE {}
             sound == same /\ calm[p]
  <2>1. plan'[p] = [exists |-> TRUE, kind |-> conf[p].kind, body |-> conf[p].body,
                    other |-> conf[p].other, proj |-> Unknown,
                    mf |-> mf, mfKnown |-> same, sound |-> sound]
    BY <1>1, <1>6 DEF PlanBlind, TypeOK
  <2>2. same => st[p].exists /\ mf = st[p].mf
    OBVIOUS
  <2>3. sound => same /\ calm[p]
    OBVIOUS
  <2> HIDE DEF same, mf, sound
  <2>4. plan'[p].exists /\ plan'[p].mf = mf /\ (plan'[p].sound => sound)
    BY <2>1
  <2>5. plan'[p].sound => st[p].exists /\ plan'[p].mf = Own(obj, st[p].id)
    BY <1>2, <2>2, <2>3, <2>4 DEF PatchInv, Good, InStep, Matches
  <2>6. Own(obj, st[p].id)' = Own(obj, st[p].id)
    BY <1>2 DEF Own
  <2>7. plan'[p].sound => plan'[p].mf = st[p].mf
    BY <2>2, <2>3, <2>4
  <2>8. Predicted(p)' /\ Unplanned(p)'
    BY <1>2, <2>4, <2>5, <2>6, <2>7 DEF Predicted, Unplanned
  <2>9. QED
    BY <1>3, <2>8
<1>7. CASE Discard(p)
  <2>1. plan'[p] = NoPlan
    BY <1>1, <1>7 DEF Discard, TypeOK
  <2>2. Predicted(p)' /\ Unplanned(p)'
    BY <2>1 DEF NoPlan, Predicted, Unplanned
  <2>3. QED
    BY <1>3, <2>2
<1>8. QED
  BY <1>4, <1>5, <1>6, <1>7

\* The state of another patch is no business of a handler's.
LEMMA StatesApart ==
    ASSUME TypeOK, NEW p \in Patches, Handler(p), NEW q \in Patches \ {p}
    PROVE  st'[q] = st[q]
<1>1. CASE CreateGet(p) \/ CreateGetFails(p) \/ CreateApply(p) \/ CreateApplyFails(p)
           \/ CreateBack(p) \/ CreateBackFails(p) \/ Delete(p)
  BY <1>1 DEF CreateGet, CreateGetFails, CreateApply, CreateApplyFails, CreateBack,
              CreateBackFails, Delete, TypeOK
<1>2. CASE ReadGet(p) \/ ReadApply(p) \/ ReadApplyFails(p) \/ ReadBack(p) \/ ReadBackFails(p)
  BY <1>2 DEF ReadGet, ReadApply, ReadApplyFails, ReadBack, ReadBackFails, TypeOK
<1>3. CASE UpdateGet(p) \/ UpdateGetFails(p) \/ UpdateApply(p) \/ UpdateApplyFails(p)
           \/ UpdateFresh(p) \/ UpdateFreshFails(p)
  BY <1>3 DEF UpdateGet, UpdateGetFails, UpdateApply, UpdateApplyFails, UpdateFresh,
              UpdateFreshFails, TypeOK
<1>4. QED
  BY <1>1, <1>2, <1>3 DEF Handler

\* Every step of a handler goes on or returns, but for the start of a Create.
LEMMA GoesOrReturns ==
    ASSUME NEW p \in Patches, Handler(p), ~CreateGet(p)
    PROVE  \/ \E label, o, seen : Goto(p, label, o, seen)
           \/ \E o, inStep : Return(p, o, inStep)
<1>1. CASE CreateGetFails(p) \/ CreateApply(p) \/ CreateApplyFails(p)
           \/ CreateBack(p) \/ CreateBackFails(p) \/ Delete(p)
  BY <1>1 DEF CreateGetFails, CreateApply, CreateApplyFails, CreateBack, CreateBackFails,
              Delete
<1>2. CASE ReadGet(p) \/ ReadApply(p) \/ ReadApplyFails(p) \/ ReadBack(p) \/ ReadBackFails(p)
  BY <1>2 DEF ReadGet, ReadApply, ReadApplyFails, ReadBack, ReadBackFails
<1>3. CASE UpdateGet(p) \/ UpdateGetFails(p) \/ UpdateApply(p) \/ UpdateApplyFails(p)
           \/ UpdateFresh(p) \/ UpdateFreshFails(p)
  BY <1>3 DEF UpdateGet, UpdateGetFails, UpdateApply, UpdateApplyFails, UpdateFresh,
              UpdateFreshFails
<1>4. QED
  BY <1>1, <1>2, <1>3 DEF Handler

\* The initial states satisfy the invariant.
LEMMA InitKeptInv == Init => KeptInv
<1> SUFFICES ASSUME Init PROVE KeptInv
  OBVIOUS
<1>1. NoTemp
  <2>1. PICK m \in Others, body \in Bodies \cup {Empty} :
          obj = [live |-> TRUE, val |-> body, owned |-> FALSE,
                 by |-> [f \in Fields |-> IF body[f] = None THEN {} ELSE {m}]]
    BY DEF Init
  <2>2. m \notin {Temp} \X AllKinds
    BY OtherAssumption DEF PatchManagers
  <2>3. \A f \in Fields : obj.by[f] = {} \/ obj.by[f] = {m}
    BY <2>1
  <2>4. QED
    BY <2>2, <2>3 DEF NoTemp, Own
<1>2. \A p \in Patches : Predicted(p) /\ Unplanned(p)
  BY DEF Init, NoPlan, Predicted, Unplanned
<1>3. QED
  BY <1>1, <1>2 DEF KeptInv

\* Every step keeps the invariant.
LEMMA NextKeptInv == PatchInv /\ OwnInv /\ KeptInv /\ [Next]_vars => KeptInv'
<1> SUFFICES ASSUME PatchInv, OwnInv, KeptInv, [Next]_vars PROVE KeptInv'
  OBVIOUS
<1>1. NoTemp' /\ TypeOK
  BY NoTempNext DEF KeptInv, PatchInv
<1>2. ASSUME \A q \in Patches : Sleeps(q) PROVE KeptInv'
  BY <1>1, <1>2, SleepsPredicted DEF KeptInv
<1>3. CASE UNCHANGED vars
  BY <1>2, <1>3 DEF vars, Sleeps, SamePlan
<1>4. ASSUME NEW p \in Patches, Handler(p) PROVE KeptInv'
  <2>1. Predicted(p)' /\ Unplanned(p)'
    BY <1>4, HandlerPredicted
  <2>2. ASSUME NEW q \in Patches \ {p} PROVE Sleeps(q)
    <3>1. CASE CreateGet(p)
      <4>1. UNCHANGED <<obj, st, plan>> /\ pc'[q] = pc[q] /\ mem'[q] = mem[q]
        BY <1>1, <3>1 DEF CreateGet, TypeOK
      <4>2. QED
        BY <4>1 DEF Sleeps, SamePlan
    <3>2. CASE ~CreateGet(p)
      <4>1. st'[q] = st[q]
        BY <1>1, <1>4, StatesApart
      <4>2. QED
        BY <1>1, <1>4, <3>2, <4>1, GoesOrReturns, OthersSleep
    <3>3. QED
      BY <3>1, <3>2
  <2>3. \A q \in Patches \ {p} : Predicted(q)' /\ Unplanned(q)'
    BY <2>2, SleepsPredicted DEF KeptInv
  <2>4. QED
    BY <1>1, <2>1, <2>3 DEF KeptInv
<1>5. ASSUME NEW p \in Patches, PlanGet(p) \/ PlanMissing(p) \/ PlanBlind(p) \/ Discard(p)
      PROVE  KeptInv'
  BY <1>1, <1>5, MakePredicted DEF KeptInv
<1>6. ASSUME NEW p \in Patches, Configure(p) PROVE KeptInv'
  BY <1>2, <1>6 DEF Configure, Sleeps, SamePlan
<1>7. CASE Environment
  <2>1. PICK o \in Object : Outside(o)
    BY <1>1, <1>7, OutsideObject
  <2>2. /\ UNCHANGED <<st, pc, mem>>
        /\ plan' = [p \in Patches |-> [plan[p] EXCEPT !.sound = FALSE]]
    BY <2>1 DEF Outside
  <2>3. \A q \in Patches : SamePlan(plan'[q], plan[q]) /\ ~plan'[q].sound
    BY <1>1, <2>2 DEF SamePlan, TypeOK, Plan
  <2>4. QED
    BY <1>2, <2>2, <2>3 DEF Sleeps
<1>8. QED
  BY <1>3, <1>4, <1>5, <1>6, <1>7 DEF Next

\* What a plan predicts of managed_fields is what Create or Update returns, if
\* nobody else wrote and the content has what the patch owns.
THEOREM PredictionIsKept == Spec => PlanKept
<1>1. ASSUME PatchInv, OwnInv, KeptInv, NEW p \in Patches, CreateBack(p) \/ UpdateFresh(p),
             plan[p].sound, plan[p].mfKnown,
             plan[p].mf = st[p].mf => Set(plan[p].body) = plan[p].mf
      PROVE  st'[p].mf = plan[p].mf
  <2>1. TypeOK /\ Session(p) /\ Blank(p) /\ Predicted(p)
    BY <1>1 DEF PatchInv, OwnInv, KeptInv, Good
  <2>2. CASE CreateBack(p)
    <3>1. pc[p] = "createBack" /\ ~st[p].exists
      BY <2>1, <2>2 DEF CreateBack, Blank
    <3>2. plan[p].kind = "ssa" /\ plan[p].mf = Own(obj, mem[p].id)
      BY <1>1, <2>1, <3>1 DEF Predicted
    <3>3. st'[p] = Saved(p, mem[p].id, Own(obj, mem[p].id))
      BY <2>1, <2>2, <3>2 DEF CreateBack, TypeOK
    <3>4. QED
      BY <3>2, <3>3 DEF Saved
  <2>3. CASE UpdateFresh(p)
    <3>1. pc[p] = "updateBack" /\ st[p].exists
      BY <2>1, <2>3 DEF UpdateFresh, Session
    <3>2. plan[p].mf = Own(obj, st[p].id)
      BY <1>1, <2>1, <3>1 DEF Predicted
    <3>3. st'[p] = Saved(p, st[p].id, Own(obj, st[p].id))
      BY <2>1, <2>3 DEF UpdateFresh, TypeOK
    <3>4. QED
      BY <3>2, <3>3 DEF Saved
  <2>4. QED
    BY <1>1, <2>2, <2>3
<1>2. PatchInv /\ OwnInv /\ KeptInv /\ [Next]_vars =>
        [\A p \in Patches :
           /\ CreateBack(p) \/ UpdateFresh(p)
           /\ plan[p].sound /\ plan[p].mfKnown
           /\ plan[p].mf = st[p].mf => Set(plan[p].body) = plan[p].mf
           => st'[p].mf = plan[p].mf]_vars
  BY <1>1
<1>3. QED
  BY <1>2, InitPatchInv, NextPatchInv, InitOwnInv, NextOwnInv, InitKeptInv, NextKeptInv, PTL
  DEF Spec, PlanKept
=============================================================================
