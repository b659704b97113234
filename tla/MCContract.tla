----------------------------- MODULE MCContract -----------------------------
(* ObjectLifecycle, run one handler at a time, against its contract. *)
EXTENDS ObjectLifecycle, TLC

CONSTANT Absent

ASSUME AbsentAssumption == Absent \notin Ids \cup {NoId}

\* The refinement mapping: who the annotation names, the id each state has, the
\* id of each Create in progress.
MakingOf(r) == IF pc[r] \in CreatePcs THEN mem[r].id ELSE NoId

Owner  == IF obj.live THEN obj.id ELSE Absent
Book   == [r \in Instances |-> st[r].id]
Making == [r \in Instances |-> MakingOf(r)]

Contract == INSTANCE OwnershipContract
            WITH owner <- Owner, book <- Book, making <- Making

\* Handlers that do not overlap, with an API that answers, keep the promise of
\* ADR-003 that the annotation makes: one owner, no removal by anybody else,
\* no instance that forgets an object it still owns.
KeepsContract == Contract!Spec
=============================================================================
