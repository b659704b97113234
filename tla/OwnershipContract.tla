------------------------- MODULE OwnershipContract -------------------------
(***************************************************************************)
(* What the ownership annotation promises (ADR-003), without API calls:     *)
(* the object has at most one owner, an instance becomes the owner of an    *)
(* object nobody has, only the owner removes it, and an instance forgets it *)
(* only once it is gone or another's.                                       *)
(*                                                                          *)
(* The promise has two gaps, both of them allowed here because the code     *)
(* has them: Update reasserts ownership whoever the owner is, and import    *)
(* takes over an id that another state may still hold.                      *)
(***************************************************************************)
CONSTANTS Instances, Ids, NoId, Absent

VARIABLES
    owner,    \* id on the object, NoId without annotation, Absent without object
    book,     \* id each instance has in its Terraform state
    making    \* id of each instance's Create in progress

vars == <<owner, book, making>>

Fresh(i) ==
    /\ i \in Ids /\ i # owner
    /\ \A r \in Instances : book[r] # i /\ making[r] # i

Init ==
    /\ owner = Absent
    /\ book = [r \in Instances |-> NoId]
    /\ making = [r \in Instances |-> NoId]

Begin(r) ==
    /\ book[r] = NoId /\ making[r] = NoId
    /\ \E i \in Ids : Fresh(i) /\ making' = [making EXCEPT ![r] = i]
    /\ UNCHANGED <<owner, book>>

\* Create claims an object only where there is none.
Make(r) ==
    /\ making[r] # NoId
    /\ owner = Absent
    /\ owner' = making[r]
    /\ UNCHANGED <<book, making>>

Record(r) ==
    /\ making[r] # NoId
    /\ book' = [book EXCEPT ![r] = making[r]]
    /\ making' = [making EXCEPT ![r] = NoId]
    /\ UNCHANGED owner

\* A Create that fails leaves no object of its own behind.
Refuse(r) ==
    /\ making[r] # NoId
    /\ owner # making[r]
    /\ making' = [making EXCEPT ![r] = NoId]
    /\ UNCHANGED <<owner, book>>

Adopt(r) ==
    /\ book[r] = NoId /\ making[r] = NoId
    /\ owner # Absent
    /\ \E i \in Ids :
          /\ i = owner \/ (owner = NoId /\ Fresh(i))
          /\ book' = [book EXCEPT ![r] = i]
    /\ UNCHANGED <<owner, making>>

Reassert(r) ==
    /\ book[r] # NoId
    /\ owner' = book[r]
    /\ UNCHANGED <<book, making>>

\* Only what is one's own, or nobody's, is deleted.
Remove(r) ==
    /\ book[r] # NoId
    /\ owner \in {book[r], NoId}
    /\ owner' = Absent
    /\ UNCHANGED <<book, making>>

Forget(r) ==
    /\ book[r] # NoId
    /\ owner \notin {book[r], NoId}
    /\ book' = [book EXCEPT ![r] = NoId]
    /\ UNCHANGED <<owner, making>>

\* kubectl strips the annotation or deletes the object.
Outside ==
    /\ owner # Absent
    /\ owner' \in {NoId, Absent}
    /\ UNCHANGED <<book, making>>

Next ==
    \/ \E r \in Instances :
          \/ Begin(r) \/ Make(r) \/ Record(r) \/ Refuse(r) \/ Adopt(r)
          \/ Reassert(r) \/ Remove(r) \/ Forget(r)
    \/ Outside

Spec == Init /\ [][Next]_vars
=============================================================================
