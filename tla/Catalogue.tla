----------------------------- MODULE Catalogue ------------------------------
(***************************************************************************)
(* What the relational store keeps of belonging and of ids: records that   *)
(* belong to one another, franchises at the top, then their seasons and    *)
(* the episodes of these.  A record is there only with all it belongs to;  *)
(* deleting one takes along whatever belongs to it, and nothing else ever  *)
(* takes a record away.                                                    *)
(*                                                                         *)
(* core/domain/repository.go promises one thing more: that a franchise is  *)
(* refused if another has its name and country.  The schema has no such    *)
(* key, so it is no part of this promise; see NoTwins of Ingestion.        *)
(***************************************************************************)
CONSTANTS Records, Top, Absent

VARIABLE owner     \* owner[r]: the record r belongs to, Top, or Absent

Init == owner = [r \in Records |-> Absent]

(* The owners a record may be given.                                       *)
Present == {Top} \cup {r \in Records : owner[r] # Absent}

Add(r) == /\ owner[r] = Absent
          /\ \E o \in Present \ {r} : owner' = [owner EXCEPT ![r] = o]

Move(r) == /\ owner[r] \notin {Absent, Top}
           /\ \E o \in Present \ {r, Top} : owner' = [owner EXCEPT ![r] = o]

(* The three levels below and including r.                                 *)
Below(r) ==
    LET children(S) == {x \in Records : owner[x] \in S}
    IN {r} \cup children({r}) \cup children(children({r}))

Remove(r) == /\ owner[r] # Absent
             /\ owner' = [x \in Records |-> IF x \in Below(r) THEN Absent ELSE owner[x]]

Next == \E r \in Records : Add(r) \/ Move(r) \/ Remove(r)

Spec == Init /\ [][Next]_owner
=============================================================================
