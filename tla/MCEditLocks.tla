----------------------------- MODULE MCEditLocks -----------------------------
(* Two tabs, of one user or of two. *)
EXTENDS EditLocksExpectations

(* The field gets the focus twice, one fault, one push. *)
Few == [focus |-> 2, fault |-> 1, push |-> 1]
(* Twice, without faults and pushes. *)
Least == [focus |-> 2, fault |-> 0, push |-> 0]
=============================================================================
