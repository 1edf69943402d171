--------------------------- MODULE MCRulefileSync ---------------------------
(* Small instances of RulefileSync. *)
EXTENDS RulefileExpectations

OneCall  == [t \in Tab |-> 1]
TwoCalls == [t \in Tab |-> 2]

(* One tab with overlapping requests, the others with one at a time. *)
Uneven == LET chosen == CHOOSE t \in Tab : TRUE IN [t \in Tab |-> IF t = chosen THEN 2 ELSE 1]
=============================================================================
