------------------------- MODULE RuleSetExpectations -------------------------
(***************************************************************************)
(* What users of rule files would expect, and RuleSets, written from the   *)
(* code, does not guarantee.                                               *)
(***************************************************************************)
EXTENDS RuleSets

(* "Produktionskopia finns redan": a rule has one working copy (rules.js:535). *)
OneWorkingCopy == \A r \in Rule : Cardinality(Copies(r)) <= 1

(* A working copy does not go with content that was saved and not published
   (rules.js:636: the DELETE does not compare the version it has read). *)
NothingGoesUnpublished ==
    [][\A q \in Request, r \in Lives :
          In(q, "promote", "remove") /\ rows'[r] = NoRow => rows[r].content = req[q].new]_vars

(* A rule whose working copies were made independent is deleted (rules.js:349-350:
   the DELETE fails when a copy was made in between). *)
DeletionsComplete ==
    [][\A q \in Request :
          In(q, "delete", "remove") /\ req'[q] = NoRequest /\ req[q].rule \in Lives
              => rows'[req[q].rule] = NoRow]_vars

(* A published rule goes only when an administrator deletes it. *)
PublishedStays ==
    [][\A q \in Request, r \in Lives :
          rows[r].pub # NoContent /\ rows'[r] = NoRow => \E p \in Request : In(p, "delete", "remove")]_vars
=============================================================================
