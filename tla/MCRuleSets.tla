----------------------------- MODULE MCRuleSets -----------------------------
(* Small instances of RuleSets; ids and requests are interchangeable. *)
EXTENDS RuleSetExpectations, TLC

Symmetry == Permutations(Rule) \cup Permutations(Request)
=============================================================================
