---------------------------- MODULE MCAuditServer ----------------------------
EXTENDS AuditServerRefinement, TLC

Symmetry == Permutations(Client) \cup Permutations(Part)
=============================================================================
