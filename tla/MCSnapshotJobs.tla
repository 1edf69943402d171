--------------------------- MODULE MCSnapshotJobs ---------------------------
(* Small instances of SnapshotJobs. *)
EXTENDS SnapshotExpectations, TLC

CONSTANTS j1, j2, j3, j4, s1, s2, a1, a2, h1, h2

(* A sample captured twice, and another sample of the audit on another host. *)
Retake       == {j1, j2, j3}
RetakeSample == j1 :> s1 @@ j2 :> s1 @@ j3 :> s2
RetakeHost   == j1 :> h1 @@ j2 :> h1 @@ j3 :> h2
Pair         == {j1, j2}
PairSample   == j1 :> s1 @@ j2 :> s1
PairHost     == j1 :> h1 @@ j2 :> h2
OneSample    == s1 :> a1
OneAudit     == s1 :> a1 @@ s2 :> a1

(* Three captures on one host and one elsewhere, of two audits. *)
Crowd        == {j1, j2, j3, j4}
CrowdSample  == j1 :> s1 @@ j2 :> s1 @@ j3 :> s1 @@ j4 :> s2
CrowdHost    == j1 :> h1 @@ j2 :> h1 @@ j3 :> h1 @@ j4 :> h2
TwoAudits    == s1 :> a1 @@ s2 :> a2
=============================================================================
