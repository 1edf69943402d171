------------------------ MODULE AuditServerRefinement ------------------------
(***************************************************************************)
(* The handlers whose write is conditional on the version (CasSpec), and   *)
(* import-replace, implement VersionedRow: although they carry a copy of   *)
(* the row across awaits, a save acts on the row as if it were one step.   *)
(***************************************************************************)
EXTENDS AuditServer

CONSTANT Keep
ASSUME KeepIsNoValue == Keep \notin Value

(* The edit a request in the server stands for. *)
WantOf(r) == [f \in Field |-> IF f \in r.edited THEN r.body[f] ELSE Keep]

want == [c \in Client |-> WantOf(req[c])]

Row == INSTANCE VersionedRow WITH want <- want, live <- live, ver <- ver, content <- content

(* Every behaviour of the conditional handlers is one of VersionedRow. *)
ImplementsVersionedRow == Row!Spec
=============================================================================
