----------------------------- MODULE MCAuditSync -----------------------------
(* Small instances of AuditSync: a single tab with faults, or two tabs. *)
EXTENDS AuditSyncExpectations, TLC

Lock      == {<<"in_progress", "locked">>}
LockAgain == Lock \cup {<<"locked", "in_progress">>}
Archive   == Lock \cup {<<"locked", "archived">>}
None      == {}
NoReload  == [t \in Tab |-> {}]
AllPoll   == [t \in Tab |-> {"poll"}]

(* One tab reloads in both ways, the others (if any) do not. *)
OneReloads == LET chosen == CHOOSE t \in Tab : TRUE
              IN  [t \in Tab |-> IF t = chosen THEN {"poll", "visible"} ELSE {}]

Symmetry  == Permutations(Tab) \cup Permutations(Req)
=============================================================================
