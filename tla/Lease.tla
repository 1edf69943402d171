-------------------------------- MODULE Lease --------------------------------
(***************************************************************************)
(* What the lock table of a field promises (rule_edit_locks and            *)
(* audit_edit_locks, the unique index on the part and the conditional      *)
(* upsert of POST /:id/locks): at most one tab holds the field, and it     *)
(* passes from one user to another only by being free in between.          *)
(***************************************************************************)
CONSTANTS Tab, User,
          NoTab                  \* nobody holds the field

VARIABLES user,                  \* who is logged in in a tab
          holder                 \* the tab with a lease that has not run out

vars == <<user, holder>>

Init == /\ user \in [Tab -> User]
        /\ holder = NoTab

Take(t) == /\ holder # NoTab => user[holder] = user[t]
           /\ holder' = t
           /\ UNCHANGED user

Lose == /\ holder' = NoTab
        /\ UNCHANGED user

Next == (\E t \in Tab : Take(t)) \/ Lose

Spec == Init /\ [][Next]_vars
=============================================================================
