------------------------ MODULE EditLocksExpectations ------------------------
(***************************************************************************)
(* What the lock tables and the handlers of the focus are there for, and   *)
(* EditLocks, written from the code, does not guarantee.                   *)
(***************************************************************************)
EXTENDS EditLocks

(* A tab whose field has the focus and whose lease stands prolongs it
   (active_locks_by_part).  A release still under way when the field got the
   focus again removes the entry of the new acquisition. *)
EditorProlongs ==
    \A t \in Tab :
        focus[t] /\ holder = t /\ acq[t] = "none" /\ rel[t] = "none" => active[t]

(* Two users do not edit the same field at the same time
   (server/migrations/018_add_audit_edit_locks.sql:2): of two fields with the focus
   that are not read-only one is on its way to be. *)
Writable(t) == focus[t] /\ acq[t] = "none" /\ known[t] \in {NoTab, t}

OneEditor ==
    \A s, t \in Tab : Writable(s) /\ Writable(t) => user[s] = user[t]
=============================================================================
