----------------------------- MODULE VersionedRow -----------------------------
(***************************************************************************)
(* What optimistic locking promises to somebody who saves an audit         *)
(* (server/routes/audits.js:897-902): a save is either refused, or applied *)
(* in one step to the row as it is at that moment, touching the fields it  *)
(* is about and no others.  No copy of the row is ever written back.       *)
(***************************************************************************)
EXTENDS Naturals

CONSTANTS Client, Field, Value,
          Keep                   \* no Value: the entry of an edit that leaves a field alone

VARIABLES live, ver, content,
          want                   \* per client: the edit it has asked for

vars == <<live, ver, content, want>>

Edit   == [Field -> Value \cup {Keep}]
NoEdit == [f \in Field |-> Keep]

Applied(x, e) == [f \in Field |-> IF e[f] = Keep THEN x[f] ELSE e[f]]

Init == /\ live = TRUE
        /\ ver = 1
        /\ content \in [Field -> Value]
        /\ want = [c \in Client |-> NoEdit]

Ask(c) == /\ want[c] = NoEdit
          /\ \E e \in Edit : want' = [want EXCEPT ![c] = e]
          /\ UNCHANGED <<live, ver, content>>

Apply(c) == /\ live
            /\ want[c] # NoEdit
            /\ content' = Applied(content, want[c])
            /\ ver' = ver + 1
            /\ want' = [want EXCEPT ![c] = NoEdit]
            /\ UNCHANGED live

Refuse(c) == /\ want' = [want EXCEPT ![c] = NoEdit]
             /\ UNCHANGED <<live, ver, content>>

Remove == /\ live
          /\ live' = FALSE
          /\ UNCHANGED <<ver, content, want>>

Next == (\E c \in Client : Ask(c) \/ Apply(c) \/ Refuse(c)) \/ Remove

Spec == Init /\ [][Next]_vars
=============================================================================
