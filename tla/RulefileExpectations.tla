------------------------ MODULE RulefileExpectations ------------------------
(***************************************************************************)
(* What editors of a rule file would expect, and RulefileSync, written     *)
(* from the code, does not guarantee.                                      *)
(***************************************************************************)
EXTENDS RulefileSync

(* An answer does not take away what its tab has put into the state and nothing
   has sent yet; the answer of a PUT is to bring the date
   (js/sync/rulefile_sync_service.js:139, 158), and brings the whole content. *)
Unsent(t, r) ==
    /\ local[t].content[r] \notin saved
    /\ \A c \in Call : calls[t][c].kind \in Puts =>
                           calls[t][c].body[r] # local[t].content[r]

EditSurvives ==
    [][\A t \in Tab, r \in Req :
          Unsent(t, r) => local'[t].content[r] >= local[t].content[r]]_vars

(* What the server has is not replaced by what is older: the PUT of a tab, or
   its editor opened earlier, brings back what others have changed. *)
SavedStays == [][\A r \in Req : row'.content[r] >= row.content[r]]_vars
=============================================================================
