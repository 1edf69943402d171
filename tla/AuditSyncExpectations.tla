------------------------ MODULE AuditSyncExpectations ------------------------
(***************************************************************************)
(* What comments, documents and names of the repository say of the sync,   *)
(* and AuditSync, written from the code, does not do.  Each is refuted by  *)
(* a configuration of its own; SavedUnlessAtRisk in AuditSync is what does *)
(* hold of the first ones.                                                 *)
(***************************************************************************)
EXTENDS AuditSync

(* has_unsynced_local_audit_changes says whether there are unsaved local changes
   (comment at audit_sync_tracking.ts:69).  So a tab that is quiet, because it
   says there are none, has none: ... also when an edit was made while a run was
   in flight, whose success stamps the audit as saved. *)
SavedDespiteWindow  == SavedDespite({"window"})
(* ... also when a requirement and metadata were edited within one debounce. *)
SavedDespiteMixed   == SavedDespite({"mixed"})
(* ... also when an edit followed a full PATCH that was lost. *)
SavedDespiteLost    == SavedDespite({"lost"})
(* ... also when the user left a requirement before the debounce was over, and
   other requirements were still planned. *)
SavedDespiteDropped == SavedDespite({"dropped"})
(* ... also when the audit is locked, and its observations are still edited. *)
SavedDespiteUnstamped == SavedDespite({"unstamped"})

(* The converse: a tab that says it has unsaved changes has some.  With the
   row's version and no run in flight its copy differs from the row. *)
UnsyncedIsReal ==
  \A t \in Tab : run[t].pc = "idle" /\ ~marked[t] /\ Unsynced(local[t]) /\ local[t].ver = row.ver
                   => Typed(row) # Typed(local[t])

(* The open audit is reloaded when the server's version is newer
   (audit_remote_reload.ts:2): no reload replaces what the tab has by the same
   version, or by an earlier one. *)
ReloadsAreNewer ==
  [][\A t \in Tab : fetch[t].pc = "apply" /\ fetch'[t].pc = "idle" /\ local'[t] # local[t]
       => fetch[t].got.ver > local[t].ver]_vars

(* "Local content is newer, or a full PATCH waits: never write over it with the
   server's copy" (audit_sync_prepare.ts:97): nor does the poll. *)
ReloadKeepsWork ==
  [][\A t \in Tab : fetch[t].pc = "apply" /\ fetch'[t].pc = "idle" /\ local'[t] # local[t]
       => ~plan[t].full /\ ~ShouldPush(local[t], fetch[t].got)]_vars

(* The version identifies the content: a quiet tab with the row's version has
   the row's content. *)
SameVersionSameContent ==
  \A t \in Tab : Quiet(t) /\ ~Planned(plan[t]) /\ risk[t] = {} /\ local[t].ver = row.ver
                   => Typed(row) = Typed(local[t])

(* 409 on the main PATCH: the audit is fetched and replaces the local state
   (docs/audit_version_contract.md:12). *)
ConflictReplaces ==
  [][\A t \in Tab : run[t].pc = "conflict" /\ run'[t].pc # "conflict" /\ marked'[t] = marked[t]
       => Typed(local'[t]) = Typed(row)]_vars

(* "Local changes are kept until the sync succeeds" (audit_sync_execute.ts:491):
   an audit marked for retry is retried with success, or replaced. *)
MarkedIsSent == \A t \in Tab : marked[t] ~> ~marked[t]
=============================================================================
