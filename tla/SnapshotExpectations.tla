------------------------ MODULE SnapshotExpectations ------------------------
(* What documents and comments say of the snapshot jobs and the code does not do. *)
EXTENDS SnapshotJobs

(* docs/api-dokumentation.md:756, GV_SNAPSHOT_HOST_MAX_CONCURRENCY: "Max parallella
   captures per värdnamn".  (snapshot_host_throttle.ts) *)
HostBound == \A h \in Host : Cardinality({j \in At(HoldsBrowser) : HostOf[j] = h}) <= HostMax

(* docs/api-dokumentation.md:751, GV_SNAPSHOT_PACKAGE_MAX_CONCURRENCY: "Parallell
   zip-paketering".  (on_packaging_start) *)
PackageBound == Cardinality(At({"packaging", "archiving"})) <= PackageMax

(* docs/api-dokumentation.md:736, DELETE: "Avbryt pågående capture".  A deleted
   capture leaves no archive behind.  (cancel_snapshot_capture, is_cancelled) *)
DeletedLeavesNothing ==
  \A j \in Job : pc[j] = "done" /\ status[j] = "none" => file[j] = "none"

(* The same line: a capture that was deleted while it ran is over, so it is never
   the one for which an earlier snapshot of the sample, ready to be downloaded, is
   marked as superseded.  (mark_previous_ready_superseded) *)
DeletedSupersedesNothing ==
  [][\A j, k \in Job : /\ pc[j] = "archived" /\ pc'[j] = "superseding"
                       /\ status[k] = "ready" /\ status'[k] = "superseded"
                       => status[j] # "none"]_vars

(* cleanup_stale_temp_files_best_effort removes "stale" files: an archive that is
   offered lacks nothing of its capture.  (audit_snapshot_storage.ts:87) *)
ReadyIsWhole == \A j \in Job : status[j] = "ready" => file[j] # "torn"

(* docs/api-dokumentation.md:735, GET .../download: "Ladda ner en färdig snapshot-zip".
   A finished snapshot has the archive to download, until a deletion under way has
   removed its row too.  (purge_audit_snapshot_by_id) *)
ReadyIsDownloadable == \A j \in Job : status[j] = "ready" => file[j] # "none" \/ Doomed(j)

(* server/services/snapshot_fair_queue_pick.ts:2: "max en aktiv per granskning" *)
OneActivePerAudit == \A a \in Audit : Cardinality({j \in At(HoldsBrowser) : audit(j) = a}) <= 1
=============================================================================
