---------------------------- MODULE SnapshotJobs ----------------------------
(***************************************************************************)
(* The page snapshots of server/services/audit_snapshot_job_service.ts:    *)
(* requests wait in a queue in memory, take a slot of their host and a     *)
(* browser, capture the page, package it, and leave a row of               *)
(* audit_snapshots and an archive on disk.  DELETE requests remove rows    *)
(* and archives meanwhile, and the process can be restarted.               *)
(*                                                                         *)
(* Node runs one callback at a time, and between two callbacks it drains   *)
(* the queue of microtasks in order.  The semaphores depend on that order, *)
(* so it is kept: a woken waiter counts itself in a microtask of its own,  *)
(* and what runs before that microtask still sees the slot as free.        *)
(***************************************************************************)
EXTENDS Naturals, Sequences, FiniteSets, SequencesExt

CONSTANTS Job,        \* capture ids, each requested once
          Sample, Audit, Host,
          SampleOf,   \* the sample of a job
          AuditOf,    \* the audit of a sample
          HostOf,     \* the host of a job's URL
          BrowserMax, PackageMax, HostMax, \* the configured limits
          MaxDeletes, \* bound: DELETE requests
          MaxFaults,  \* bound: statements the database fails
          MaxRestarts \* bound: restarts of the server

ASSUME JobAssumption == /\ SampleOf \in [Job -> Sample]
                        /\ AuditOf \in [Sample -> Audit]
                        /\ HostOf \in [Job -> Host]
ASSUME LimitAssumption == {BrowserMax, PackageMax, HostMax} \subseteq Nat \ {0}

VARIABLES pc,       \* where each job stands
          answer,   \* what the POST that requested it was answered
          status,   \* its row of audit_snapshots: the status, "none" without a row
          file,     \* its archive: none, whole, or torn (files were missing when it was built)
          temp,     \* its directory of captured files
          queue, last_served_audit_id, active_audit_ids, pump_running,
          browser, package, host,  \* semaphores
          cooling,  \* hosts that a capture left less than the cooldown ago
          micro,    \* jobs with a pending microtask, in order
          cancelled_ids,
          del,      \* DELETE /:id/snapshots/:snapshotId: what the handler does next
          sweep,    \* DELETE /:id/snapshots/by-sample/:sampleId, likewise
          booting,  \* rows of the last life of the process are not recovered yet
          stranded, \* history: jobs whose row a failed statement left unfinished
          bared,    \* history: jobs whose archive was removed and whose row was not, because
                    \* the server stopped or the statement about the row failed
          deletes, faults, restarts

outer    == <<booting, deletes, faults, restarts, stranded, bared>>
disk     == <<file, temp>>
handlers == <<del, sweep>>
pumping  == <<queue, last_served_audit_id, active_audit_ids, pump_running>>
slots    == <<browser, package, host, cooling, micro>>
vars     == <<pc, answer, status, disk, pumping, slots, cancelled_ids, handlers, outer>>

Unfinished == {"queued", "capturing", "packaging"}
Status     == Unfinished \cup {"none", "ready", "failed", "cancelled", "superseded"}

(* Where a job that process_capture_job has started stands. *)
HoldsBrowser == {"starting", "stuck", "capturing", "extended", "waitpackage", "wokenpackage",
                 "packaging", "archiving", "archived", "superseding", "mark_failed", "mark_cancelled"}
HoldsHost    == HoldsBrowser \cup {"hashost", "cooldown", "waitbrowser", "wokenbrowser"}
Running      == HoldsHost \cup {"waithost", "wokenhost"}
Pc           == Running \cup {"new", "inserted", "queued", "done", "gone"}

audit(j) == AuditOf[SampleOf[j]]

Free    == [active |-> 0, waiting |-> <<>>]
NoSweep == [stage |-> "idle", ids |-> {}, left |-> {}]

Init == /\ pc = [j \in Job |-> "new"]
        /\ answer = [j \in Job |-> "none"]
        /\ status = [j \in Job |-> "none"]
        /\ file = [j \in Job |-> "none"]
        /\ temp = [j \in Job |-> "none"]
        /\ queue = <<>> /\ last_served_audit_id = "null"
        /\ active_audit_ids = {} /\ pump_running = FALSE
        /\ browser = Free /\ package = Free /\ host = [h \in Host |-> Free]
        /\ cooling = {} /\ micro = <<>> /\ cancelled_ids = {}
        /\ del = [j \in Job |-> "idle"]
        /\ sweep = [s \in Sample |-> NoSweep]
        /\ booting = FALSE /\ stranded = {} /\ bared = {}
        /\ deletes = 0 /\ faults = 0 /\ restarts = 0

-----------------------------------------------------------------------------
(* class Semaphore.  acquire counts at once when a slot is free; release    *)
(* uncounts and resolves the first waiter, which counts when its microtask  *)
(* runs.                                                                    *)

Counted(s)    == [s EXCEPT !.active = @ + 1]
Waiting(s, j) == [s EXCEPT !.waiting = Append(@, j)]
Released(s)   == [active  |-> IF s.active > 0 THEN s.active - 1 ELSE 0,
                  waiting |-> IF s.waiting = <<>> THEN <<>> ELSE Tail(s.waiting)]
Woken(s)      == IF s.waiting = <<>> THEN <<>> ELSE <<Head(s.waiting)>>

(* No callback runs: the event loop takes the next one. *)
Idle == ~pump_running /\ micro = <<>>

UpdateStatus(j, s) ==
  status' = IF status[j] = "none" THEN status ELSE [status EXCEPT ![j] = s]

-----------------------------------------------------------------------------
(* POST /:id/snapshots/capture, and the queue. *)

InsertRow(j) == /\ Idle /\ pc[j] = "new"
                /\ pc' = [pc EXCEPT ![j] = "inserted"]
                /\ status' = [status EXCEPT ![j] = "queued"]
                /\ UNCHANGED <<answer, disk, pumping, slots, cancelled_ids, handlers, outer>>

Enqueue(j) == /\ Idle /\ pc[j] = "inserted"
              /\ pc' = [pc EXCEPT ![j] = "queued"]
              /\ answer' = [answer EXCEPT ![j] = "waiting"]
              /\ queue' = Append(queue, j)
              /\ pump_running' = TRUE
              /\ UNCHANGED <<status, disk, last_served_audit_id, active_audit_ids, slots,
                             cancelled_ids, handlers, outer>>

(* pick_fair_queue_job: the first job of an audit with nothing active and not
   served last, else the first of an audit with nothing active, else the first. *)
Picked == LET idle  == {i \in DOMAIN queue : audit(queue[i]) \notin active_audit_ids}
              other == {i \in idle : audit(queue[i]) # last_served_audit_id}
              first(S) == CHOOSE i \in S : \A k \in S : i <= k
          IN  IF other # {} THEN first(other) ELSE IF idle # {} THEN first(idle) ELSE 1

HasCapacity == queue # <<>> /\ browser.active < BrowserMax

(* One turn of the loop of pump_queue, with process_capture_job up to its
   first await: the acquisition of the host's semaphore. *)
PumpTakes ==
  /\ pump_running /\ HasCapacity
  /\ LET j == queue[Picked]
         h == HostOf[j]
     IN  /\ queue' = RemoveAt(queue, Picked)
         /\ last_served_audit_id' = audit(j)
         /\ active_audit_ids' = active_audit_ids \cup {audit(j)}
         /\ \/ /\ host[h].active < HostMax
               /\ host' = [host EXCEPT ![h] = Counted(@)]
               /\ pc' = [pc EXCEPT ![j] = "hashost"]
               /\ micro' = Append(micro, j)
            \/ /\ host[h].active >= HostMax
               /\ host' = [host EXCEPT ![h] = Waiting(@, j)]
               /\ pc' = [pc EXCEPT ![j] = "waithost"]
               /\ UNCHANGED micro
  /\ UNCHANGED <<answer, status, disk, pump_running, browser, package, cooling, cancelled_ids,
                 handlers, outer>>

PumpStops == /\ pump_running /\ ~HasCapacity
             /\ pump_running' = FALSE
             /\ UNCHANGED <<pc, answer, status, disk, queue, last_served_audit_id,
                            active_audit_ids, slots, cancelled_ids, handlers, outer>>

-----------------------------------------------------------------------------
(* Microtasks. *)

(* Mutant: off by one, the limit itself still admits a browser. *)
AcquireBrowserAtLimit(j) ==
  \/ /\ browser.active <= BrowserMax
     /\ browser' = Counted(browser)
     /\ pc' = [pc EXCEPT ![j] = "starting"]
  \/ /\ browser.active > BrowserMax
     /\ browser' = Waiting(browser, j)
     /\ pc' = [pc EXCEPT ![j] = "waitbrowser"]

(* await browser_semaphore.acquire() *)
AcquireBrowser(j) ==
  \/ /\ browser.active < BrowserMax
     /\ browser' = Counted(browser)
     /\ pc' = [pc EXCEPT ![j] = "starting"]
  \/ /\ browser.active >= BrowserMax
     /\ browser' = Waiting(browser, j)
     /\ pc' = [pc EXCEPT ![j] = "waitbrowser"]

Microtask(j) == /\ ~pump_running /\ micro # <<>> /\ j = Head(micro)
                /\ UNCHANGED <<answer, status, disk, pumping, cooling, cancelled_ids, handlers, outer>>

HostWakes(j) == /\ Microtask(j) /\ pc[j] = "wokenhost"
                /\ host' = [host EXCEPT ![HostOf[j]] = Counted(@)]
                /\ pc' = [pc EXCEPT ![j] = "hashost"]
                /\ micro' = Append(Tail(micro), j)
                /\ UNCHANGED <<browser, package>>

(* acquire_snapshot_host_slot after its semaphore: wait for the cooldown, or
   go on to the browser. *)
HostGranted(j) == /\ Microtask(j) /\ pc[j] = "hashost"
                  /\ micro' = Tail(micro)
                  /\ \/ /\ HostOf[j] \in cooling
                        /\ pc' = [pc EXCEPT ![j] = "cooldown"]
                        /\ UNCHANGED browser
                     \/ HostOf[j] \notin cooling /\ AcquireBrowser(j)
                  /\ UNCHANGED <<package, host>>

BrowserWakes(j) == /\ Microtask(j) /\ pc[j] = "wokenbrowser"
                   /\ browser' = Counted(browser)
                   /\ pc' = [pc EXCEPT ![j] = "starting"]
                   /\ micro' = Tail(micro)
                   /\ UNCHANGED <<package, host>>

PackageWakes(j) == /\ Microtask(j) /\ pc[j] = "wokenpackage"
                   /\ package' = Counted(package)
                   /\ pc' = [pc EXCEPT ![j] = "packaging"]
                   /\ micro' = Tail(micro)
                   /\ UNCHANGED <<browser, host>>

MicroStep(j) == HostWakes(j) \/ HostGranted(j) \/ BrowserWakes(j) \/ PackageWakes(j)


-----------------------------------------------------------------------------
(* The capture.  Every step below is a callback: a statement of the         *)
(* database, a timer, the browser or the disk has answered.                 *)

(* The timer of the cooldown, and the time after which there is none. *)
EndCooldown(j) == /\ Idle /\ pc[j] = "cooldown"
                  /\ AcquireBrowser(j)
                  /\ UNCHANGED <<answer, status, disk, pumping, package, host, cooling, micro,
                                 cancelled_ids, handlers, outer>>

HostCools(h) == /\ Idle /\ h \in cooling
                /\ cooling' = cooling \ {h}
                /\ UNCHANGED <<pc, answer, status, disk, pumping, browser, package, host, micro,
                               cancelled_ids, handlers, outer>>

Start(j) == /\ Idle /\ pc[j] = "starting"
            /\ pc' = [pc EXCEPT ![j] = "capturing"]
            /\ UpdateStatus(j, "capturing")
            /\ temp' = [temp EXCEPT ![j] = "whole"]
            /\ UNCHANGED <<answer, file, pumping, slots, cancelled_ids, handlers, outer>>

(* on_visible_complete *)
VisibleComplete(j) == /\ Idle /\ pc[j] = "capturing" /\ j \notin cancelled_ids
                      /\ pc' = [pc EXCEPT ![j] = "extended"]
                      /\ UpdateStatus(j, "capturing")
                      /\ answer' = [answer EXCEPT ![j] = "ok"]
                      /\ UNCHANGED <<disk, pumping, slots, cancelled_ids, handlers, outer>>

(* on_packaging_start, to its package slot *)
RequestPackaging(j) ==
  /\ Idle /\ pc[j] = "extended"
  /\ \/ /\ package.active < PackageMax
        /\ package' = Counted(package)
        /\ pc' = [pc EXCEPT ![j] = "packaging"]
     \/ /\ package.active >= PackageMax
        /\ package' = Waiting(package, j)
        /\ pc' = [pc EXCEPT ![j] = "waitpackage"]
  /\ UNCHANGED <<answer, status, disk, pumping, browser, host, cooling, micro, cancelled_ids,
                 handlers, outer>>

Becomes(j, p, woken, q) ==
  [k \in Job |-> IF k = j THEN p ELSE IF k \in ToSet(woken) THEN q ELSE pc[k]]

SetPackaging(j) == /\ Idle /\ pc[j] = "packaging"
                   /\ UpdateStatus(j, "packaging")
                   /\ package' = Released(package)
                   /\ micro' = Woken(package)
                   /\ pc' = Becomes(j, "archiving", Woken(package), "wokenpackage")
                   /\ UNCHANGED <<answer, disk, pumping, browser, host, cooling, cancelled_ids,
                                  handlers, outer>>

(* Mutant: an archive is built of a directory that is not there. *)
ArchiveUnchecked(j) == /\ Idle /\ pc[j] = "archiving"
                       /\ pc' = [pc EXCEPT ![j] = "archived"]
                       /\ file' = [file EXCEPT ![j] = temp[j]]
                       /\ temp' = [temp EXCEPT ![j] = "none"]
                       /\ UNCHANGED <<answer, status, pumping, slots, cancelled_ids, handlers, outer>>

(* build_snapshot_archive, and the removal of the directory *)
Archive(j) == /\ Idle /\ pc[j] = "archiving" /\ temp[j] # "gone"
              /\ pc' = [pc EXCEPT ![j] = "archived"]
              /\ file' = [file EXCEPT ![j] = temp[j]]
              /\ temp' = [temp EXCEPT ![j] = "none"]
              /\ UNCHANGED <<answer, status, pumping, slots, cancelled_ids, handlers, outer>>

(* mark_previous_ready_superseded *)
SupersedePrevious(j) ==
  /\ Idle /\ pc[j] = "archived"
  /\ pc' = [pc EXCEPT ![j] = "superseding"]
  /\ cancelled_ids' = cancelled_ids \ {j}
  /\ status' = [k \in Job |-> IF k # j /\ SampleOf[k] = SampleOf[j] /\ status[k] \in {"ready", "failed"}
                              THEN "superseded" ELSE status[k]]
  /\ UNCHANGED <<answer, disk, pumping, slots, handlers, outer>>

(* The catch block: decide what the row will say and remove the files. *)
Throw(j) == /\ pc' = [pc EXCEPT ![j] = IF j \in cancelled_ids THEN "mark_cancelled" ELSE "mark_failed"]
            /\ file' = [file EXCEPT ![j] = "none"]
            /\ temp' = [temp EXCEPT ![j] = "none"]

(* The page, the browser or the disk fails, or a check of is_cancelled throws. *)
CaptureFails(j) == /\ Idle /\ pc[j] \in {"capturing", "extended", "archiving", "archived"}
                   /\ Throw(j)
                   /\ UNCHANGED <<answer, status, pumping, slots, cancelled_ids, handlers, outer>>

(* Mutant: the finally block releases the slots and does not pump. *)
FinishWithoutPump(j) == LET h == HostOf[j] IN
  /\ active_audit_ids' = active_audit_ids \ {audit(j)}
  /\ browser' = Released(browser)
  /\ cooling' = cooling \cup {h}
  /\ host' = [host EXCEPT ![h] = Released(@)]
  /\ micro' = Woken(browser) \o Woken(host[h])
  /\ pc' = [k \in Job |-> IF k = j THEN "done"
                          ELSE IF k \in ToSet(Woken(browser)) THEN "wokenbrowser"
                          ELSE IF k \in ToSet(Woken(host[h])) THEN "wokenhost" ELSE pc[k]]
  /\ UNCHANGED <<disk, queue, last_served_audit_id, pump_running, package, handlers>>

(* The finally block, and pump_queue. *)
Finish(j) == LET h == HostOf[j] IN
  /\ active_audit_ids' = active_audit_ids \ {audit(j)}
  /\ browser' = Released(browser)
  /\ cooling' = cooling \cup {h}
  /\ host' = [host EXCEPT ![h] = Released(@)]
  /\ micro' = Woken(browser) \o Woken(host[h])
  /\ pc' = [k \in Job |-> IF k = j THEN "done"
                          ELSE IF k \in ToSet(Woken(browser)) THEN "wokenbrowser"
                          ELSE IF k \in ToSet(Woken(host[h])) THEN "wokenhost" ELSE pc[k]]
  /\ pump_running' = TRUE
  /\ UNCHANGED <<disk, queue, last_served_audit_id, package, handlers>>

MakeReady(j) == /\ Idle /\ pc[j] = "superseding"
                /\ UpdateStatus(j, "ready")
                /\ Finish(j)
                /\ UNCHANGED <<answer, cancelled_ids, outer>>

(* Mutant: the caller of a capture that fails is not told. *)
RecordFailureSilently(j) == /\ Idle /\ pc[j] \in {"mark_failed", "mark_cancelled"}
                            /\ UpdateStatus(j, IF pc[j] = "mark_failed" THEN "failed" ELSE "cancelled")
                            /\ cancelled_ids' = cancelled_ids \ {j}
                            /\ Finish(j)
                            /\ UNCHANGED <<answer, outer>>

RecordFailure(j) == /\ Idle /\ pc[j] \in {"mark_failed", "mark_cancelled"}
                    /\ UpdateStatus(j, IF pc[j] = "mark_failed" THEN "failed" ELSE "cancelled")
                    /\ answer' = [answer EXCEPT ![j] = IF @ = "waiting" THEN "error" ELSE @]
                    /\ cancelled_ids' = cancelled_ids \ {j}
                    /\ Finish(j)
                    /\ UNCHANGED outer

CaptureStep(j) == \/ Enqueue(j) \/ EndCooldown(j) \/ Start(j) \/ VisibleComplete(j)
                  \/ RequestPackaging(j) \/ SetPackaging(j) \/ Archive(j) \/ SupersedePrevious(j)
                  \/ CaptureFails(j) \/ MakeReady(j) \/ RecordFailure(j)

-----------------------------------------------------------------------------
(* Statements of a capture that fail; those of a deletion are with it below. *)

Fault == faults < MaxFaults /\ faults' = faults + 1 /\ UNCHANGED <<deletes, restarts, booting, bared>>

(* UPDATE to capturing, outside the try: nothing is released, nobody is told. *)
StartFails(j) == /\ Idle /\ pc[j] = "starting" /\ Fault
                 /\ pc' = [pc EXCEPT ![j] = "stuck"]
                 /\ stranded' = stranded \cup {j}
                 /\ UNCHANGED <<answer, status, disk, pumping, slots, cancelled_ids, handlers>>

(* Mutant: without the finally, the slot stays taken. *)
PackagingFailsHolding(j) == /\ Idle /\ pc[j] = "packaging" /\ Fault
                            /\ Throw(j)
                            /\ UNCHANGED <<answer, status, pumping, slots, cancelled_ids, handlers,
                                           stranded>>

(* UPDATE to packaging: finally releases the package slot. *)
PackagingFails(j) == /\ Idle /\ pc[j] = "packaging" /\ Fault
                     /\ package' = Released(package)
                     /\ micro' = Woken(package)
                     /\ pc' = Becomes(j, IF j \in cancelled_ids THEN "mark_cancelled" ELSE "mark_failed",
                                      Woken(package), "wokenpackage")
                     /\ file' = [file EXCEPT ![j] = "none"]
                     /\ temp' = [temp EXCEPT ![j] = "none"]
                     /\ UNCHANGED <<answer, status, pumping, browser, host, cooling, cancelled_ids,
                                    handlers, stranded>>

(* UPDATE to ready *)
ReadyFails(j) == /\ Idle /\ pc[j] = "superseding" /\ Fault
                 /\ Throw(j)
                 /\ UNCHANGED <<answer, status, pumping, slots, cancelled_ids, handlers, stranded>>

(* UPDATE in the catch block: finally still runs, the rest of the block does not. *)
RecordFails(j) == /\ Idle /\ pc[j] \in {"mark_failed", "mark_cancelled"} /\ Fault
                  /\ stranded' = stranded \cup {j}
                  /\ Finish(j)
                  /\ UNCHANGED <<answer, status, cancelled_ids>>

StatementFails(j) == StartFails(j) \/ PackagingFails(j) \/ ReadyFails(j) \/ RecordFails(j)

-----------------------------------------------------------------------------
(* Deletion. *)

(* What becomes of the directories of the jobs S when they are removed: a
   capture goes on writing into a new directory and lacks what was in the old
   one, a packaging finds nothing, and one that is reading may have read it. *)
RemoveTemps(S) ==
  \E lucky \in SUBSET {k \in S : pc[k] \in {"capturing", "archiving"}} :
    temp' = [k \in Job |-> IF k \in lucky \/ k \notin S \/ temp[k] = "none" THEN temp[k]
                           ELSE IF pc[k] \in {"capturing", "extended"} THEN "torn" ELSE "gone"]

OfAudit(a) == {k \in Job : audit(k) = a}

(* cleanup_stale_temp_files_best_effort removes the directories of the whole audit. *)
RemoveFiles(j) == /\ file' = [file EXCEPT ![j] = "none"]
                  /\ RemoveTemps(OfAudit(audit(j)))

NotADeletion == UNCHANGED <<pc, answer, pumping, slots, booting, faults, restarts, stranded>>

(* DELETE /:id/snapshots/:snapshotId, to purge_audit_snapshot_by_id. *)
AskDelete(j) == /\ Idle /\ del[j] = "idle" /\ deletes < MaxDeletes
                /\ deletes' = deletes + 1
                /\ \/ /\ status[j] # "none"
                      /\ cancelled_ids' = cancelled_ids \cup {j}
                      /\ del' = [del EXCEPT ![j] = "files"]
                   \/ /\ status[j] = "none"
                      /\ del' = [del EXCEPT ![j] = "fallback"]
                      /\ UNCHANGED cancelled_ids
                /\ UNCHANGED <<status, disk, sweep>> /\ NotADeletion /\ UNCHANGED bared

DeleteFiles(j) == /\ Idle /\ del[j] = "files"
                  /\ RemoveFiles(j)
                  /\ del' = [del EXCEPT ![j] = "row"]
                  /\ UNCHANGED <<status, cancelled_ids, sweep, deletes>> /\ NotADeletion /\ UNCHANGED bared

(* Mutant: the row is deleted only while the capture is unfinished. *)
DeleteRowUnfinished(j) ==
  /\ Idle /\ del[j] = "row"
  /\ status' = IF status[j] \in Unfinished THEN [status EXCEPT ![j] = "none"] ELSE status
  /\ del' = [del EXCEPT ![j] = "idle"]
  /\ UNCHANGED <<disk, cancelled_ids, sweep, deletes>> /\ NotADeletion /\ UNCHANGED bared

DeleteRow(j) == /\ Idle /\ del[j] = "row"
                /\ status' = [status EXCEPT ![j] = "none"]
                /\ del' = [del EXCEPT ![j] = IF status[j] = "none" THEN "fallback" ELSE "idle"]
                /\ UNCHANGED <<disk, cancelled_ids, sweep, deletes>> /\ NotADeletion /\ UNCHANGED bared

(* delete_snapshot_job, when there was no row to purge *)
CancelJob(j) == /\ Idle /\ del[j] = "fallback"
                /\ cancelled_ids' = cancelled_ids \cup {j}
                /\ del' = [del EXCEPT ![j] = IF status[j] \in {"none", "ready", "superseded"}
                                             THEN "idle" ELSE "cancelfiles"]
                /\ UNCHANGED <<status, disk, sweep, deletes>> /\ NotADeletion /\ UNCHANGED bared

CancelFiles(j) == /\ Idle /\ del[j] = "cancelfiles"
                  /\ RemoveFiles(j)
                  /\ bared' = IF file[j] # "none" THEN bared \cup {j} ELSE bared
                  /\ del' = [del EXCEPT ![j] = "cancelrow"]
                  /\ UNCHANGED <<status, cancelled_ids, sweep, deletes>> /\ NotADeletion

CancelRow(j) == /\ Idle /\ del[j] = "cancelrow"
                /\ UpdateStatus(j, "cancelled")
                /\ del' = [del EXCEPT ![j] = "idle"]
                /\ UNCHANGED <<disk, cancelled_ids, sweep, deletes>> /\ NotADeletion /\ UNCHANGED bared

DeleteStep(j) == \/ DeleteFiles(j) \/ DeleteRow(j)
                 \/ CancelJob(j) \/ CancelFiles(j) \/ CancelRow(j)

(* DELETE /:id/snapshots/by-sample/:sampleId, purge_audit_snapshots_for_sample:
   the ids, the files of each, the directories, and every row there is by then. *)
AskSweep(s) == LET ids == {j \in Job : SampleOf[j] = s /\ status[j] # "none"} IN
               /\ Idle /\ sweep[s].stage = "idle" /\ ids # {} /\ deletes < MaxDeletes
               /\ deletes' = deletes + 1
               /\ sweep' = [sweep EXCEPT ![s] = [stage |-> "files", ids |-> ids, left |-> ids]]
               /\ UNCHANGED <<status, disk, cancelled_ids, del>> /\ NotADeletion /\ UNCHANGED bared

SweepFiles(s) == /\ Idle /\ sweep[s].stage = "files"
                 /\ \E j \in sweep[s].left :
                      /\ cancelled_ids' = cancelled_ids \cup {j}
                      /\ file' = [file EXCEPT ![j] = "none"]
                      /\ RemoveTemps({j})
                      /\ sweep' = [sweep EXCEPT ![s].left = @ \ {j},
                                                ![s].stage = IF sweep[s].left = {j} THEN "temps" ELSE @]
                 /\ UNCHANGED <<status, del, deletes>> /\ NotADeletion /\ UNCHANGED bared

SweepTemps(s) == /\ Idle /\ sweep[s].stage = "temps"
                 /\ RemoveTemps(OfAudit(AuditOf[s]))
                 /\ sweep' = [sweep EXCEPT ![s].stage = "rows"]
                 /\ UNCHANGED <<status, file, cancelled_ids, del, deletes>> /\ NotADeletion /\ UNCHANGED bared

SweepRows(s) == /\ Idle /\ sweep[s].stage = "rows"
                /\ status' = [j \in Job |-> IF SampleOf[j] = s THEN "none" ELSE status[j]]
                /\ sweep' = [sweep EXCEPT ![s] = NoSweep]
                /\ UNCHANGED <<disk, cancelled_ids, del, deletes>> /\ NotADeletion /\ UNCHANGED bared

SweepStep(s) == SweepFiles(s) \/ SweepTemps(s) \/ SweepRows(s)

(* A statement of a deletion fails, and the route answers 500: what the handler has done
   stays done, and nobody goes on with the rest. *)
DeletionFault == /\ Idle /\ faults < MaxFaults /\ faults' = faults + 1
                 /\ UNCHANGED <<pc, answer, status, disk, pumping, slots, booting, deletes,
                                restarts, stranded>>

(* DELETE of the row: its archive is gone. *)
DeleteRowFails(j) == /\ DeletionFault /\ del[j] = "row"
                     /\ bared' = bared \cup {j}
                     /\ del' = [del EXCEPT ![j] = "idle"]
                     /\ UNCHANGED <<cancelled_ids, sweep>>

(* SELECT of delete_snapshot_job, which has cancelled the capture by then *)
CancelJobFails(j) == /\ DeletionFault /\ del[j] = "fallback"
                     /\ cancelled_ids' = cancelled_ids \cup {j}
                     /\ del' = [del EXCEPT ![j] = "idle"]
                     /\ UNCHANGED <<sweep, bared>>

(* UPDATE to cancelled *)
CancelRowFails(j) == /\ DeletionFault /\ del[j] = "cancelrow"
                     /\ del' = [del EXCEPT ![j] = "idle"]
                     /\ UNCHANGED <<cancelled_ids, sweep, bared>>

(* DELETE of the rows of a sample: the archives of all that were listed are gone. *)
SweepRowsFails(s) == /\ DeletionFault /\ sweep[s].stage = "rows"
                     /\ bared' = bared \cup sweep[s].ids
                     /\ sweep' = [sweep EXCEPT ![s] = NoSweep]
                     /\ UNCHANGED <<cancelled_ids, del>>

DeletionFails == \/ \E j \in Job : DeleteRowFails(j) \/ CancelJobFails(j) \/ CancelRowFails(j)
                 \/ \E s \in Sample : SweepRowsFails(s)

-----------------------------------------------------------------------------
(* The process ends and is started again; what was in memory is gone, and the
   directories of its captures are never read again.                         *)

Doomed(j) == \/ del[j] = "row"
             \/ j \in sweep[SampleOf[j]].ids \ sweep[SampleOf[j]].left

Restart ==
  /\ Idle /\ restarts < MaxRestarts
  /\ restarts' = restarts + 1
  /\ pc' = [j \in Job |-> IF pc[j] \in {"new", "done"} THEN pc[j] ELSE "gone"]
  /\ answer' = [j \in Job |-> IF answer[j] = "waiting" THEN "error" ELSE answer[j]]
  /\ temp' = [j \in Job |-> "none"]
  /\ queue' = <<>> /\ last_served_audit_id' = "null"
  /\ active_audit_ids' = {} /\ UNCHANGED pump_running
  /\ browser' = Free /\ package' = Free /\ host' = [h \in Host |-> Free]
  /\ cooling' = {} /\ UNCHANGED micro /\ cancelled_ids' = {}
  /\ del' = [j \in Job |-> "idle"]
  /\ sweep' = [s \in Sample |-> NoSweep]
  /\ booting' = TRUE
  /\ bared' = bared \cup {j \in Job : Doomed(j)}
  /\ UNCHANGED <<status, file, deletes, faults, stranded>>

(* Mutant: a capture that was still waiting when the server stopped is overlooked. *)
RecoverStarted ==
  /\ Idle /\ booting
  /\ booting' = FALSE
  /\ status' = [j \in Job |-> IF status[j] \in {"capturing", "packaging"} THEN "failed" ELSE status[j]]
  /\ UNCHANGED <<pc, answer, disk, pumping, slots, cancelled_ids, handlers,
                 stranded, bared, deletes, faults, restarts>>

(* recover_stale_processing_snapshots, while the server already listens *)
Recover == /\ Idle /\ booting
           /\ booting' = FALSE
           /\ status' = [j \in Job |-> IF status[j] \in Unfinished THEN "failed" ELSE status[j]]
           /\ UNCHANGED <<pc, answer, disk, pumping, slots, cancelled_ids, handlers,
                          stranded, bared, deletes, faults, restarts>>

RecoverFails == /\ Idle /\ booting /\ faults < MaxFaults
                /\ booting' = FALSE /\ faults' = faults + 1
                /\ stranded' = stranded \cup {j \in Job : status[j] \in Unfinished}
                /\ UNCHANGED <<pc, answer, status, disk, pumping, slots, cancelled_ids, handlers,
                               bared, deletes, restarts>>

-----------------------------------------------------------------------------
Next == \/ PumpTakes \/ PumpStops
        \/ \E j \in Job : \/ InsertRow(j) \/ MicroStep(j) \/ CaptureStep(j) \/ StatementFails(j)
                          \/ AskDelete(j) \/ DeleteStep(j)
        \/ \E h \in Host : HostCools(h)
        \/ \E s \in Sample : AskSweep(s) \/ SweepStep(s)
        \/ DeletionFails \/ Restart \/ Recover \/ RecoverFails

Spec == Init /\ [][Next]_vars

(* Microtasks are run, statements and timers answer, and a capture ends: its
   navigations and its analysis have timeouts.                               *)
FairSpec == /\ Spec
            /\ WF_vars(PumpTakes \/ PumpStops)
            /\ \A j \in Job : WF_vars(MicroStep(j)) /\ WF_vars(CaptureStep(j))

-----------------------------------------------------------------------------
(* Properties. *)

Semaphore == [active : Nat, waiting : Seq(Job)]
Sweep     == [stage : {"idle", "files", "temps", "rows"}, ids : SUBSET Job, left : SUBSET Job]

(* Every variable has its type. *)
TypeOK == /\ pc \in [Job -> Pc]
          /\ answer \in [Job -> {"none", "waiting", "ok", "error"}]
          /\ status \in [Job -> Status]
          /\ file \in [Job -> {"none", "whole", "torn"}]
          /\ temp \in [Job -> {"none", "whole", "torn", "gone"}]
          /\ queue \in Seq(Job) /\ last_served_audit_id \in Audit \cup {"null"}
          /\ active_audit_ids \subseteq Audit /\ pump_running \in BOOLEAN
          /\ browser \in Semaphore /\ package \in Semaphore /\ host \in [Host -> Semaphore]
          /\ cooling \subseteq Host /\ micro \in Seq(Job) /\ cancelled_ids \subseteq Job
          /\ del \in [Job -> {"idle", "files", "row", "fallback", "cancelfiles", "cancelrow"}]
          /\ sweep \in [Sample -> Sweep]
          /\ booting \in BOOLEAN /\ stranded \subseteq Job /\ bared \subseteq Job
          /\ deletes \in Nat /\ faults \in Nat /\ restarts \in Nat

At(S) == {j \in Job : pc[j] \in S}

(* No more browsers run than GV_SNAPSHOT_BROWSER_MAX_CONCURRENCY allows, though
   a released slot looks free until the woken waiter has counted itself: what
   else asks for a browser asks in a later microtask.  (semaphore.ts, pump_queue) *)
BrowserBound == Cardinality(At(HoldsBrowser)) <= BrowserMax

(* No wakeup is lost: when no callback runs, nobody waits in the queue or for a
   semaphore that has a free slot, and each slot that counts as taken is one
   that a job holds, after failures and deletions too. *)
SlotsInUse ==
  Idle => /\ browser.active = Cardinality(At(HoldsBrowser))
          /\ \A h \in Host : host[h].active = Cardinality({j \in At(HoldsHost) : HostOf[j] = h})
          /\ package.active = Cardinality(At({"packaging"}))
          /\ queue # <<>> \/ browser.waiting # <<>> => browser.active >= BrowserMax
          /\ \A h \in Host : host[h].waiting # <<>> => host[h].active >= HostMax
          /\ package.waiting # <<>> => package.active >= PackageMax

(* A row that says its capture is on its way belongs to a job that will finish
   it or to a recovery yet to come, unless a statement about this very row
   failed.  (initialize_snapshot_job_service, the catch and finally blocks) *)
UnfinishedHasWorker ==
  \A j \in Job : status[j] \in Unfinished =>
    booting \/ j \in stranded \/ pc[j] \in (Running \ {"stuck"}) \cup {"inserted", "queued"}

(* A row that offers an archive for download has one, unless a deletion has
   removed the file and is about to remove the row, or has not come to it: the
   server stopped between the two, or the statement about the row failed.  No
   capture, restart or other deletion leaves such a row.
   (purge_audit_snapshot_by_id, remove_files_for_ids) *)
ReadyHasArchive ==
  \A j \in Job : status[j] = "ready" => file[j] # "none" \/ Doomed(j) \/ j \in bared

(* Every requested capture comes to an end, and whoever asked is answered.  *)
CapturesEnd == \A j \in Job : pc[j] = "inserted" ~> pc[j] \in {"done", "gone"} /\ answer[j] # "waiting"
=============================================================================
