# Leffe: models and proofs of the audit store and its synchronisation

Leffe is a multi-user tool for accessibility audits: a browser client without
framework (`src/js`), an Express server over PostgreSQL (`src/server`) and code both
use (`src/shared`). Several people, and several tabs of one person, edit the same
audit and the same rule file. Each tab holds the whole of it in memory and saves pieces
after a short debounce; the server protects some of its writes by optimistic locking on
the column `version`, and fields by locks that run out.

What can go wrong in such a program is seldom a function that computes the wrong
value. It is an edit that is dropped because three asynchronous steps met in an order
nobody thought of. That is what this project is about: its modules model the server's
rows, the client's sync engines, the field locks, the server's snapshot jobs and the life
of an assessment step by step, TLC explores every interleaving of small instances, and
TLAPS proves their safety properties for every number of clients, tabs, rows, captures and
versions of a rule file.

- [The system](#the-system)
- [The modules](#the-modules)
- [What the runs show](#what-the-runs-show)
- [What is proved](#what-is-proved)
- [Where code and comments disagree](#where-code-and-comments-disagree)
- [Abstractions and what is not modelled](#abstractions-and-what-is-not-modelled)
- [Plan](#plan)

## The system

### Inventory

| Component | State | Operations | Hard behaviour | What makes it correct |
|---|---|---|---|---|
| **Audit server** `server/routes/audits.js` (and table `audits`) | the row: `version`, `status`, `metadata`, `samples`, `rule_file_content` | GET, PATCH whole / metadata, PATCH content-part, PATCH one result, import (new, replace, restore), DELETE | handlers of different requests interleave at every `await query`; some check the version in the UPDATE, one only in its SELECT | a save changes what its client edited and nothing else; the version stands for the content |
| **Client sync engine** `js/sync/audit_sync_*.ts`, `js/logic/audit_sync_tracking.ts` | the plan (`force_full_sync`, `metadata_only_pending`, `pending_requirement_keys`), debounce timer, promise chain, the two stamps in the metadata | note, schedule, flush, prepare against the server's version, PATCH, fall back, handle 409 | state is read before and used after awaits; edits arrive meanwhile; answers are lost | whatever was typed is saved, or the engine knows that it is not |
| **Pending flag, retry, navigation flush** `connectivity_service.js`, `requirement_audit_nav_sync.ts`, `view_render.js` | `pending_audit_sync` | mark, clear, retry every 30 s and when online, prune and flush at navigation | a retry races a new edit; pruning decides by stamps | no planned work without something that will do it |
| **Store** `js/state/*` | `internal_state` | reducers; `dispatch` notes and schedules | replacement by the server's copy between two steps of a run | the stamps tell the truth |
| **Remote reload** `audit_remote_reload.ts`, `audit_view_poll_service.js`, `app_bootstrap.js` | – | poll every 3 s, BroadcastChannel, tab becomes visible | compares a version read two awaits earlier | a reload does not go backwards, nor over newer work |
| **Field locks** `audit_lock_service.js`, `rulefile_lock_service.js`, `audits.js:384-515`, `rules.js:76-212` | lock rows with `lease_until`; the tab's active locks, heartbeat timer and list of the others' locks | acquire at focus, heartbeat every 15 s, release at blur, expire | leases run out under a sleeping tab; tabs of one user take over from one another; release and acquisition overlap | the table is a lease; who lost one finds out; an abandoned one is freed |
| **Rule file sync** `rulefile_sync_service.js`, `rulefile_view_poll_service.js`, the requirement's editor | the content in the state, the editor's own copy, debounce timer, pending mark | unversioned PUT of everything, versioned PATCH of an information block, poll, retry | requests overlap; an answer replaces the state; the editor writes back what it read earlier | nothing typed is left without a carrier; tabs converge |
| **Rule sets** `server/routes/rules.js` | `rule_sets`: content, published content, version, base of a working copy | PUT, PATCH, publish, copy, publish a working copy, create, delete | handlers of four statements without a transaction | nothing foreign is published; the version stands for the content read |
| **Assessments and rule file update** `RequirementAuditComponent.ts`, `audit_logic_status.ts`, `auditReducer.ts`, `rulefile_updater_logic.ts` | `requirementResults`, the archive, the report of the update view, a confirmation's timer | judge, confirm, pass in bulk, analyse, carry over, archive | ids are used again and keys change; a report is applied later than made | statuses follow the marks; a requirement that changed in what is compared is judged again; no work is lost |
| **Snapshot jobs** `audit_snapshot_job_service.ts`, `snapshot_fair_queue_pick.ts`, `semaphore.ts` | in-memory queue, active sets, semaphores; rows with a status | enqueue, pump, capture, package, cancel, delete, recover after restart | semaphores under interleaving, failure before `try`, cancel against finish | at most *n* captures, every job ends, statuses end properly |
| Session boot merge, keepalive PATCH `session_boot_merge.js`, `audit_sync_unload.ts` | session backup | choose the stored or the server's copy; send while the page goes | restart in the middle of a save; duplicated PATCH | nothing stored is lost silently |
| Pure logic `ScoreCalculator.ts`, `audit_logic_progress.ts`, stuck-text merge | – | functions | boundary cases | agreement with a definition |

The parts in bold are modelled. Not listed: user interface, router, exports and PDF, media
files, page capture, authentication, backups, translations, scripts. They keep no state that
other parts race for, or they drive files, browsers and libraries.

Three things in the repository look alive and are not. `server/routes/audits_routes.ts`
and the files it imports (`audit_patch_routes.ts`, `audit_incoming_stale_guard.ts`, …)
are mounted nowhere: `server/index.js:15,96` mounts `audits.js`, so everything here is
modelled from that file. `js/logic/audit_remote_push_apply.ts` is imported by
nothing; the live router's broadcasts carry no audit id, so tabs learn of each other
by polling. And nothing enqueues a patch in `rulefile_patch_queue.js`: the queue that is
drained at every sync of a rule file is empty.

### How the parts interact

An edit is a `dispatch`: the reducer changes the state and stamps
`last_local_change_at`, then the store notes what changed in the *plan* and starts the
debounce timer. The timer, a navigation, a status change or the retry interval chain a
*run* of the engine; runs of one tab never overlap. A run takes the state, asks for the
server's version, perhaps loads the server's copy and decides whose is newer by the two
stamps, empties the plan to decide what to send, sends it, and on success stamps
`last_server_sync_at`. A failed small PATCH is followed by a full one; a refused full
PATCH (409) by a load and either a replacement or one more full PATCH; everything else
ends with the audit marked pending. Independently, the poll and the visibility handler
load the server's copy and replace the state and the plan. On the server each request
runs to its next `await query`.

A rule file being edited goes another way: its requests are not chained, carry no version
but for information blocks, and every answer replaces the tab's content. Text fields of
both are locked while they have the focus; a lock warns other users, and the server's
saving routes do not look at it. A published rule file reaches an audit only when its
user analyses and confirms the update; the audit keeps a copy, so rule sets can be deleted
under it. Assessments travel as the results the sync engine sends; which of them are
right is what `AuditResults` is about, whether they arrive what `AuditSync` is about.

## The modules

| Module | What it is |
|---|---|
| `AuditServer` | one row of `audits` and every handler that reads or writes it, one step per SQL statement |
| `VersionedRow` | abstract: a save is refused, or applied in one step to the row as it is |
| `AuditServerRefinement` | `INSTANCE VersionedRow WITH …`: the mapping from `AuditServer` |
| `AuditServerProofs` | theorems about `AuditServer` and the refinement |
| `AuditSync` | tabs, their plan, timer, queue, run and reload, and the server's row as they see it |
| `AuditSyncProofs` | theorems about `AuditSync` |
| `EditLocks` | the lock of one field: its row, and the tabs that take, prolong and release it |
| `Lease` | abstract: at most one holder, passing between users only by being free |
| `EditLocksProofs` | theorems about `EditLocks`, its implementation of `Lease` among them |
| `RulefileSync` | tabs on one working copy of a rule file: state, editor, requests in flight, poll, and the row |
| `RulefileSyncProofs` | theorems about `RulefileSync` |
| `RuleSets` | the rows of `rule_sets` and every handler that writes one, one step per SQL statement |
| `RuleSetsProofs` | theorems about `RuleSets` |
| `AuditResults` | assessments of one sample, their confirmation, and the update of the audit's rule file |
| `AuditResultsProofs` | theorems about `AuditResults` |
| `SnapshotJobs` | the queue, the semaphores, the captures and the deletions of page snapshots, with restarts |
| `SnapshotJobsProofs` | theorems about `SnapshotJobs` |
| `AuditSyncExpectations`, `EditLocksExpectations`, `RulefileExpectations`, `RuleSetExpectations`, `AuditResultExpectations`, `SnapshotExpectations` | what comments, documents, names or users say of a module and the code does not do |
| `MCAuditServer`, `MCAuditSync`, `MCEditLocks`, `MCRulefileSync`, `MCRuleSets`, `MCAuditResults`, `MCSnapshotJobs` | small instances for TLC |

Operators marked as a *seeded fault* stand beside the ones they deform; no action uses
them. Each is a plausible bug that the property named with it in `PROJECT.json` finds.

### AuditServer

`ver`, `content` and `live` are the row; `content` maps *fields* to values, where a
field is either a part of the `samples` column (`Part`) or another column (`Column`).
The split matters because a PATCH of one result or one content part rewrites the whole
samples column from what it has SELECTed, while a metadata PATCH leaves it alone.
`view[c]` is the last row the server answered client `c`; bodies are built from it.
`req[c]` is the request in a handler and where it stands:

| Handler | Steps |
|---|---|
| `PATCH /:id` | `SendPatch`; `UpdateIfVersion` (`UPDATE … WHERE id AND version`); when refused `Check` (the SELECT that decides between 404 and 409) |
| `PATCH /:id/content-part` | `SendOnePart(c, "part")`; `Select`; `UpdateIfVersion`; `Check` |
| `PATCH /:id/results/…` | `SendOnePart(c, "result")`; `Select` (which checks the version); `WriteResult` (which does not) |
| `POST /import`, replace | `SendImport`; `FindConflict`; `WriteReplace` |
| `POST /import`, restore | `SendImport`; `FindConflict`; `WriteRestore` (a new life of the row, at version 1) |
| `GET /:id`, `DELETE /:id` | `Load`; `Delete` |

`life` is a history variable: the number of times the row was inserted. It is what
tells version 1 of a restored audit from version 1 of the deleted one, which the program
cannot tell.

`CasSpec` has the handlers whose write is conditional on the version (and import-replace
and deletion, which make them fail); `Spec` adds the result handler and restoration.

### AuditSync

An action is the code between two awaits. Variables per tab: `local` (the audit in
memory, with its two stamps), `plan`, `timer`, `queue` (runs chained on
`audit_sync_tail`), `run` (the run in flight with the state it took), `fetch` (a reload in
flight), `marked` (`pending_audit_sync`). `row` is the server's row. `now` is a logical
clock; the value of a field is the time of its last edit, so that "newer" and "different"
are one thing and stamps can be compared with edits as the code does.

| Code | Actions |
|---|---|
| reducers + `dispatch` | `EditRequirement`, `EditMetadata`, `SetStatus` |
| timer, flushes, retry | `TimerFires`, `LeaveRequirement` (prune, then flush without probe), `LeaveView`, `Retry` |
| `execute_audit_server_sync`, `prepare_audit_sync_state` | `Start`, `StartOffline`, `VersionAnswer`, `LoadAnswer`, `PrepareLost` |
| `resolve_audit_sync_strategy` | `Resolve`, inside the step that ends the preparation |
| PATCHes and their answers | `Select`, `WriteResult`, `Accept`, `Refuse`, `Success`, `PatchLost` |
| `handle_version_conflict_409` | `Conflict` |
| `reload_open_audit_if_server_ahead`, visibility | `FetchStart`, `FetchVersion`, `FetchLoad`, `FetchApply` |

`StartOffline`, `PrepareLost` and `PatchLost` are the faults, at most `MaxFaults` of them:
a run while offline, a lost request, and a lost answer to a request that was carried out
(or a 500).

`risk` is a history variable. Exploring the model showed five ways in which the engine
forgets an edit; each is a circumstance one can name at the step where it arises, and
`risk[t]` collects those an edit of tab `t` has met:

| Risk | The edit … | Run or configuration that shows the loss |
|---|---|---|
| `window` | was made while a run was in flight, whose success stamps it as saved | run `WindowLoss` |
| `mixed` | of a requirement and one of metadata shared a plan | `WindowLoss.cfg` with `MetaEdits = TRUE` |
| `lost` | followed a full PATCH that failed, after which only the stamps remember the earlier ones | `DroppedLoss.cfg` with `MaxFaults = 1` |
| `dropped` | was pruned from a plan that held others when its requirement was left | `DroppedLoss.cfg` |
| `unstamped` | was made in a locked audit, which keeps its old stamp, and pruned or failed | `WindowLoss.cfg` with `Change <- Lock` |

The point of naming them is the converse, `SavedUnlessAtRisk`: outside these five nothing
is lost, whatever requests, answers and connections are. Each of the five is necessary:
allowing any one of them alone (`SavedDespite({...})`) is refuted.

### EditLocks

One field, and the tabs that edit it. `row` is its row in `audit_edit_locks` or
`rule_edit_locks` (the two routes are the same statement for statement): whose it is, and
whether `lease_until` has passed. `holder` is the tab with a lease that has not run out, and
the abstract state of `Lease`. Per tab: `focus`, `active` (`active_locks_by_part`),
`beating` (`heartbeat_timer`), `known` (the list it has of the others' locks), `acquired`
(`gvLockAcquired`, fields of rule files only), and where its requests stand. `ChecksFocus`
tells the two clients apart: the handler of a rule file's field looks at the focus again
when the lock has come, that of an audit's does not.

| Code | Actions |
|---|---|
| `POST`, `DELETE`, `POST heartbeat`, `GET` of the lock routes | `TakeLease`, `DropLease`, `Heartbeat`, `ListLocks` (part of the actions that load the list) |
| `lease_until` passes | `Expire`, at any time: a lease outlives neither a sleeping machine nor a throttled timer |
| focus and blur handlers | `Focus`, `Blur`, `CheckFocus` |
| `try_acquire_…_part_lock` | `Granted`, `StartHeartbeat`; `Refused` for the catch block |
| `release_…_part_lock` | `Left`, `StopHeartbeatIfIdle` |
| `start_heartbeat`, `refresh_remote_locks` | `Heartbeat`, `HeartbeatRefused`; `LocksChanged`, `Refreshed` |
| lost requests, a reload of the page | `AcquireLost`, `ReleaseLost`, `Reload` |

### RulefileSync

A requirement's content is one value, the time of the edit it comes from. `row` is the row
of `rule_sets`, `local[t]` the content and version in the state of tab `t`, `form[t]` the
editor with its own copy of a requirement, `timer`, `marked` and `calls` the debounce timer,
the pending mark and the requests in flight, `fetch` the poll. Requests of one tab are not
chained (`rulefile_sync_service.js` has no tail), so up to `MaxCalls[t]` of them overlap.

| Code | Actions |
|---|---|
| the editor: `focusout`, another requirement, the save button | `Leave`, `Go`, `Submit` |
| the timer, `attempt_pending_sync_flush` | `TimerFires`, `Retry` |
| `PUT /:id`, `PATCH /:id/content-part` | `ServePut`, `ServePatch` |
| their answers, or none | `PutAnswered`, `PatchAnswered`, `Lost` |
| `poll_once` | `PollStart`, `PollLoad`, `PollApply` |

`Replace` is `REPLACE_RULEFILE_FROM_REMOTE` with what follows it: the editor is rendered anew
from the state or, when one of its fields has the focus, is not. `saved` is history: the edits
that have ever been in the row.

### RuleSets

`rows` is the table, `req[q]` what a handler has in its variables between two statements, and
`At` the statement it is about to run. The handlers of several statements are `publish`
(`PublishSelect`, `PublishUpdate`), `copy` (`CopySelect`, `CopyCheck`, `CopyInsert`),
`publish_production` (`PromoteSelect`, `PromoteUpdate`, `Remove`) and `DELETE`
(`DeleteSelect`, `DeleteClear`, `Remove`); `PUT`, `PATCH` and `POST /production` have one that
matters. A request asks for what was possible when it was sent (`Press`, `Save`), which
need no longer be so at any of its statements. `drafts` is history: for each id the contents its row,
and the rows that were its working copies at the time, have had. `Fresh` is
`uuid_generate_v4`: an id is never given twice, and `PublishedComesFromDraft` depends on it.

### AuditResults

`File` is the sequence of published versions of a rule file; a requirement has a key, a name
(title and reference, by which it is found when its key is gone), `info` (the texts in
`infoBlocks`, and the classifications), a text (all else it says) and checks with pass
criteria. `Compared` is the part that `has_requirement_content_changed` looks at: title, text
and checks; the reference and `info` are not in its list of fields, although the rule file's
editor moves the texts of a requirement into `infoBlocks`
(`EditRulefileRequirementComponent.ts:1758-1781`). `at` is the version the audit has, `res` its `requirementResults`, `archive` the
results of requirements that are gone, `report` the staged analysis of the update view,
`click` a confirmation waiting for its 250 ms. `on`, in a result, is history: the requirement
as it read when somebody judged or confirmed it.

| Code | Actions and operators |
|---|---|
| `calculate_check_status`, `calculate_requirement_status`, `recalculateStatusesOnLoad` | `CheckStatus`, `ReqStatus`, `Settled`, `Recalculated` |
| the requirement view: presses, confirmation | `Press`, `PressCriterion`, `Click`, `Fire` |
| lists: confirmation, "no remarks" for the rest | `Confirm`, `BulkPass` with `Filled`, `Inapplicable` |
| `analyze_rule_file_changes`, the update view | `Match`, `Compared`, `Report`, `Analyze`, `Abandon`, `Update` |
| `apply_rule_file_update` | `Home`, `Paired`, `Moved`, `Remapped`, `Carried`, `Apply` |
| another tab's update, seen at a reload | `Elsewhere` |

### SnapshotJobs

`pc[j]` is where the capture `j` stands between its POST and its end; `status[j]` is its row
of `audit_snapshots` (`"none"` without a row), `file[j]` its archive and `temp[j]` its
directory. The rest of the state is the module state of `audit_snapshot_job_service.ts`
under its own names, the semaphores `browser`, `package` and `host[h]`, and the deletion
handlers `del` and `sweep`.

| Code | Actions |
|---|---|
| `start_snapshot_capture`, `enqueue_snapshot_capture` | `InsertRow`, `Enqueue` |
| `pump_queue`, `pick_fair_queue_job` | `PumpTakes` (one turn of the loop), `PumpStops` |
| `Semaphore`, `acquire_snapshot_host_slot` | `HostWakes`, `HostGranted`, `EndCooldown`, `BrowserWakes`, `PackageWakes` |
| `process_capture_job` | `Start`, `VisibleComplete`, `RequestPackaging`, `SetPackaging`, `Archive`, `SupersedePrevious`, `MakeReady`; `CaptureFails`, `RecordFailure` for the catch block; `Finish` is the finally block |
| a failing statement of a capture or of the start | `StartFails`, `PackagingFails`, `ReadyFails`, `RecordFails`, `RecoverFails` |
| a failing statement of a deletion, answered 500 | `DeleteRowFails`, `CancelJobFails`, `CancelRowFails`, `SweepRowsFails` |
| `DELETE …/:snapshotId` | `AskDelete`, `DeleteFiles`, `DeleteRow`; when there was no row `CancelJob`, `CancelFiles`, `CancelRow` |
| `DELETE …/by-sample/:sampleId` | `AskSweep`, `SweepFiles`, `SweepTemps`, `SweepRows` |
| process start | `Restart`, `Recover` |

*Order of microtasks.* `release()` lowers the count at once and the waiter it wakes raises it
in a microtask. With microtasks in any order the browser limit would be broken; Node runs
them in the order in which they were queued. So `micro` is a sequence, `Idle` says that
neither the pump nor a microtask is left to run, and every callback (a statement, a timer, the
browser has answered) needs `Idle`. Awaits that only pass a value on are not steps: the
woken waiter always has fewer of them before it counts than the others before they ask.

*Deleting directories.* `cleanup_stale_temp_files_best_effort` removes the directories of
every capture of the audit. A capture that is still writing makes a new one (`torn`), one
about to package finds none (`gone`) and fails, and one that is being read, or has not
written much, may be lucky (`RemoveTemps`).

*Failing statements.* Both deletions remove the files first and the rows in a statement after
that (`audit_snapshot_cleanup_service.ts:51-52`, `63-64`). When the statement fails the route
answers 500, nobody repeats it, and a `ready` row stays whose archive is gone: `DeleteRowFails`
and `SweepRowsFails`. Where a failing statement is not an action of its own it changes nothing
(the first SELECT of a deletion, the INSERT of a capture), or it throws inside the `try` of a
capture like everything else there (`CaptureFails`).

`stranded` and `bared` are history: rows that a failed statement left unfinished, and rows
whose archive was removed and which were not, because the server stopped before the statement
or the statement failed. The invariants name these exceptions: `ReadyHasArchive` says that
nothing *else* takes the archive of a ready row, not a capture, a restart or a deletion of
another snapshot. That a ready row can lack it for good is what `LostArchive.cfg` shows.

## What the runs show

All bounds are CONSTANTS and appear in guards only: `MaxVersion` stops new work at a
version, `MaxEdits`, `MaxFaults` and `MaxQueue` stop edits, faults and chained runs,
`MaxDeletes` and `MaxRestarts` DELETE requests and restarts, `Bound` the focus, faults and
pushes of `EditLocks`, `MaxCalls` and `MaxTurns` the overlapping requests and the turns of the
users of `RulefileSync`, `MaxActs` what is done to assessments. The runs other than those of
`AuditServer` are without deadlock check because their systems rest when the bounds are used
up and everything is saved, freed or ended.

| Run | Instance | Shows |
|---|---|---|
| `AuditServer` | 2 clients, 2 parts, 1 column, 2 values, requests up to version 2, 1 deletion and restoration, 1 edited field per request | `TypeOK`, `VersionIdentifiesContent`, `RequestsKnowTheirBase`, `VersionCountsWrites`, `NoLostUpdate`, `ConflictIsReal` |
| `AuditServerRefinement` | the same, `CasSpec` | `ImplementsVersionedRow` |
| `OneTab` | 1 tab, 2 requirements, metadata, lock and unlock, 3 edits, 1 fault, with fairness | `TypeOK`, `NeverAhead`, `WorkHasACarrier`, `SavedUnlessAtRisk`, `EventuallySaved` |
| `TwoTabs` | 2 tabs, 1 requirement, 2 edits; one of the tabs polls and becomes visible; 3 versions | `NeverAhead`, `WorkHasACarrier` |
| `EditLocks` | 2 tabs of one or of two users, fields that look at the focus, the focus comes twice, 1 fault, 1 push, with fairness | `TypeOK`, `ActiveIsProlonged`, `NobodyElseEndsALease`, `ImplementsLease`, `LossIsNoticed`, `LocksAreFreed` |
| `RulefileSync` | 2 tabs, 2 requirements, one of them an information block; one tab with 2 overlapping requests, the other with 1; 1 edit and 1 turn, with fairness | `TypeOK`, `SameVersionSameContent`, `WorkHasACarrier`, `TabsConverge` |
| `RuleSets` | 3 ids, 2 requests at a time, 2 contents written | `TypeOK`, `PublishedComesFromDraft`, `ReadIsOfItsVersion`, `PatchLosesNothing` |
| `AuditResults` | 1 sample, 3 versions of a rule file, 5 acts | `TypeOK`, `StatusFollowsMarks`, `JudgedAsItReads`, `ResultsHaveRequirements`, `WorkSurvivesUpdate` |
| `Snapshots` | 2 captures of a sample on 2 hosts, 2 browsers, 1 deletion, 1 failing statement, 1 restart | `TypeOK`, `SlotsInUse`, `UnfinishedHasWorker`, `ReadyHasArchive` |
| `SnapshotCrowd` | 4 captures, 3 on one host, 2 audits, 1 browser, with fairness | `BrowserBound`, `SlotsInUse`, `CapturesEnd` |
| `ResultRace`, `WindowLoss` | the smallest instance that has the case | one refuted expectation each, see below |

Why these bounds are enough. On the *server* a lost update needs one row, a client whose
base has been overtaken and the client that overtook it; two parts and a column are
needed to tell "its own field", "another part of the column it rewrites" and "another
column" apart; two values tell changed from unchanged; and the deletion and the
restoration make a second life whose versions overlap those of the first. More clients
add nothing the proofs do not already cover. In the *client* two requirements are the least
that distinguish a result PATCH from a plan with several keys, one fault loses a request or
an answer at any point, and three edits are the least that put one edit before, one into and
one after a run. The version bound of `OneTab` is above what the edits and retries can reach
there; that of `TwoTabs` lets each tab save once and one of them once more.

A *lock* needs two tabs to be contested, of one user (who may take over) and of two (who may
not). With the focus coming twice a release overlaps the next acquisition of the same field,
which is where entries and timers are lost. For the *rule file* a tab with two requests in
flight sees its answers out of order, and the second tab makes their contents differ;
information blocks are the only fields with a version. One edit, together with a field left
unchanged or a lost request, already brings every kind of stale content back. Of *rule sets*
three ids are a rule, its working copy and another of either; two requests overlap at every
statement, and three are needed only for one configuration below. The three versions of
`AuditResults` (`Versions` in `MCAuditResults`) hold what the updater has cases for: a check
that gets another check's id, a requirement that gets a new key, one that changes its text,
`infoBlocks` that change alone, criteria that change places, a new criterion, a requirement
that goes and one that comes.
Five acts are enough to judge, update, judge again, and update while a report is staged.

For the *snapshots* two captures of one sample are the least that can supersede one another
and that meet at the package slot; with one browser four captures are the least that have
one running, one woken, one waiting and one in the queue at the same moment, which is where
a slot could be given away twice. Restart, deletion and a failing statement are each possible at
every step, the steps of a deletion included; two of a kind only repeat what one does, as no handler remembers an earlier one.

The configurations `LockStands` and `SilentUnlock` check the same property of a status,
`StatusNeverFallsBack`. Without result PATCHes a lock set in one tab is never taken back by the
other (`LockStands` passes), although the 409 handler and the preparation both send whole
states; with them it is, so among tabs that do not reload the result handler's race is the
only way. When a tab also reloads, there is a second one: the copy it fetched before the
lock may replace a state that had it.

### Fairness

`FairSpec` of `AuditSync` asks for weak fairness of each step of the machinery: an armed timer
fires (`setTimeout`), a chained run starts (a promise's continuation), a request that is not
lost is answered (every handler answers on all paths; `client.js` has no infinite wait of its
own in these calls), and the retry comes round (`setInterval` of 30 s in
`connectivity_service.js:203-208` and the `online` event). No fairness is assumed of
users, of faults, or of reloads. `Select`, `Accept` and `Refuse` share one fairness
condition because they are the three answers to one request.

`FairSpec` of `EditLocks` has one condition for each operation of a tab (acquisition, release,
heartbeat, refresh), whose steps follow one another, and `ExpireUnattended`: a lease whose
tab does not prolong it runs out, for time passes. A lease that is being prolonged
need not. `FairSpec` of `RulefileSync` asks only that not everything stands still while
something other than the users can go on: a timer, a retry, a request, an answer or a poll
(`setInterval` of `rulefile_view_poll_service.js`). Each of these comes to an end, so all get
their turn.

`FairSpec` of `SnapshotJobs` says that the event loop runs what is queued and that each
capture goes on: its navigations, the extended phase and the analysis have timeouts
(`CAPTURE_NAVIGATION_TIMEOUT_MS`, `GV_SNAPSHOT_EXTENDED_CDP_MAX_MS`,
`GV_SNAPSHOT_ANALYSIS_MAX_MS`) and end, if by failing. `SnapshotCrowd` has no failing
statement: after `StartFails` a capture does not end until the server is restarted.

## What is proved

`AuditServerProofs`, for every set of clients, parts, columns and values, without bounds on
versions, lives or edits beyond their being natural numbers:

| Theorem | States |
|---|---|
| `TypeCorrect` | `Spec => []TypeOK` |
| `VersionIsContent` | `Spec => []VersionIdentifiesContent` |
| `RequestsKnow` | `Spec => []RequestsKnowTheirBase` |
| `VersionCounts` | `Spec => VersionCountsWrites` |
| `CasLosesNothing` | `Spec => NoLostUpdate` |
| `ConflictsAreReal` | `Spec => ConflictIsReal` |
| `CasImplementsVersionedRow` | `CasSpec => ImplementsVersionedRow` |

Assumptions: the parts and columns are disjoint and not empty, there is a value
(`FieldAssumption`, `ValueAssumption`), the bounds are naturals, and `Keep`, which stands
for "leave this field alone" in the abstract edit, is no value.

The argument. A conditional save is safe because a request whose base version *is* the
row's version carries the row's own values in every field it did not edit. That is not
inductive: when a request is built from the client's view one needs that the view of the
row's version is the row (`VersionIdentifiesContent`), and that in turn needs that every
write raises the version and that nobody holds a version of the future. Requests also
survive the deletion of the row, so both facts are stated per life of the row. The
inductive invariant `Inv` is the conjunction `TypeOK /\ VersionIdentifiesContent /\
RequestsKnowTheirBase`; three lemmas say that a request entering, an answer without a row
and a write keep it, and the step lemma goes through the actions with them. The action
properties follow from `Inv` at the step; the refinement maps the row to itself and a
request to the edit it stands for, and needs one more invariant (`CasInv`: under `CasSpec`
there is one life, and only the operations of `CasSpec`).

Notable is what the theorems say *with* the result handler in `Spec`: although it writes
without comparing, it raises the version, so it can only ever be the offender. Conditional
saves of other clients remain safe beside it (`CasLosesNothing`).

`EditLocksProofs`, for every set of tabs and users, either kind of field and every bound:

| Theorem | States |
|---|---|
| `TypeCorrect` | `Spec => []TypeOK` |
| `Prolonged` | `Spec => []ActiveIsProlonged` |
| `LeaseEnds` | `Spec => NobodyElseEndsALease` |
| `LocksImplementLease` | `Spec => ImplementsLease` |

Assumptions: the values that stand for no tab and for no list are no tabs
(`NoTabAssumption`), `ChecksFocus` is a Boolean and the bounds are naturals. `TypeOK` is
inductive because a valid row has an owner, which is part of it; `ActiveIsProlonged` is
inductive beside it: the entry appears in a step that leaves `acq` at "taken", the timer is
started by the step that leaves it, and is stopped only where there is no entry. The two
others are facts about what one step does to `holder`; the lemma `HolderStep` says it once
for all actions, and the refinement follows with a step of the tab that took the lease
or one that lost it.

`RuleSetsProofs`, for every set of ids and requests and any number of edits:

| Theorem | States |
|---|---|
| `TypeCorrect` | `Spec => []TypeOK` |
| `PublishedDrafts` | `Spec => []PublishedComesFromDraft` |
| `ReadsHold` | `Spec => []ReadIsOfItsVersion` |
| `PatchSafe` | `Spec => PatchLosesNothing` |

Assumptions: what stands for no rule, no row and no content is none
(`NoRuleAssumption`, `NoRowAssumption`, `NoContentAssumption`), and `MaxEdits` is a natural.
The inductive invariant `IInv` has three parts beside `TypeOK`. `RowsInv` is about the table:
what is published under a row is in its `drafts`, and so are its content and that of its
working copies. `Carries` is about a handler that will write: the
content it carries is a draft of the row it will write to, even when the working copy it was
read from has been saved, published or deleted since; this is where ids that are never given twice
matter. `Knows` is `ReadIsOfItsVersion` together with "no handler has a version its row has not
reached", without which a write could make an old reading look new. `Onward` says what every
step does to rows that have been there (drafts stay, no row comes back, content changes with
the version only), `KnowsStays` and `CarriesStays` that a handler's part survives such a
step, and each statement is one lemma over them.

`RulefileSyncProofs`, for every set of tabs and requirements, any number of overlapping
requests, edits and lost requests:

| Theorem | States |
|---|---|
| `TypeCorrect` | `Spec => []TypeOK` |
| `SameVersion` | `Spec => []SameVersionSameContent` |
| `Carrier` | `Spec => []WorkHasACarrier` |

The only assumption used is that what stands for no requirement is none
(`NoReqAssumption`). Both invariants are about one tab and the row, but what a tab will show
next is in the answers and in the hands of its poll. The inductive invariant `IInv` says two
things of those: everything they bring has been in the row (`Sound`), and none is ahead of
the row or at its version with another content (`Newest`). The latter is not obvious of the
poll, which joins the version of one request with the content of a later one: the pair is
either of one version, or older than the row. A step then either lets a tab stay as it is
(`TabStays`: the carrier stays, becomes a mark, or the row has taken over what it carried),
lets it send what it shows (`TabSends`), or lets it take over something known (`TabTakes`);
every action is one of the four lemmas built from these (`OwnStep`, `ServeStep`, `TakeStep`,
`IdleStep`).

`AuditSyncProofs`, for every set of tabs and requirements, whichever of them reload, any
number of edits, faults and chained runs:

| Theorem | States |
|---|---|
| `TypeCorrect` | `Spec => []TypeOK` |
| `NeverAheadOfServer` | `Spec => []NeverAhead` |
| `PlannedWorkIsCarried` | `Spec => []WorkHasACarrier` |
| `AllIsSaved` | `Alone => (Spec => []SavedUnlessAtRisk)` |

Assumptions: the changes of a status are among the known ones and the bounds are naturals
(`ChangeAssumption`, `BoundsAssumption`). The inductive invariant `IInv` adds to `TypeOK` what
each tab holds (`Behind`, `Carried`). `NeverAhead` speaks of the state of a tab only, but a tab
also gets versions out of its run and its reload: the copy a preparation has loaded, the
version it was answered, the copy a 409 has brought. `Behind` says of all of them that the row has reached
them. `WorkHasACarrier` is not inductive because a run that will come to a plan counts as its
carrier: a run may yet fail, fall back, find the tab offline or be overtaken by a reload, and the
step that ends it must leave a timer, a chained run or the mark for everything noted since
the run took its plan. `Carried` says so for each kind of run, and the lemmas about `Resolve`
and the endings of a run go through the early returns of the engine one by one.

`AllIsSaved` is about one tab (`Alone`: no other tab, and no reload beside the queue); of several
the property is false, for a quiet tab shows what it last loaded. Its hypothesis asks nothing of the
number of requirements, edits or faults, of the changes of status or of the length of the
queue. The invariant `SafeInv` says of a tab whose edits have met none of the five risks (`Sound`):

- between two runs either the row has what the tab shows, or the plan covers what the row
  lacks and something will start a run, or the plan is empty and the stamps say that something
  is unsynced; the last is as good as a full plan, for an empty plan is sent as a full PATCH;
- a plan never holds requirements and metadata at once;
- a run carries what the tab shows, and a run that only probes has nothing to carry;
- a PATCH of a requirement, or of the metadata, is on its way only when the row lacks nothing else,
  and the samples its handler has selected are those of the row;
- when the answer is under way the row has everything.

Each risk is needed for one of these: `window` for a run to carry what the tab shows, `mixed`
for the second, `lost`, `dropped` and `unstamped` for the plan, or the stamps, to tell what is missing.
TLC has checked `SafeInv` with every change of status allowed before it was proved.

`SnapshotJobsProofs`, for every set of captures (also an infinite one, of which finitely many
are at work at a time), every assignment to samples, audits and hosts, every limit and bound:

| Theorem | States |
|---|---|
| `SlotsHold` | `Spec => []SlotInv`, the first inductive invariant |
| `TypeCorrect` | `Spec => []TypeOK` |
| `BrowsersAreBounded` | `Spec => []BrowserBound` |
| `NoWakeupIsLost` | `Spec => []SlotsInUse` |
| `RowsAreAccountedFor` | `Spec => []RowInv`, the second |
| `UnfinishedRowsAreWorkedOn` | `Spec => []UnfinishedHasWorker` |
| `ReadyRowsHaveArchives` | `Spec => []ReadyHasArchive` |

Assumptions: the captures have samples, audits and hosts (`JobAssumption`), the limits are
positive and the bounds naturals (`LimitAssumption`).

The argument. `BrowserBound` and `SlotsInUse` compare numbers (a semaphore's count, the length
of its line) with sets (the jobs that hold a slot, those that wait), so `SlotInv` first says that the two
agree: who waits stands in the line it waits in, and once (`InLine`); each count is the number of
jobs that hold (`InUse`). What remains is the moment between `release()`, which lowers the count, and
the microtask in which the woken waiter raises it. `Promised` says of a free slot with somebody in line
that a woken job has it, and of the job woken for a browser that it has the *next* microtask.
That is the reason why nobody takes its slot first; for the hosts it is not so, and there the
code's bound does fail (`HostBound`). At the end of a turn of the event loop no microtask is
left, so nothing is promised and nobody waits for a slot that is free. `RowInv` adds what rows,
archives and directories have to do with each other (`RowsHold`): a capture being packaged has
its directory, a row that may be ready has its archive, or is named by a deletion that will
remove it, or was given up by one (`bared`: a stop, or a statement that failed). It rests on `SlotInv` where a waiting capture has to be somewhere that will
continue it.

`AuditResultsProofs`, for every history of a rule file and any number of acts:

| Theorem | States |
|---|---|
| `ResultsStand` | `Spec => []Inv`, the inductive invariant |
| `TypeCorrect` | `Spec => []TypeOK` |
| `StatusesFollow` | `Spec => []StatusFollowsMarks` |
| `NoOrphans` | `Spec => []ResultsHaveRequirements` |
| `AssessedAsItReads` | `Spec => []JudgedAsItReads` |
| `WorkSurvives` | `NothingMerges => (Spec => WorkSurvivesUpdate)` |

Assumptions: a rule file has at least one version, its parts are sequences with different ids
(`FileAssumption`, `FileShape`), `MaxActs` is a natural (`BoundAssumption`). The code stores results
under these ids, so two checks of a requirement with one id would share a result; the
editor makes them with `generate_uuid_v4`.

The argument. The stored status is what the function of the marks says because every operation
ends in the recalculation; the work is in the operators. `SettledFacts` shows that settling a result
changes neither its marks nor what it was judged on, and `CarriedFacts` that what is carried over
to a new version is a result of the requirement found there. `JudgedAsItReads` needs more: an
update marks a requirement for review when what it compares differs *and* somebody has judged it, so one
has to know that a result nobody has judged does not become "judged" by being remapped
(`CarriedUnjudged`). That depends on every check having criteria; with an empty check it is
false, which is the configuration `EmptyCheck`. The definition excepts those, the theorem does
not assume them away. The two other parts of `Inv` are about what is applied later than it was made: `ReportOk`
(a report compares two versions, the first before the second) and `ClickOk` (a confirmation that
waits carries a result judged as its requirement read at the click).

`WorkSurvives` has a hypothesis of its own, for the property does not hold of every rule file: when two old
requirements come to one new one a result is lost (`File <- Takeover` below). `NothingMerges`
says that no two requirements of one version have the same `Home` in a later one. TLC evaluates
it to true for the versions the run has and for `EmptyCheck`, to false for
`Takeover`. The proof is about pairing: the *n*th check (criterion) with a text
goes to the *n*th with the same text, no two to the same (`PairedOnce`, with `Nth` strictly growing), and
what has no partner is archived or gone with its text (`MovedFacts`, `RemappedMarks`,
`RemovedIsGone`).

Only model-checked:

- All liveness, which is out of the prover's reach: `EventuallySaved`, `LossIsNoticed`,
  `LocksAreFreed`, `TabsConverge`, `CapturesEnd`.
- What holds of some constants and not of others, where the case itself is the statement:
  the configurations `LockStands` and `SilentUnlock`, and the refutations below.

## Where code and comments disagree

Two runs each violate one expectation a comment or a document states. The
findings in `PROJECT.json` quote the lines.

| Run | What happens |
|---|---|
| `ResultRace` | the result handler compares the version in its SELECT and writes unconditionally; a save in between is overwritten |
| `WindowLoss` | a success stamps an edit made during the run as saved |

More of the kind are definitions of the expectation modules, each of which ends in a
counterexample: `tlc -config X.cfg` with the module's MC module. Where a configuration is
followed by *with*, its property and the constants named are to be replaced by those.

| Configuration | Refutes | What happens |
|---|---|---|
| `RestoreAba` | `NoLostUpdateAcrossRestore` | a PATCH based on the deleted audit is accepted by the restored one |
| `DroppedLoss` | `SavedDespiteDropped` | samples are looked up by `sampleId`, which they do not have; a requirement that is not found is taken for synced and dropped (`audit_sync_tracking.ts:104`) |
| `DroppedLoss` with `MaxFaults = 1` | `SavedDespiteLost` | after a lost full PATCH a small edit is sent alone and stamps the rest as saved |
| `WindowLoss` with `MetaEdits = TRUE` | `SavedDespiteMixed` | a requirement edit erases the note of a metadata edit (`audit_sync_planning.ts:67`) |
| `WindowLoss` with `Change <- Lock` | `SavedDespiteUnstamped` | observations edited in a locked audit do not count as unsynced |
| `SilentUnlock` | `StatusNeverFallsBack` | after the result race a tab has the version of another tab's lock without the lock, and its next metadata PATCH unlocks |
| `PollDropsEdit` | `ReloadKeepsWork` | a poll replaces a state with newer edits |
| `PollDropsEdit` with | `UnsyncedIsReal` | a polled copy has `last_local_change_at` after `last_server_sync_at`; the tab takes it for its own unsaved work and pushes it, the other tab reloads, and so on |
| `ArchivedEcho` | `UnsyncedIsReal` | archived audits refuse the saved stamp, so the retry pushes every 30 s |
| `StuckMark` | `MarkedIsSent` | an audit marked while offline with nothing to send stays marked |
| `StaleReload` | `ReloadsAreNewer` | a poll replaces a state that has overtaken it |
| `AdoptedVersion` | `SameVersionSameContent` | a tab takes over the server's version, not its content |
| `AdoptedVersion` with | `ConflictReplaces` | a 409 is answered by sending the whole state again |
| `StuckLock` | `LocksAreFreed` | the focus leaves an audit's field before its lock is there: DELETE comes first, then the lock, which nobody looks at and the heartbeat prolongs for ever |
| `TwoEditors` | `OneEditor` | a field becomes read-only only when the list of locks comes, and a tab whose acquisition was refused because of a lock that has run out since edits without one |
| `TwoEditors` with | `EditorProlongs` | a release still under way when the field gets the focus again removes the entry of the new lock |
| `EditOverwritten` | `EditSurvives` | the answer of a PUT brings the whole content and takes away what was put into the state meanwhile |
| `StaleSave` | `SavedStays` | a field left unchanged is sent with the content the editor read before another tab saved |
| `RuleSets` with | `OneWorkingCopy` | two copies of one rule both find no working copy and both insert one, although the answer "Produktionskopia finns redan" is to prevent it (`rules.js:535`) |
| `RuleSets` with | `NothingGoesUnpublished` | a save to a working copy between publishing and deleting it goes with it |
| `RuleSets` with | `DeletionsComplete` | a copy made between the two statements of a deletion makes it fail; other copies are independent by then |
| `RuleSets` with three requests | `PublishedStays` | a working copy that was made independent and published is deleted by a publication that had begun before |
| `AuditResults` with | `ConfirmedIsConfirmed` | the button in the requirement view sends a copy that differs in `needsReview` only, which the comparison ignores: nothing is stored (`docs/rulefile_editing_flow.md:86` says the assessment is confirmed) |
| `AuditResults` with | `ConfirmChangesNoMark` | a press, or a reload, within the 250 ms of a confirmation is undone by it |
| `AuditResults` with | `NoOrphans`, `AlwaysJudgedAsItReads` | a report staged before another tab's update is applied after it: results stay under keys that are gone, changed requirements are not marked |
| `AuditResults` with `File <- Takeover` | `NothingLost`, `WorkSurvivesUpdate` | two old requirements come to one new one, by key and by name; one result is lost and not archived |
| `AuditResults` with `File <- EmptyCheck` | `AlwaysJudgedAsItReads` | a check that loses its last criterion is passed without anybody's judgement |
| `InfoTexts` | `JudgedOnAllTexts` | an update that changes texts in `infoBlocks` only is not seen as a change of the requirement (`has_requirement_content_changed`): the assessment stands on a text nobody has read, where `docs/regelfilsuppdatering_arkiv_och_aterstallning.md:150-165` has it marked |
| `HostBound` | `HostBound` | the finally block releases a host, wakes a waiter and pumps a queued job of the same host into the slot before the waiter counts |
| `LostArchive` | `ReadyIsDownloadable` | the DELETE of a row fails after its files were removed, without any restart; the snapshot is listed as ready and has nothing to download (`docs/api-dokumentation.md:735`) |
| `LostArchive` with | `PackageBound` | the package slot is released before the archive is built |
| `LostArchive` with | `OneActivePerAudit` | the pump empties the whole queue before any job counts, so the fair pick limits nothing |
| `LostArchive` with | `ReadyIsWhole` | the deletion of one snapshot removes the directory of a running one, which is then packaged without its first files |
| `LostArchive` with | `DeletedLeavesNothing` | a deleted capture that runs on leaves an archive no row names |
| `LostArchive` with | `DeletedSupersedesNothing` | a capture deleted after its visible phase runs on and marks the sample's ready snapshot as superseded; nothing is left to download (`docs/api-dokumentation.md:736`) |

Two documents describe another program than the code without any run being able to show it.
`docs/regelfilsguide.md:217-218` gives checks with the logics `AND` and `OR` different statuses;
`calculate_check_status` gives both the same. `docs/rulefile_editing_flow.md:74-75` has the editor
save 250 ms after an input and not at `blur`; it saves at `focusout`.

## Abstractions and what is not modelled

In `AuditServer`: columns are fields without structure; validation (400) is an answer that
changes nothing and is not distinguished from the others; the plain INSERT of a new audit
(import without conflict, `POST /`) makes another row; a PATCH with `responsibleUserId` and
no metadata has no caller in the client; lists, statistics and media are reads of other
data.

In `AuditSync`:

- One status order, `in_progress < locked < archived`; the first states (`not_started`,
  `rulefile_editing`) are those in which nothing is synced.
- Every edit of a requirement has a new `lastStatusUpdate`. In the code a text autosave keeps
  the old one; it stamps `last_local_change_at` all the same, which wins over it.
- A full PATCH carries everything; the rule file column and its fingerprint, the edit log and
  the clamping of activity times to the end date are left out, as is the merge of texts that
  were typed while a copy was loaded (`audit_stuck_merge.ts`).
- Times are strictly ordered. Two events in one millisecond, and clocks that differ between
  machines, are not modelled; both can only add behaviours to those the risks describe.
- Answers 401 and 404, a missing token and the deletion of the audit end a session rather
  than a save and are left to a later module, as are the keepalive PATCH and the boot merge.
- Server handlers other than the ones the engine calls do not appear; they are in
  `AuditServer`.

In `EditLocks`: one field; of several fields in one tab only the shared heartbeat timer is
lost. A GET on which an acquisition or a release waits is answered in the step that reads
the table, and a heartbeat reaches the server in the step that sends it; those of refreshes
may be answered late. One acquisition and one release of a tab are under way at a time. A GET
that fails leaves the tab as it was. `Expire` may come at any time, for no code relates the
TTL to the timers of a hidden tab. How a lock is rendered is left out.

In `RulefileSync`: the poll takes the version of the state with the answer of its first
request; a poll that fails is none. Leaving a view without saving, new and deleted
requirements, a 401 answer, and the SELECT of `metadata.version` before a PUT are left out.
The re-rendering after an answer is immediate, the form of a requirement closes with its save
button, and other sections of a rule file go the way of a requirement that is submitted. The
patch queue is empty in this program and not modelled.

In `RuleSets`: no audit refers to a row, for the client imports audits with their own copy;
the SELECT of a PUT serves the numbering of `metadata.version` only, and that of a PATCH
compares what the UPDATE compares again. `POST /` and `POST /import` of rules have no caller in the
client. The publication of a row that has gone meanwhile answers 200 without a body, which changes
nothing.

In `AuditResults`: one sample; comments, observations, deficiency ids, times and the wording
of reports are left out, and a bulk pass fills marks only. A requirement is found in the rule
file by its key, where the code also tries its internal id. Checks of a requirement and
criteria of a check have different ids (`FileShape`). When results of several
requirements come to one key the one inserted last into a JavaScript object stays; which one
that is depends on the history of the audit and is a choice here. Within `text` nothing is
told apart: which of the compared fields differ, how instructions are normalised, and that a
criterion's `failureStatementTemplate` does not count. The audit is in
progress. `stale` names the case in which a report, or a confirmation, of another version was
applied; the properties except for it, and the expectations show it.

In `SnapshotJobs`: what is captured, its warnings and its budgets of time; the capacity
estimate and its broadcasts; downloads and lists; `purge_orphan_audit_snapshots`, which only
an unmounted route calls; and the deletion of the audit, which removes the rows by a foreign
key. A statement that fails has not been executed, and removing files succeeds (the code
goes on when it does not). The clock of the cooldown is a choice:
after a capture a host cools for some time (`cooling`), and who asks meanwhile waits.

Not modelled at all: most of the 1183 source files are views, their texts and styles, and the
driving of a browser; they keep no state that other parts race for. Capture, consent dialogs,
exports and PDF, media and backups are input and output. Authentication is calls of
libraries. Drafts, the mirroring of fields between tabs of one user, pending media deletes,
the stuck-text merge, progress and score are candidates for later modules.

## Plan

Done: `AuditServer` with `VersionedRow`, `EditLocks` with `Lease`, the two refinements;
`AuditSync`, `RulefileSync`, `RuleSets`, `AuditResults`, `SnapshotJobs`; the theorems about all of
them listed above.

1. `SessionBoot`: backup, keepalive PATCH, crash and boot merge on top of the plan of `AuditSync`.
2. `AuditImport`: two imports of one case, natural key instead of id.
3. Pure functions, each against a reference definition: the stuck-text merge, deficiency ids,
   progress and score.
