------------------------------ MODULE AuditSync ------------------------------
(***************************************************************************)
(* Tabs that edit one audit, and the client engine that keeps their copies *)
(* and the server's row in step: the debounced queue                       *)
(* (js/sync/audit_sync_service.ts), the plan of what to send               *)
(* (audit_sync_planning.ts), the preparation against the server's version  *)
(* (audit_sync_prepare.ts), the PATCHes with their fallbacks and the 409   *)
(* handler (audit_sync_execute.ts), the reloads (audit_remote_reload.ts,   *)
(* app_bootstrap.js) and the retry of connectivity_service.js.             *)
(*                                                                         *)
(* JavaScript runs to the next await without interruption, so an action is *)
(* the code between two awaits.  Times are ticks of one logical clock; the *)
(* value of an edited field is the time of its last edit, 0 is "not set".  *)
(***************************************************************************)
EXTENDS Naturals, FiniteSets, Sequences

CONSTANTS Tab,        \* tabs (of one user or several) with the audit open
          Req,        \* keys sample+requirement of the samples column
          Change,     \* status changes a user may make: pairs <<from, to>>
          Reload,     \* per tab, its reloads that happen, of {"poll", "visible"}
          MetaEdits,  \* whether users edit metadata too
          MaxEdits,   \* bound: edits and status changes, all tabs together
          MaxFaults,  \* bound: lost requests, lost answers, runs while offline
          MaxVersion, \* bound: no run starts from this version on
          MaxQueue    \* bound: runs waiting in a tab's queue

ASSUME BoundsAssumption ==
  /\ MaxEdits \in Nat /\ MaxFaults \in Nat /\ MaxVersion \in Nat /\ MaxQueue \in Nat
  /\ MetaEdits \in BOOLEAN /\ Reload \in [Tab -> SUBSET {"poll", "visible"}]

Status == {"in_progress", "locked", "archived"}
Rank   == [in_progress |-> 1, locked |-> 2, archived |-> 3]

ASSUME ChangeAssumption == Change \subseteq Status \X Status

(* An audit as a tab or the server holds it: the version, the status, one
   metadata value, the requirement results, and the two stamps kept inside
   metadata, last_local_change_at (lc) and last_server_sync_at (ss). *)
Time  == Nat
Audit == [ver : Nat, status : Status, meta : Time, req : [Req -> Time], lc : Time, ss : Time]

VARIABLES row,    \* the server's row
          now,    \* the clock
          local,  \* per tab: internal_state
          plan,   \* per tab: force_full_sync, metadata_only_pending, pending_requirement_keys
          timer,  \* per tab: the debounce timer runs
          queue,  \* per tab: runs chained on audit_sync_tail, by who asked
          run,    \* per tab: the run in flight
          fetch,  \* per tab: the reload in flight
          marked, \* per tab: pending_audit_sync
          risk,   \* history, per tab: what its edits have been exposed to
          edits,  \* edits made so far (bound)
          faults  \* faults so far (bound)

vars == <<row, now, local, plan, timer, queue, run, fetch, marked, risk, edits, faults>>

Kind  == {"sync", "nav", "retry"}
Empty == [full |-> FALSE, meta |-> FALSE, keys |-> {}]
Plan  == [full : BOOLEAN, meta : BOOLEAN, keys : SUBSET Req]

-----------------------------------------------------------------------------
(* audit_sync_tracking.ts *)

LatestReq(a) == CHOOSE m \in {a.req[k] : k \in Req} \cup {0} : \A k \in Req : a.req[k] <= m

LocalAt(a)  == IF a.lc # 0 THEN a.lc ELSE LatestReq(a)
ServerAt(a) == IF a.ss # 0 THEN a.ss ELSE LatestReq(a)

(* should_push_local_audit_to_server *)
ShouldPush(mine, theirs) == LocalAt(mine) > 0 /\ (ServerAt(theirs) = 0 \/ LocalAt(mine) > ServerAt(theirs))

(* has_unsynced_local_audit_changes *)
Unsynced(a) == LocalAt(a) > a.ss

(* is_requirement_result_synced_with_server looks the sample up by sampleId,
   a key samples do not have, and takes "not found" for "synced". *)
TakenForSynced(a) == ~Unsynced(a) \/ a.ss # 0

(* audit_sync_planning.ts *)

NoteFull      == [full |-> TRUE, meta |-> FALSE, keys |-> {}]
MetaBesideFull(p) == [p EXCEPT !.meta = TRUE]        \* seeded fault: not asking for full
NoteMeta(p)   == IF p.full THEN p ELSE [p EXCEPT !.meta = TRUE]
NoteReq(p, k) == IF p.full THEN p ELSE [p EXCEPT !.meta = FALSE, !.keys = @ \cup {k}]
Drop(p, k)    == IF p.full THEN p ELSE [p EXCEPT !.keys = @ \ {k}]

Planned(p) == p.full \/ p.meta \/ p.keys # {}

-----------------------------------------------------------------------------
(* The run in flight: where it stands, the state it took when it started,
   the mode of its PATCH, the version the server was found at, and what the
   server's handler of a result PATCH has read. *)

Steps == {"idle", "version", "load", "send", "write", "conflict", "answer"}
Modes == {"single", "meta", "full", "retry"}

Run   == [pc : Steps, kind : Kind, old : Audit, probe : BOOLEAN, prefer : BOOLEAN,
          mode : Modes, key : SUBSET Req, seen : [Req -> Time], ver : Nat]
Fetch == [pc : {"idle", "version", "load", "apply"}, kind : {"poll", "visible"},
          ver : Nat, status : Status, newer : Nat, got : Audit]

NoAudit == [ver |-> 0, status |-> "in_progress", meta |-> 0, req |-> [k \in Req |-> 0],
            lc |-> 0, ss |-> 0]
NoRun   == [pc |-> "idle", kind |-> "sync", old |-> NoAudit, probe |-> FALSE, prefer |-> FALSE,
            mode |-> "full", key |-> {}, seen |-> NoAudit.req, ver |-> 0]
NoFetch == [pc |-> "idle", kind |-> "poll", ver |-> 0, status |-> "in_progress", newer |-> 0,
            got |-> NoAudit]

Init == /\ row = [NoAudit EXCEPT !.ver = 1]
        /\ now = 0
        /\ local = [t \in Tab |-> row]
        /\ plan = [t \in Tab |-> Empty]
        /\ timer = [t \in Tab |-> FALSE]
        /\ queue = [t \in Tab |-> <<>>]
        /\ run = [t \in Tab |-> NoRun]
        /\ fetch = [t \in Tab |-> NoFetch]
        /\ marked = [t \in Tab |-> FALSE]
        /\ risk = [t \in Tab |-> {}]
        /\ edits = 0
        /\ faults = 0

-----------------------------------------------------------------------------
(* Users.  dispatch() (js/state/index.ts) reduces, notes the plan and
   schedules the run before anything else happens in the tab. *)

(* What the edits of a tab may be exposed to: one is made while a run is in
   flight ("window"); one is of a requirement and one of metadata in the same
   plan ("mixed"); one is made when the plan no longer has what an earlier,
   failed PATCH took from it ("lost"); one is dropped from the plan with others
   left in it ("dropped"); one that last_local_change_at does not tell of is
   dropped, or taken by a PATCH that fails ("unstamped"). *)
Risk == {"window", "mixed", "lost", "dropped", "unstamped"}

Exposed(t, causes) == risk' = [risk EXCEPT ![t] = @ \cup causes]

Edited(t, a, p, mixed) ==
  /\ edits < MaxEdits
  /\ edits' = edits + 1
  /\ now' = now + 1
  /\ local' = [local EXCEPT ![t] = a]
  /\ plan' = [plan EXCEPT ![t] = p]
  /\ Exposed(t, {c \in Risk : \/ c = "window" /\ run[t].pc # "idle"
                              \/ c = "mixed" /\ mixed
                              \/ c = "lost" /\ Unsynced(local[t]) /\ ~Planned(plan[t])})
  /\ UNCHANGED <<row, run, fetch, marked, faults>>

(* should_touch_last_local_change_at: a locked or archived audit keeps its stamp. *)
Touched(a) == IF a.status = "in_progress" THEN [a EXCEPT !.lc = now + 1] ELSE a

EditRequirement(t, k) ==
  /\ local[t].status # "archived"
  /\ Edited(t, Touched([local[t] EXCEPT !.req[k] = now + 1]), NoteReq(plan[t], k), plan[t].meta)
  /\ timer' = [timer EXCEPT ![t] = TRUE]
  /\ UNCHANGED queue

EditMetadata(t) ==
  /\ MetaEdits /\ local[t].status # "archived"
  /\ Edited(t, Touched([local[t] EXCEPT !.meta = now + 1]), NoteMeta(plan[t]), plan[t].keys # {})
  /\ timer' = [timer EXCEPT ![t] = TRUE]
  /\ UNCHANGED queue

(* flush_sync_to_server and sync_to_server_now: the timer goes, a run is chained. *)
Enqueue(t, kind) == /\ Len(queue[t]) < MaxQueue
                    /\ queue' = [queue EXCEPT ![t] = Append(@, kind)]
                    /\ timer' = [timer EXCEPT ![t] = FALSE]

SetStatus(t, s) ==
  /\ <<local[t].status, s>> \in Change
  /\ Edited(t, [local[t] EXCEPT !.status = s, !.lc = now + 1], NoteFull, FALSE)
  /\ Enqueue(t, "sync")

(* The debounce timer fires. *)
TimerFires(t) ==
  /\ timer[t]
  /\ Enqueue(t, "sync")
  /\ UNCHANGED <<row, now, local, plan, run, fetch, marked, risk, edits, faults>>

(* The user leaves requirement k for another one: the plan forgets it when it
   is taken for synced, and what is left is flushed without asking for the
   server's version first. *)
LeaveRequirement(t, k) ==
  LET p == IF TakenForSynced(local[t]) THEN Drop(plan[t], k) ELSE plan[t] IN
  /\ plan' = [plan EXCEPT ![t] = p]
  /\ IF Unsynced(local[t]) \/ Planned(p) THEN Enqueue(t, "nav")
                                         ELSE p # plan[t] /\ UNCHANGED <<timer, queue>>
  /\ Exposed(t, IF p = plan[t] THEN {}
                ELSE IF ~Unsynced(local[t]) THEN {"unstamped"}
                ELSE IF p.keys # {} THEN {"dropped"} ELSE {})
  /\ UNCHANGED <<row, now, local, run, fetch, marked, edits, faults>>

(* The user opens another view, or hides the tab: flush_sync_to_server. *)
LeaveView(t) ==
  /\ timer[t] \/ Planned(plan[t]) \/ Unsynced(local[t])
  /\ Enqueue(t, "sync")
  /\ UNCHANGED <<row, now, local, plan, run, fetch, marked, risk, edits, faults>>

(* Seeded fault: a marked audit is left alone when it has nothing unsynced. *)
RetryUnsyncedOnly(t) ==
  /\ Unsynced(local[t])
  /\ run[t].kind # "retry" /\ \A i \in 1..Len(queue[t]) : queue[t][i] # "retry"
  /\ Enqueue(t, "retry")
  /\ UNCHANGED <<row, now, local, plan, run, fetch, marked, risk, edits, faults>>

(* attempt_pending_sync_flush, every 30 s and when the browser is online
   again; one such flush at a time. *)
Retry(t) ==
  /\ marked[t] \/ Unsynced(local[t])
  /\ run[t].kind # "retry" /\ \A i \in 1..Len(queue[t]) : queue[t][i] # "retry"
  /\ Enqueue(t, "retry")
  /\ UNCHANGED <<row, now, local, plan, run, fetch, marked, risk, edits, faults>>

-----------------------------------------------------------------------------
(* A run: execute_audit_server_sync. *)

Goto(t, r)     == run' = [run EXCEPT ![t] = r]
SetPlan(t, p)  == plan' = [plan EXCEPT ![t] = p]
Mark(t, b)     == marked' = [marked EXCEPT ![t] = b]
SetLocal(t, a) == local' = [local EXCEPT ![t] = a]
Fault          == faults < MaxFaults /\ faults' = faults + 1

(* Seeded fault: the timer is cancelled, the plan kept. *)
ReplaceKeepingPlan(t, a) == /\ SetLocal(t, a)
                            /\ SetPlan(t, plan[t])
                            /\ timer' = [timer EXCEPT ![t] = FALSE]

(* REPLACE_STATE_FROM_REMOTE: the server's copy becomes the state, and the
   store cancels the timer and empties the plan. *)
Replace(t, a) == SetLocal(t, a) /\ SetPlan(t, Empty) /\ timer' = [timer EXCEPT ![t] = FALSE]

(* UPDATE_METADATA with last_server_sync_at, which an archived audit refuses. *)
Stamped(a, time) == IF a.status = "archived" THEN a ELSE [a EXCEPT !.ss = time]

(* Seeded fault: with nothing noted, only the metadata is sent. *)
ResolveMetaByDefault(t, r, a) ==
  LET p      == plan[t]
      single == ~p.full /\ Cardinality(p.keys) = 1
      known  == \A k \in p.keys : a.req[k] # 0
      mode   == IF single /\ known THEN "single" ELSE IF ~p.full /\ p.keys = {} THEN "meta" ELSE "full"
  IN /\ Goto(t, [r EXCEPT !.pc = "send", !.old = a, !.mode = mode,
                          !.key = IF mode = "single" THEN p.keys ELSE {}])
     /\ SetPlan(t, IF single /\ ~known THEN NoteFull ELSE Empty)

(* resolve_audit_sync_strategy says what to send of the state a and empties
   the plan; a lone requirement that a does not have is a full PATCH. *)
Resolve(t, r, a) ==
  LET p      == plan[t]
      single == ~p.full /\ Cardinality(p.keys) = 1
      known  == \A k \in p.keys : a.req[k] # 0
      mode   == IF single /\ known THEN "single"
                ELSE IF ~p.full /\ p.keys = {} /\ p.meta THEN "meta" ELSE "full"
  IN /\ Goto(t, [r EXCEPT !.pc = "send", !.old = a, !.mode = mode,
                          !.key = IF mode = "single" THEN p.keys ELSE {}])
     /\ SetPlan(t, IF single /\ ~known THEN NoteFull ELSE Empty)

(* Seeded fault: the stamps alone say whether there is anything to send. *)
StartByStamps(t) ==
  LET idle == ~Unsynced(local[t])
      r    == [NoRun EXCEPT !.pc = "version", !.kind = Head(queue[t]), !.old = local[t], !.probe = idle]
  IN /\ run[t].pc = "idle" /\ queue[t] # <<>> /\ row.ver < MaxVersion
     /\ queue' = [queue EXCEPT ![t] = Tail(@)]
     /\ IF r.kind # "nav" THEN Goto(t, r) /\ UNCHANGED plan
        ELSE IF idle THEN UNCHANGED <<run, plan>>
        ELSE Resolve(t, r, local[t])
     /\ UNCHANGED <<row, now, local, timer, fetch, marked, risk, edits, faults>>

(* The run starts with the state of now.  With nothing to send it still looks
   whether the server is ahead; on a change of requirement it does not look. *)
Start(t) ==
  LET kind == Head(queue[t])
      idle == ~Unsynced(local[t]) /\ ~Planned(plan[t])
      r    == [NoRun EXCEPT !.pc = "version", !.kind = kind, !.old = local[t], !.probe = idle]
  IN /\ run[t].pc = "idle" /\ queue[t] # <<>> /\ row.ver < MaxVersion
     /\ queue' = [queue EXCEPT ![t] = Tail(@)]
     /\ IF kind # "nav" THEN Goto(t, r) /\ UNCHANGED plan
        ELSE IF idle THEN UNCHANGED <<run, plan>>
        ELSE Resolve(t, r, local[t])
     /\ UNCHANGED <<row, now, local, timer, fetch, marked, risk, edits, faults>>

(* Seeded fault: offline, a run does nothing. *)
StartOfflineUnmarked(t) ==
  /\ run[t].pc = "idle" /\ queue[t] # <<>>
  /\ Fault
  /\ queue' = [queue EXCEPT ![t] = Tail(@)]
  /\ UNCHANGED <<row, now, local, plan, timer, run, fetch, marked, risk, edits>>

(* Offline, a run only marks the audit. *)
StartOffline(t) ==
  /\ run[t].pc = "idle" /\ queue[t] # <<>>
  /\ Fault
  /\ queue' = [queue EXCEPT ![t] = Tail(@)]
  /\ Mark(t, TRUE)
  /\ UNCHANGED <<row, now, local, plan, timer, run, fetch, risk, edits>>

(* The preparation is over: a probe had nothing to send. *)
Prepared(t, a) == IF run[t].probe THEN Goto(t, NoRun) /\ UNCHANGED plan
                                  ELSE Resolve(t, run[t], a)

(* get_audit_version answers. *)
VersionAnswer(t) ==
  /\ run[t].pc = "version"
  /\ IF row.ver <= run[t].old.ver
       THEN Prepared(t, run[t].old)
       ELSE /\ Goto(t, [run[t] EXCEPT !.pc = "load", !.ver = row.ver,
                                      !.prefer = ~run[t].probe /\ plan[t].full])
            /\ UNCHANGED plan
  /\ UNCHANGED <<row, now, local, timer, queue, fetch, marked, risk, edits, faults>>

(* apply_remote_state_when_server_ahead: the server's copy replaces the state
   unless the tab has something newer, or a full PATCH waits; then the tab
   takes the server's version number and goes on. *)
LoadAnswer(t) ==
  LET r       == run[t]
      intends == r.prefer /\ Rank[r.old.status] > Rank[row.status]
      reload  == IF row.status # r.old.status /\ ~intends THEN TRUE
                 ELSE ~r.prefer /\ ~ShouldPush(r.old, row)
  IN /\ r.pc = "load"
     /\ IF reload
          THEN /\ now' = now + 1
               /\ Replace(t, Stamped(row, now'))
               /\ Mark(t, FALSE)
               /\ Goto(t, NoRun)
          ELSE /\ SetLocal(t, [local[t] EXCEPT !.ver = r.ver])
               /\ Prepared(t, [r.old EXCEPT !.ver = r.ver])
               /\ UNCHANGED <<now, timer, marked>>
     /\ UNCHANGED <<row, queue, fetch, risk, edits, faults>>

(* A lost question, or answer, while preparing: go on with the old state. *)
PrepareLost(t) ==
  /\ run[t].pc \in {"version", "load"}
  /\ Fault
  /\ Prepared(t, run[t].old)
  /\ UNCHANGED <<row, now, local, timer, queue, fetch, marked, risk, edits>>

-----------------------------------------------------------------------------
(* The PATCHes: what the server does of them, and what the tab does of the
   answers. *)

SentUncounted(old) == old                 \* seeded fault: version = version + 1 is missing
Sent(old) == [old EXCEPT !.ver = row.ver + 1]

(* A PATCH has failed: one of a requirement or of the metadata becomes a full
   one of the same state, any other ends the run as stop says. *)
Fallback(t, stop) ==
  IF run[t].mode \in {"single", "meta"}
    THEN /\ Goto(t, [run[t] EXCEPT !.pc = "send", !.mode = "full", !.key = {}])
         /\ SetPlan(t, NoteFull)
         /\ UNCHANGED <<marked, risk>>
    ELSE stop /\ UNCHANGED plan

GiveUp(t) == /\ Goto(t, NoRun)
             /\ Mark(t, TRUE)
             /\ Exposed(t, IF Unsynced(local[t]) THEN {} ELSE {"unstamped"})

(* The server selects the row for a result PATCH, and checks the version. *)
Select(t) ==
  /\ run[t].pc = "send" /\ run[t].mode = "single" /\ row.ver = run[t].old.ver
  /\ Goto(t, [run[t] EXCEPT !.pc = "write", !.seen = row.req])
  /\ UNCHANGED <<row, now, local, plan, timer, queue, fetch, marked, risk, edits, faults>>

(* It writes the samples it selected, with the one result in them. *)
WriteResult(t) ==
  /\ run[t].pc = "write"
  /\ row' = [row EXCEPT !.ver = @ + 1,
                        !.req = [k \in Req |-> IF k \in run[t].key THEN run[t].old.req[k]
                                                                   ELSE run[t].seen[k]]]
  /\ Goto(t, [run[t] EXCEPT !.pc = "answer", !.ver = row.ver + 1])
  /\ UNCHANGED <<now, local, plan, timer, queue, fetch, marked, risk, edits, faults>>

(* Seeded fault: the UPDATE does not compare the version. *)
AcceptAnyVersion(t) ==
  LET a == run[t].old IN
  /\ run[t].pc = "send" /\ run[t].mode # "single"
  /\ row' = IF run[t].mode = "meta" THEN [Sent(a) EXCEPT !.req = row.req] ELSE Sent(a)
  /\ Goto(t, [run[t] EXCEPT !.pc = "answer", !.ver = row.ver + 1])
  /\ UNCHANGED <<now, local, plan, timer, queue, fetch, marked, risk, edits, faults>>

(* A metadata or full PATCH is one UPDATE that compares the version. *)
Accept(t) ==
  LET a == run[t].old IN
  /\ run[t].pc = "send" /\ run[t].mode # "single" /\ row.ver = a.ver
  /\ row' = IF run[t].mode = "meta" THEN [Sent(a) EXCEPT !.req = row.req] ELSE Sent(a)
  /\ Goto(t, [run[t] EXCEPT !.pc = "answer", !.ver = row.ver + 1])
  /\ UNCHANGED <<now, local, plan, timer, queue, fetch, marked, risk, edits, faults>>

(* 409: the first refusal of a full PATCH is looked into, the second is not. *)
Refuse(t) ==
  /\ run[t].pc = "send" /\ row.ver # run[t].old.ver
  /\ Fallback(t, IF run[t].mode = "retry"
                   THEN GiveUp(t)
                   ELSE Goto(t, [run[t] EXCEPT !.pc = "conflict"]) /\ UNCHANGED <<marked, risk>>)
  /\ UNCHANGED <<row, now, local, timer, queue, fetch, edits, faults>>

(* handle_version_conflict_409: the server's copy wins unless the tab has
   something newer; then the tab sends its whole state again, on top. *)
Conflict(t) ==
  LET a == run[t].old IN
  /\ run[t].pc = "conflict"
  /\ IF ~ShouldPush(a, row) \/ Rank[row.status] > Rank[a.status]
       THEN Replace(t, row) /\ Mark(t, FALSE) /\ Goto(t, NoRun)
       ELSE /\ SetPlan(t, NoteFull)
            /\ Goto(t, [run[t] EXCEPT !.pc = "send", !.mode = "retry", !.old.ver = row.ver])
            /\ UNCHANGED <<local, timer, marked>>
  /\ UNCHANGED <<row, now, queue, fetch, risk, edits, faults>>

(* apply_successful_sync_response. *)
Success(t) ==
  /\ run[t].pc = "answer"
  /\ now' = now + 1
  /\ SetLocal(t, Stamped([local[t] EXCEPT !.ver = run[t].ver], now'))
  /\ Mark(t, FALSE)
  /\ Goto(t, NoRun)
  /\ UNCHANGED <<row, plan, timer, queue, fetch, risk, edits, faults>>

(* A lost PATCH, or a lost answer to one that was done. *)
PatchLost(t) ==
  /\ run[t].pc \in {"send", "write", "answer", "conflict"}
  /\ Fault
  /\ Fallback(t, GiveUp(t))
  /\ UNCHANGED <<row, now, local, timer, queue, fetch, edits>>

-----------------------------------------------------------------------------
(* Reloads outside the queue: reload_open_audit_if_server_ahead (the 3 s poll
   and the BroadcastChannel) and the one of a tab that becomes visible. *)

FetchAt(t, f) == /\ fetch' = [fetch EXCEPT ![t] = f]
                 /\ UNCHANGED <<row, now, queue, run, marked, risk, edits, faults>>

FetchStart(t, kind) ==
  /\ fetch[t].pc = "idle" /\ kind \in Reload[t]
  /\ FetchAt(t, [NoFetch EXCEPT !.pc = IF kind = "poll" THEN "version" ELSE "load", !.kind = kind,
                                !.ver = local[t].ver, !.status = local[t].status])
  /\ UNCHANGED <<local, plan, timer>>

FetchVersion(t) ==
  /\ fetch[t].pc = "version"
  /\ FetchAt(t, [fetch[t] EXCEPT !.pc = "load", !.newer = row.ver])
  /\ UNCHANGED <<local, plan, timer>>

FetchLoad(t) ==
  /\ fetch[t].pc = "load"
  /\ FetchAt(t, [fetch[t] EXCEPT !.pc = "apply", !.got = row])
  /\ UNCHANGED <<local, plan, timer>>

(* should_reload_audit_from_server compares with the state the poll started from. *)
FetchApply(t) ==
  LET f == fetch[t] IN
  /\ f.pc = "apply"
  /\ IF f.kind = "visible" \/ f.newer > f.ver \/ (f.newer = f.ver /\ f.got.status # f.status)
       THEN Replace(t, f.got)
       ELSE UNCHANGED <<local, plan, timer>>
  /\ FetchAt(t, NoFetch)

-----------------------------------------------------------------------------
User(t)  == \/ \E k \in Req : EditRequirement(t, k) \/ LeaveRequirement(t, k)
            \/ \E s \in Status : SetStatus(t, s)
            \/ EditMetadata(t) \/ LeaveView(t)
Engine(t) == \/ TimerFires(t) \/ Retry(t) \/ Start(t)
             \/ VersionAnswer(t) \/ LoadAnswer(t)
             \/ Select(t) \/ WriteResult(t) \/ Accept(t) \/ Refuse(t) \/ Conflict(t) \/ Success(t)
Failure(t) == StartOffline(t) \/ PrepareLost(t) \/ PatchLost(t)
Fetching(t) == \/ \E kind \in {"poll", "visible"} : FetchStart(t, kind)
               \/ FetchVersion(t) \/ FetchLoad(t) \/ FetchApply(t)

Next == \E t \in Tab : User(t) \/ Engine(t) \/ Failure(t) \/ Fetching(t)

Spec == Init /\ [][Next]_vars

(* A timer that runs fires, a chained run starts, a request that is not lost
   is answered, and the retry interval comes round. *)
FairSpec == /\ Spec
            /\ \A t \in Tab : /\ WF_vars(TimerFires(t)) /\ WF_vars(Retry(t)) /\ WF_vars(Start(t))
                              /\ WF_vars(VersionAnswer(t)) /\ WF_vars(LoadAnswer(t))
                              /\ WF_vars(Select(t) \/ Accept(t) \/ Refuse(t))
                              /\ WF_vars(WriteResult(t)) /\ WF_vars(Conflict(t))
                              /\ WF_vars(Success(t))
-----------------------------------------------------------------------------
(* The variables have their types: a tab's copy and what its run and its
   reload carry are audits, a plan with force_full_sync has nothing else in
   it, and only Tabs have engines (js/sync, js/logic). *)
TypeOK ==
  /\ row \in Audit /\ now \in Nat /\ local \in [Tab -> Audit]
  /\ plan \in [Tab -> {p \in Plan : p.full => ~p.meta /\ p.keys = {}}]
  /\ timer \in [Tab -> BOOLEAN] /\ queue \in [Tab -> Seq(Kind)]
  /\ run \in [Tab -> Run] /\ fetch \in [Tab -> Fetch]
  /\ marked \in [Tab -> BOOLEAN] /\ risk \in [Tab -> SUBSET Risk]
  /\ edits \in Nat /\ faults \in Nat

(* What the users typed, without stamps and version. *)
Typed(a) == [status |-> a.status, meta |-> a.meta, req |-> a.req]

(* Nothing will happen in the tab unless somebody does something. *)
Quiet(t) == /\ ~timer[t] /\ queue[t] = <<>> /\ run[t].pc = "idle" /\ ~marked[t]
            /\ ~Unsynced(local[t])

(* A tab never believes in a version the server has not given out, in its
   state, in its run or in its reload: otherwise it would take no reload until
   the server had caught up, and each PATCH of its would be refused. *)
NeverAhead == \A t \in Tab : /\ local[t].ver <= row.ver /\ run[t].old.ver <= row.ver
                             /\ run[t].ver <= row.ver /\ fetch[t].got.ver <= row.ver

(* Planned requirements and metadata are never orphaned: while the plan has
   any, the timer runs, a run is chained or has not come to its plan yet, or
   the retry interval will find the audit marked or unsynced. *)
WorkHasACarrier ==
  \A t \in Tab : plan[t].keys # {} \/ plan[t].meta =>
    \/ timer[t] \/ queue[t] # <<>> \/ run[t].pc \in {"version", "load"}
    \/ marked[t] \/ Unsynced(local[t])

SavedDespite(causes) ==
  \A t \in Tab : Quiet(t) /\ risk[t] \subseteq causes => Typed(row) = Typed(local[t])

(* With one tab, what was typed is on the server when the tab is quiet, as
   long as no edit met one of the five risks: lost requests, lost answers and
   time offline cannot make the fallbacks, the 409 handler and the retries
   forget an edit. *)
SavedUnlessAtRisk == SavedDespite({})

(* And the tab does come to have everything saved, and to know it. *)
EventuallySaved ==
  <>[](\A t \in Tab : risk[t] # {} \/ (~Unsynced(local[t]) /\ Typed(row) = Typed(local[t])))

(* "The server's status shall win over the local one without being written
   back" (audit_status_sync.ts:21): where users only lock and archive, no
   write of the engine takes the row back to an earlier status. *)
StatusNeverFallsBack == [][Rank[row'.status] >= Rank[row.status]]_vars

=============================================================================
