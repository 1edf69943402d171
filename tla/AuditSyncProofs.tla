--------------------------- MODULE AuditSyncProofs ---------------------------
(***************************************************************************)
(* Proofs about AuditSync, for any number of tabs and requirements and     *)
(* every bound: types, that no tab is ahead of the server's version, and   *)
(* that what is planned always has something that will send it.  Of a tab  *)
(* that is alone and does not reload: that what was typed is saved.        *)
(***************************************************************************)
EXTENDS AuditSync, SequenceTheorems, FiniteSetTheorems, TLAPS

PlanType == {p \in Plan : p.full => ~p.meta /\ p.keys = {}}

LEMMA Constants ==
    /\ NoAudit \in Audit /\ NoRun \in Run /\ NoFetch \in Fetch
    /\ Empty \in PlanType /\ NoteFull \in PlanType
    /\ NoAudit.ver = 0
    /\ NoRun.pc = "idle" /\ NoRun.old = NoAudit /\ NoRun.ver = 0
    /\ NoFetch.pc = "idle" /\ NoFetch.got = NoAudit
    /\ Empty.keys = {} /\ Empty.meta = FALSE /\ NoteFull.keys = {} /\ NoteFull.meta = FALSE
  BY DEF NoAudit, Audit, Status, Time, NoRun, Run, Steps, Kind, Modes, NoFetch, Fetch,
         Empty, NoteFull, PlanType, Plan

(* Records with a field changed. *)
LEMMA AuditFields ==
    ASSUME NEW a \in Audit
    PROVE  /\ a.ver \in Nat /\ a.status \in Status /\ a.meta \in Nat
           /\ a.req \in [Req -> Nat] /\ a.lc \in Nat /\ a.ss \in Nat
           /\ \A n \in Nat : /\ [a EXCEPT !.ver = n] \in Audit /\ [a EXCEPT !.ver = n].ver = n
                             /\ [a EXCEPT !.meta = n] \in Audit /\ [a EXCEPT !.meta = n].ver = a.ver
                             /\ [a EXCEPT !.lc = n] \in Audit /\ [a EXCEPT !.lc = n].ver = a.ver
                             /\ [a EXCEPT !.ss = n] \in Audit /\ [a EXCEPT !.ss = n].ver = a.ver
                             /\ \A s \in Status : /\ [a EXCEPT !.status = s, !.lc = n] \in Audit
                                                  /\ [a EXCEPT !.status = s, !.lc = n].ver = a.ver
                             /\ \A k \in Req : /\ [a EXCEPT !.req[k] = n] \in Audit
                                               /\ [a EXCEPT !.req[k] = n].ver = a.ver
           /\ \A q \in [Req -> Nat] : /\ [a EXCEPT !.req = q] \in Audit
                                      /\ [a EXCEPT !.req = q].ver = a.ver
  BY DEF Audit, Time

LEMMA StampedType ==
    ASSUME NEW a \in Audit, NEW n \in Nat
    PROVE  Stamped(a, n) \in Audit /\ Stamped(a, n).ver = a.ver
  BY AuditFields DEF Stamped

LEMMA TouchedType ==
    ASSUME NEW a \in Audit, now \in Nat
    PROVE  Touched(a) \in Audit /\ Touched(a).ver = a.ver
<1>1. now + 1 \in Nat
  OBVIOUS
<1>. QED
  BY <1>1, AuditFields DEF Touched

LEMMA EditTypes ==
    ASSUME NEW a \in Audit, NEW n \in Nat
    PROVE  /\ \A k \in Req : /\ [a EXCEPT !.req[k] = n] \in Audit
                             /\ [a EXCEPT !.req[k] = n].ver = a.ver
           /\ [a EXCEPT !.meta = n] \in Audit /\ [a EXCEPT !.meta = n].ver = a.ver
           /\ \A s \in Status : /\ [a EXCEPT !.status = s, !.lc = n] \in Audit
                                /\ [a EXCEPT !.status = s, !.lc = n].ver = a.ver
  BY AuditFields

LEMMA VersionType ==
    ASSUME NEW a \in Audit, NEW n \in Nat
    PROVE  [a EXCEPT !.ver = n] \in Audit /\ [a EXCEPT !.ver = n].ver = n
  BY DEF Audit

LEMMA PlanTypes ==
    ASSUME NEW p \in PlanType, NEW k \in Req
    PROVE  NoteReq(p, k) \in PlanType /\ Drop(p, k) \in PlanType
<1>1. CASE p.full
  BY <1>1 DEF NoteReq, Drop
<1>2. CASE ~p.full
  <2>1. p \in [full : BOOLEAN, meta : BOOLEAN, keys : SUBSET Req]
    BY DEF PlanType, Plan
  <2>2. /\ [p EXCEPT !.meta = FALSE, !.keys = @ \cup {k}] \in Plan
        /\ ~[p EXCEPT !.meta = FALSE, !.keys = @ \cup {k}].full
        /\ [p EXCEPT !.keys = @ \ {k}] \in Plan
        /\ ~[p EXCEPT !.keys = @ \ {k}].full
    BY <1>2, <2>1 DEF Plan
  <2>. QED
    BY <1>2, <2>2 DEF PlanType, NoteReq, Drop
<1>. QED
  BY <1>1, <1>2

LEMMA MetaType ==
    ASSUME NEW p \in PlanType
    PROVE  NoteMeta(p) \in PlanType
<1>1. ~p.full => [p EXCEPT !.meta = TRUE] \in Plan /\ ~[p EXCEPT !.meta = TRUE].full
  BY DEF PlanType, Plan
<1>. QED
  BY <1>1 DEF PlanType, NoteMeta

(* The fields of a run. *)
LEMMA RunFields ==
    ASSUME NEW r \in Run
    PROVE  /\ r.pc \in Steps /\ r.old \in Audit /\ r.probe \in BOOLEAN /\ r.prefer \in BOOLEAN
           /\ r.mode \in Modes /\ r.key \in SUBSET Req /\ r.seen \in [Req -> Nat] /\ r.ver \in Nat
  BY DEF Run, Time

LEMMA FreshRun == NoRun \in Run /\ NoRun.ver = 0 /\ "version" \in Steps
  BY Constants DEF NoRun, Run, Steps, Modes

LEMMA FetchFields ==
    ASSUME NEW f \in Fetch
    PROVE  /\ f.pc \in {"idle", "version", "load", "apply"} /\ f.kind \in {"poll", "visible"}
           /\ f.ver \in Nat /\ f.status \in Status /\ f.newer \in Nat /\ f.got \in Audit
  BY DEF Fetch

-----------------------------------------------------------------------------
(* What the building blocks of the actions do to the tab t, and that they  *)
(* leave the other tabs alone.                                             *)

Others(f, g, t) == \A u \in Tab : u # t => g[u] = f[u]

LEMMA Fields ==
    ASSUME TypeOK, NEW t \in Tab
    PROVE  /\ local[t] \in Audit /\ plan[t] \in PlanType /\ timer[t] \in BOOLEAN
           /\ queue[t] \in Seq(Kind) /\ run[t] \in Run /\ fetch[t] \in Fetch
           /\ row \in Audit /\ now \in Nat /\ now + 1 \in Nat /\ row.ver \in Nat
<1>1. /\ row \in Audit /\ now \in Nat /\ local \in [Tab -> Audit]
      /\ plan \in [Tab -> PlanType] /\ timer \in [Tab -> BOOLEAN] /\ queue \in [Tab -> Seq(Kind)]
      /\ run \in [Tab -> Run] /\ fetch \in [Tab -> Fetch]
  BY DEF TypeOK, PlanType
<1>2. row.ver \in Nat
  BY <1>1, AuditFields
<1>3. now + 1 \in Nat
  BY <1>1
<1>. QED
  BY <1>1, <1>2, <1>3

LEMMA GotoStep ==
    ASSUME TypeOK, NEW t \in Tab, NEW r \in Run, Goto(t, r)
    PROVE  run' \in [Tab -> Run] /\ run'[t] = r /\ Others(run, run', t)
  BY DEF TypeOK, Goto, Others

LEMMA SetPlanStep ==
    ASSUME TypeOK, NEW t \in Tab, NEW p \in PlanType, SetPlan(t, p)
    PROVE  plan' \in [Tab -> PlanType] /\ plan'[t] = p /\ Others(plan, plan', t)
<1>1. plan \in [Tab -> PlanType]
  BY DEF TypeOK, PlanType
<1>. QED
  BY <1>1 DEF SetPlan, Others

LEMMA SetLocalStep ==
    ASSUME TypeOK, NEW t \in Tab, NEW a \in Audit, SetLocal(t, a)
    PROVE  local' \in [Tab -> Audit] /\ local'[t] = a /\ Others(local, local', t)
  BY DEF TypeOK, SetLocal, Others

LEMMA MarkStep ==
    ASSUME TypeOK, NEW t \in Tab, NEW b \in BOOLEAN, Mark(t, b)
    PROVE  marked' \in [Tab -> BOOLEAN] /\ marked'[t] = b /\ Others(marked, marked', t)
  BY DEF TypeOK, Mark, Others

LEMMA ExposedStep ==
    ASSUME TypeOK, NEW t \in Tab, NEW causes \in SUBSET Risk, Exposed(t, causes)
    PROVE  risk' \in [Tab -> SUBSET Risk] /\ Others(risk, risk', t)
  BY DEF TypeOK, Exposed, Others

LEMMA EnqueueStep ==
    ASSUME TypeOK, NEW t \in Tab, NEW k \in Kind, Enqueue(t, k)
    PROVE  /\ queue' \in [Tab -> Seq(Kind)] /\ queue'[t] # <<>> /\ Others(queue, queue', t)
           /\ timer' \in [Tab -> BOOLEAN] /\ Others(timer, timer', t)
<1>. DEFINE s == Append(queue[t], k)
<1>1. s \in Seq(Kind) /\ s # <<>>
  BY Fields, AppendProperties
<1>2. queue' = [queue EXCEPT ![t] = s] /\ timer' = [timer EXCEPT ![t] = FALSE]
  BY DEF Enqueue
<1>. HIDE DEF s
<1>. QED
  BY <1>1, <1>2 DEF TypeOK, Others

LEMMA ReplaceStep ==
    ASSUME TypeOK, NEW t \in Tab, NEW a \in Audit, Replace(t, a)
    PROVE  /\ local' \in [Tab -> Audit] /\ local'[t] = a /\ Others(local, local', t)
           /\ plan' \in [Tab -> PlanType] /\ plan'[t] = Empty /\ Others(plan, plan', t)
           /\ timer' \in [Tab -> BOOLEAN] /\ Others(timer, timer', t)
<1>1. SetLocal(t, a) /\ SetPlan(t, Empty) /\ timer' = [timer EXCEPT ![t] = FALSE]
  BY DEF Replace
<1>2. timer' \in [Tab -> BOOLEAN] /\ Others(timer, timer', t)
  BY <1>1 DEF TypeOK, Others
<1>. QED
  BY <1>1, <1>2, SetLocalStep, SetPlanStep, Constants

(* A run that has come to its plan carries the state a, and has emptied the plan. *)
LEMMA ResolveStep ==
    ASSUME TypeOK, NEW t \in Tab, NEW r \in Run, NEW a \in Audit, Resolve(t, r, a)
    PROVE  /\ run' \in [Tab -> Run] /\ Others(run, run', t)
           /\ run'[t].pc = "send" /\ run'[t].old = a /\ run'[t].ver = r.ver
           /\ plan' \in [Tab -> PlanType] /\ Others(plan, plan', t)
           /\ plan'[t].keys = {} /\ plan'[t].meta = FALSE
<1>. DEFINE p      == plan[t]
            single == ~p.full /\ Cardinality(p.keys) = 1
            known  == \A k \in p.keys : a.req[k] # 0
            mode   == IF single /\ known THEN "single"
                      ELSE IF ~p.full /\ p.keys = {} /\ p.meta THEN "meta" ELSE "full"
            s == [r EXCEPT !.pc = "send", !.old = a, !.mode = mode,
                           !.key = IF mode = "single" THEN p.keys ELSE {}]
<1>1. Goto(t, s) /\ SetPlan(t, IF single /\ ~known THEN NoteFull ELSE Empty)
  BY DEF Resolve
<1>2. mode \in Modes /\ p.keys \in SUBSET Req
  BY Fields DEF Modes, PlanType, Plan
<1>. HIDE DEF mode, p, single, known
<1>3. s \in Run /\ s.pc = "send" /\ s.old = a /\ s.ver = r.ver
  BY <1>2 DEF Run, Steps
<1>. HIDE DEF s
<1>. QED
  BY <1>1, <1>3, GotoStep, SetPlanStep, Constants

LEMMA PreparedStep ==
    ASSUME TypeOK, NEW t \in Tab, NEW a \in Audit, Prepared(t, a)
    PROVE  /\ run' \in [Tab -> Run] /\ Others(run, run', t)
           /\ plan' \in [Tab -> PlanType] /\ Others(plan, plan', t)
           /\ \/ run[t].probe /\ run'[t] = NoRun /\ plan' = plan
              \/ /\ ~run[t].probe /\ plan'[t].keys = {} /\ plan'[t].meta = FALSE
                 /\ run'[t].pc = "send" /\ run'[t].old = a /\ run'[t].ver = run[t].ver
<1>1. CASE run[t].probe
  BY <1>1, GotoStep, Constants DEF Prepared, TypeOK, PlanType, Others
<1>2. CASE ~run[t].probe
  BY <1>2, ResolveStep, Fields DEF Prepared
<1>. QED
  BY <1>1, <1>2

(* After a failed PATCH comes a full one of the same state, or what stop says. *)
LEMMA FallbackStep ==
    ASSUME TypeOK, NEW t \in Tab, run[t].mode \in {"single", "meta"},
           /\ Goto(t, [run[t] EXCEPT !.pc = "send", !.mode = "full", !.key = {}])
           /\ SetPlan(t, NoteFull)
    PROVE  /\ run' \in [Tab -> Run] /\ Others(run, run', t)
           /\ run'[t].pc = "send" /\ run'[t].old = run[t].old /\ run'[t].ver = run[t].ver
           /\ plan' \in [Tab -> PlanType] /\ Others(plan, plan', t)
           /\ plan'[t].keys = {} /\ plan'[t].meta = FALSE
<1>. DEFINE s == [run[t] EXCEPT !.pc = "send", !.mode = "full", !.key = {}]
<1>1. /\ run[t] \in Run /\ {} \in SUBSET Req
      /\ "send" \in Steps /\ "full" \in Modes
  BY Fields DEF Steps, Modes
<1>2. s \in Run /\ s.pc = "send" /\ s.old = run[t].old /\ s.ver = run[t].ver
  BY <1>1 DEF Run
<1>. HIDE DEF s
<1>. QED
  BY <1>2, GotoStep, SetPlanStep, Constants DEF s

LEMMA GiveUpStep ==
    ASSUME TypeOK, NEW t \in Tab, GiveUp(t)
    PROVE  /\ run' \in [Tab -> Run] /\ run'[t] = NoRun /\ Others(run, run', t)
           /\ marked' \in [Tab -> BOOLEAN] /\ Others(marked, marked', t)
           /\ risk' \in [Tab -> SUBSET Risk] /\ Others(risk, risk', t)
<1>1. (IF Unsynced(local[t]) THEN {} ELSE {"unstamped"}) \in SUBSET Risk
  BY DEF Risk
<1>. QED
  BY <1>1, GotoStep, MarkStep, ExposedStep, Constants DEF GiveUp

-----------------------------------------------------------------------------
(* The inductive invariant.                                                *)

(* NeverAhead, for one tab. *)
Behind(t) == /\ local[t].ver <= row.ver /\ run[t].old.ver <= row.ver
             /\ run[t].ver <= row.ver /\ fetch[t].got.ver <= row.ver

(* What carries the plan of a tab: while a run is past its plan, or only probes,
   it is the timer or another run in the queue; a mark counts for an idle tab,
   since the success of the run in flight would take it away. *)
Carried(t) ==
    plan[t].keys # {} \/ plan[t].meta =>
      \/ timer[t] \/ queue[t] # <<>>
      \/ run[t].pc \in {"version", "load"} /\ ~run[t].probe
      \/ run[t].pc = "idle" /\ marked[t]

TabInv(t) == Behind(t) /\ Carried(t)

IInv == TypeOK /\ \A t \in Tab : TabInv(t)

(* A step of the tab t. *)
Kept(t) ==
    /\ row.ver <= row'.ver
    /\ Others(local, local', t) /\ Others(plan, plan', t) /\ Others(timer, timer', t)
    /\ Others(queue, queue', t) /\ Others(run, run', t) /\ Others(fetch, fetch', t)
    /\ Others(marked, marked', t)

LEMMA KeptStep ==
    ASSUME IInv, NEW t \in Tab, TypeOK', Kept(t), TabInv(t)'
    PROVE  IInv'
<1>. SUFFICES ASSUME NEW u \in Tab, u # t PROVE TabInv(u)'
  BY DEF IInv
<1>1. /\ local'[u] = local[u] /\ plan'[u] = plan[u] /\ timer'[u] = timer[u]
      /\ queue'[u] = queue[u] /\ run'[u] = run[u] /\ fetch'[u] = fetch[u] /\ marked'[u] = marked[u]
  BY DEF Kept, Others
<1>2. TabInv(u) /\ TypeOK
  BY DEF IInv
<1>3. row.ver \in Nat /\ row'.ver \in Nat /\ row.ver <= row'.ver
  BY <1>2, Fields, AuditFields DEF Kept, TypeOK
<1>4. /\ local[u].ver \in Nat /\ run[u].old.ver \in Nat /\ run[u].ver \in Nat
      /\ fetch[u].got.ver \in Nat
  BY <1>2, Fields, AuditFields, RunFields, FetchFields
<1>5. Behind(u)'
  BY <1>1, <1>2, <1>3, <1>4 DEF TabInv, Behind
<1>6. Carried(u)'
  BY <1>1, <1>2 DEF TabInv, Carried
<1>. QED
  BY <1>5, <1>6 DEF TabInv

LEMMA InitInv == Init => IInv
<1>. SUFFICES ASSUME Init PROVE IInv
  OBVIOUS
<1>1. row \in Audit /\ row.ver = 1
  <2>1. 1 \in Nat /\ row = [NoAudit EXCEPT !.ver = 1]
    BY DEF Init
  <2>. QED
    BY <2>1, Constants, AuditFields
<1>2. TypeOK
  BY <1>1, Constants, EmptySeq DEF Init, TypeOK, PlanType
<1>3. ASSUME NEW t \in Tab PROVE TabInv(t)
  <2>1. /\ local[t] = row /\ plan[t] = Empty /\ run[t] = NoRun /\ fetch[t] = NoFetch
    BY DEF Init
  <2>2. Behind(t)
    BY <1>1, <2>1, Constants DEF Behind
  <2>3. Carried(t)
    BY <2>1, Constants DEF Carried
  <2>. QED
    BY <2>2, <2>3 DEF TabInv
<1>. QED
  BY <1>2, <1>3 DEF IInv

-----------------------------------------------------------------------------
(* The actions, by families.                                               *)

(* The users' edits. *)
LEMMA EditedStep ==
    ASSUME IInv, NEW t \in Tab, NEW a \in Audit, NEW p \in PlanType, NEW mixed,
           a.ver = local[t].ver, Edited(t, a, p, mixed),
           timer' \in [Tab -> BOOLEAN], queue' \in [Tab -> Seq(Kind)],
           Others(timer, timer', t), Others(queue, queue', t),
           timer'[t] \/ queue'[t] # <<>>
    PROVE  IInv'
<1>0. TypeOK
  BY DEF IInv
<1>1. /\ local' \in [Tab -> Audit] /\ local'[t] = a /\ Others(local, local', t)
      /\ plan' \in [Tab -> PlanType] /\ Others(plan, plan', t)
  BY <1>0, SetLocalStep, SetPlanStep DEF Edited, SetLocal, SetPlan
<1>2. risk' \in [Tab -> SUBSET Risk]
  <2>. DEFINE causes == {c \in Risk : \/ c = "window" /\ run[t].pc # "idle"
                                      \/ c = "mixed" /\ mixed
                                      \/ c = "lost" /\ Unsynced(local[t]) /\ ~Planned(plan[t])}
  <2>1. causes \in SUBSET Risk /\ Exposed(t, causes)
    BY DEF Edited
  <2>. QED
    BY <1>0, <2>1, ExposedStep
<1>3. UNCHANGED <<row, run, fetch, marked, faults>> /\ edits' \in Nat /\ now' \in Nat
  BY <1>0 DEF Edited, TypeOK
<1>4. TypeOK'
  BY <1>0, <1>1, <1>2, <1>3 DEF TypeOK, PlanType
<1>5. Kept(t)
  <2>1. row.ver \in Nat
    BY <1>0, Fields
  <2>. QED
    BY <1>1, <1>3, <2>1 DEF Kept, Others
<1>6. TabInv(t)'
  <2>1. TabInv(t)
    BY DEF IInv
  <2>. QED
    BY <1>1, <1>3, <2>1 DEF TabInv, Behind, Carried
<1>. QED
  BY <1>4, <1>5, <1>6, KeptStep

LEMMA TimerSet ==
    ASSUME TypeOK, NEW t \in Tab, timer' = [timer EXCEPT ![t] = TRUE], UNCHANGED queue
    PROVE  /\ timer' \in [Tab -> BOOLEAN] /\ Others(timer, timer', t) /\ timer'[t]
           /\ queue' \in [Tab -> Seq(Kind)] /\ Others(queue, queue', t)
  BY DEF TypeOK, Others

(* Only a run is chained: the timer, leaving a view, the retry. *)
LEMMA ChainedStep ==
    ASSUME IInv, NEW t \in Tab, NEW k \in Kind, Enqueue(t, k),
           UNCHANGED <<row, now, local, plan, run, fetch, marked, risk, edits, faults>>
    PROVE  IInv'
<1>0. TypeOK /\ TabInv(t)
  BY DEF IInv
<1>1. /\ queue' \in [Tab -> Seq(Kind)] /\ queue'[t] # <<>> /\ Others(queue, queue', t)
      /\ timer' \in [Tab -> BOOLEAN] /\ Others(timer, timer', t)
  BY <1>0, EnqueueStep
<1>2. TypeOK'
  BY <1>0, <1>1 DEF TypeOK
<1>3. Kept(t)
  BY <1>0, <1>1, Fields DEF Kept, Others
<1>4. TabInv(t)'
  BY <1>0, <1>1 DEF TabInv, Behind, Carried
<1>. QED
  BY <1>2, <1>3, <1>4, KeptStep

LEMMA UserStep ==
    ASSUME IInv, NEW t \in Tab, User(t)
    PROVE  IInv'
<1>0. TypeOK /\ TabInv(t)
  BY DEF IInv
<1>01. local[t] \in Audit /\ now \in Nat /\ now + 1 \in Nat
  BY <1>0, Fields
<1>1. ASSUME NEW k \in Req, EditRequirement(t, k) PROVE IInv'
  <2>. DEFINE a == Touched([local[t] EXCEPT !.req[k] = now + 1])
  <2>1. a \in Audit /\ a.ver = local[t].ver
    BY <1>01, EditTypes, TouchedType
  <2>2. NoteReq(plan[t], k) \in PlanType
    BY <1>0, Fields, PlanTypes
  <2>3. Edited(t, a, NoteReq(plan[t], k), plan[t].meta)
    BY <1>1 DEF EditRequirement
  <2>. HIDE DEF a
  <2>. QED
    BY <1>0, <1>1, <2>1, <2>2, <2>3, TimerSet, EditedStep DEF EditRequirement
<1>2. CASE EditMetadata(t)
  <2>. DEFINE a == Touched([local[t] EXCEPT !.meta = now + 1])
  <2>1. a \in Audit /\ a.ver = local[t].ver
    BY <1>01, EditTypes, TouchedType
  <2>2. NoteMeta(plan[t]) \in PlanType
    BY <1>0, Fields, MetaType
  <2>3. Edited(t, a, NoteMeta(plan[t]), plan[t].keys # {})
    BY <1>2 DEF EditMetadata
  <2>. HIDE DEF a
  <2>. QED
    BY <1>0, <1>2, <2>1, <2>2, <2>3, TimerSet, EditedStep DEF EditMetadata
<1>3. ASSUME NEW s \in Status, SetStatus(t, s) PROVE IInv'
  <2>. DEFINE a == [local[t] EXCEPT !.status = s, !.lc = now + 1]
  <2>1. a \in Audit /\ a.ver = local[t].ver
    BY <1>01, EditTypes
  <2>2. Edited(t, a, NoteFull, FALSE) /\ Enqueue(t, "sync")
    BY <1>3 DEF SetStatus
  <2>. HIDE DEF a
  <2>. QED
    BY <1>0, <2>1, <2>2, Constants, EnqueueStep, EditedStep DEF Kind
<1>4. ASSUME NEW k \in Req, LeaveRequirement(t, k) PROVE IInv'
  <2>. DEFINE p == IF TakenForSynced(local[t]) THEN Drop(plan[t], k) ELSE plan[t]
  <2>1. p \in PlanType
    BY <1>0, Fields, PlanTypes
  <2>2. SetPlan(t, p) /\ UNCHANGED <<row, now, local, run, fetch, marked, edits, faults>>
    BY <1>4 DEF LeaveRequirement, SetPlan
  <2>3. \/ Enqueue(t, "nav")
        \/ ~Planned(p) /\ UNCHANGED <<timer, queue>>
    BY <1>4 DEF LeaveRequirement
  <2>4. risk' \in [Tab -> SUBSET Risk]
    <3>. DEFINE causes == IF p = plan[t] THEN {}
                          ELSE IF ~Unsynced(local[t]) THEN {"unstamped"}
                          ELSE IF p.keys # {} THEN {"dropped"} ELSE {}
    <3>1. causes \in SUBSET Risk /\ Exposed(t, causes)
      BY <1>4 DEF LeaveRequirement, Risk
    <3>. HIDE DEF causes
    <3>. QED
      BY <1>0, <3>1, ExposedStep
  <2>. HIDE DEF p
  <2>5. plan' \in [Tab -> PlanType] /\ plan'[t] = p /\ Others(plan, plan', t)
    BY <1>0, <2>1, <2>2, SetPlanStep
  <2>6. /\ queue' \in [Tab -> Seq(Kind)] /\ Others(queue, queue', t)
        /\ timer' \in [Tab -> BOOLEAN] /\ Others(timer, timer', t)
        /\ queue'[t] # <<>> \/ ~Planned(p)
    BY <1>0, <2>3, EnqueueStep DEF Kind, TypeOK, Others
  <2>7. TypeOK'
    BY <1>0, <2>2, <2>4, <2>5, <2>6 DEF TypeOK, PlanType
  <2>8. Kept(t)
    BY <1>0, <2>2, <2>5, <2>6, Fields DEF Kept, Others
  <2>9. TabInv(t)'
    BY <1>0, <2>2, <2>5, <2>6 DEF TabInv, Behind, Carried, Planned
  <2>. QED
    BY <2>7, <2>8, <2>9, KeptStep
<1>5. CASE LeaveView(t)
  BY <1>0, <1>5, ChainedStep DEF LeaveView, Kind
<1>. QED
  BY <1>1, <1>2, <1>3, <1>4, <1>5 DEF User

(* A step of the engine in the tab t: what has to be seen of it. *)
LEMMA EngineKept ==
    ASSUME IInv, NEW t \in Tab,
           row' \in Audit, row.ver <= row'.ver, now' \in Nat, faults' \in Nat,
           local' \in [Tab -> Audit], Others(local, local', t),
           plan' \in [Tab -> PlanType], Others(plan, plan', t),
           timer' \in [Tab -> BOOLEAN], Others(timer, timer', t),
           queue' \in [Tab -> Seq(Kind)], Others(queue, queue', t),
           run' \in [Tab -> Run], Others(run, run', t),
           marked' \in [Tab -> BOOLEAN], Others(marked, marked', t),
           risk' \in [Tab -> SUBSET Risk], UNCHANGED <<fetch, edits>>,
           Behind(t)', Carried(t)'
    PROVE  IInv'
<1>1. TypeOK'
  BY DEF IInv, TypeOK, PlanType
<1>2. Kept(t)
  BY DEF Kept, Others
<1>. QED
  BY <1>1, <1>2, KeptStep DEF TabInv

(* What is left alone is typed and the same. *)
LEMMA Left ==
    ASSUME IInv, NEW t \in Tab
    PROVE  /\ row \in Audit /\ row.ver <= row.ver /\ now \in Nat /\ faults \in Nat
           /\ local \in [Tab -> Audit] /\ Others(local, local, t)
           /\ plan \in [Tab -> PlanType] /\ Others(plan, plan, t)
           /\ timer \in [Tab -> BOOLEAN] /\ Others(timer, timer, t)
           /\ queue \in [Tab -> Seq(Kind)] /\ Others(queue, queue, t)
           /\ run \in [Tab -> Run] /\ Others(run, run, t)
           /\ marked \in [Tab -> BOOLEAN] /\ Others(marked, marked, t)
           /\ risk \in [Tab -> SUBSET Risk]
           /\ row.ver \in Nat
<1>1. TypeOK
  BY DEF IInv
<1>2. row.ver \in Nat /\ row.ver <= row.ver
  BY <1>1, Fields
<1>. QED
  BY <1>1, <1>2 DEF TypeOK, PlanType, Others

LEMMA StartStep ==
    ASSUME IInv, NEW t \in Tab, Start(t)
    PROVE  IInv'
<1>. DEFINE idle == ~Unsynced(local[t]) /\ ~Planned(plan[t])
            r    == [NoRun EXCEPT !.pc = "version", !.kind = Head(queue[t]), !.old = local[t],
                                  !.probe = idle]
<1>0. TypeOK /\ TabInv(t)
  BY DEF IInv
<1>1. /\ run[t].pc = "idle" /\ queue[t] # <<>>
      /\ queue' = [queue EXCEPT ![t] = Tail(queue[t])]
      /\ UNCHANGED <<row, now, local, timer, fetch, marked, risk, edits, faults>>
      /\ \/ Goto(t, r) /\ UNCHANGED plan
         \/ idle /\ UNCHANGED <<run, plan>>
         \/ Resolve(t, r, local[t])
  BY DEF Start
<1>2. queue[t] \in Seq(Kind) /\ local[t] \in Audit
  BY <1>0, Fields
<1>3. Head(queue[t]) \in Kind /\ Tail(queue[t]) \in Seq(Kind)
  BY <1>1, <1>2, HeadTailProperties
<1>4. queue' \in [Tab -> Seq(Kind)] /\ Others(queue, queue', t)
  BY <1>0, <1>1, <1>3 DEF TypeOK, Others
<1>5. idle \in BOOLEAN
  BY DEF Planned, Unsynced
<1>. HIDE DEF idle
<1>6. r \in Run /\ r.pc = "version" /\ r.old = local[t] /\ r.ver = 0 /\ r.probe = idle
  <2>. DEFINE k == Head(queue[t])
              a == local[t]
              s == [NoRun EXCEPT !.pc = "version", !.kind = k, !.old = a, !.probe = idle]
  <2>1. k \in Kind /\ a \in Audit
    BY <1>2, <1>3
  <2>. HIDE DEF k, a
  <2>2. s \in Run
    BY <1>5, <2>1, FreshRun DEF Run
  <2>3. s.pc = "version" /\ s.old = a /\ s.ver = 0 /\ s.probe = idle
    BY <1>5, <2>1, <2>2, FreshRun DEF Run
  <2>. QED
    BY <2>2, <2>3 DEF k, a
<1>. HIDE DEF r
<1>7. /\ run' \in [Tab -> Run] /\ Others(run, run', t)
      /\ plan' \in [Tab -> PlanType] /\ Others(plan, plan', t)
      /\ \/ run'[t] = r /\ plan' = plan
         \/ idle /\ run'[t] = run[t] /\ plan' = plan
         \/ /\ run'[t].old = local[t] /\ run'[t].ver = 0
            /\ plan'[t].keys = {} /\ plan'[t].meta = FALSE
  <2>1. CASE Goto(t, r) /\ UNCHANGED plan
    BY <1>0, <1>6, <2>1, GotoStep, Left
  <2>2. CASE idle /\ UNCHANGED <<run, plan>>
    BY <2>2, Left
  <2>3. CASE Resolve(t, r, local[t])
    <3>. DEFINE a == local[t]
    <3>1. TypeOK /\ a \in Audit /\ r \in Run /\ Resolve(t, r, a)
      BY <1>0, <1>2, <1>6, <2>3
    <3>. HIDE DEF a
    <3>2. /\ run' \in [Tab -> Run] /\ Others(run, run', t)
          /\ run'[t].pc = "send" /\ run'[t].old = a /\ run'[t].ver = r.ver
          /\ plan' \in [Tab -> PlanType] /\ Others(plan, plan', t)
          /\ plan'[t].keys = {} /\ plan'[t].meta = FALSE
      BY <3>1, ResolveStep
    <3>. QED
      BY <1>6, <3>2 DEF a
  <2>. QED
    BY <1>1, <2>1, <2>2, <2>3
<1>8. Behind(t)'
  BY <1>0, <1>1, <1>6, <1>7, Fields DEF TabInv, Behind
<1>9. Carried(t)'
  BY <1>0, <1>1, <1>6, <1>7 DEF TabInv, Carried, idle, Planned
<1>. QED
  BY <1>1, <1>4, <1>7, <1>8, <1>9, Left, EngineKept

(* While a run prepares, what it had to carry of the plan it carries on, or it
   was only a probe. *)
LEMMA VersionStep ==
    ASSUME IInv, NEW t \in Tab, VersionAnswer(t)
    PROVE  IInv'
<1>0. TypeOK /\ TabInv(t)
  BY DEF IInv
<1>1. /\ run[t].pc = "version"
      /\ UNCHANGED <<row, now, local, timer, queue, fetch, marked, risk, edits, faults>>
  BY DEF VersionAnswer
<1>2. run[t] \in Run /\ run[t].old \in Audit
  BY <1>0, Fields, RunFields
<1>3. CASE Prepared(t, run[t].old)
  <2>1. /\ run' \in [Tab -> Run] /\ Others(run, run', t)
        /\ plan' \in [Tab -> PlanType] /\ Others(plan, plan', t)
        /\ \/ run[t].probe /\ run'[t] = NoRun /\ plan' = plan
           \/ /\ plan'[t].keys = {} /\ plan'[t].meta = FALSE
              /\ run'[t].old = run[t].old /\ run'[t].ver = run[t].ver
    BY <1>0, <1>2, <1>3, PreparedStep
  <2>2. Behind(t)'
    BY <1>0, <1>1, <2>1, Constants, Left DEF TabInv, Behind
  <2>3. Carried(t)'
    BY <1>0, <1>1, <2>1 DEF TabInv, Carried
  <2>. QED
    BY <1>1, <2>1, <2>2, <2>3, Left, EngineKept
<1>4. ASSUME NEW b \in BOOLEAN,
             Goto(t, [run[t] EXCEPT !.pc = "load", !.ver = row.ver, !.prefer = b]), UNCHANGED plan
      PROVE  IInv'
  <2>. DEFINE r == [run[t] EXCEPT !.pc = "load", !.ver = row.ver, !.prefer = b]
  <2>1. r \in Run /\ r.pc = "load" /\ r.old = run[t].old /\ r.ver = row.ver /\ r.probe = run[t].probe
    BY <1>2, Left DEF Run, Steps
  <2>. HIDE DEF r
  <2>2. run' \in [Tab -> Run] /\ run'[t] = r /\ Others(run, run', t)
    BY <1>0, <1>4, <2>1, GotoStep DEF r
  <2>3. Behind(t)'
    BY <1>0, <1>1, <2>1, <2>2, Left DEF TabInv, Behind
  <2>4. Carried(t)'
    BY <1>0, <1>1, <1>4, <2>1, <2>2 DEF TabInv, Carried
  <2>. QED
    BY <1>1, <1>4, <2>2, <2>3, <2>4, Left, EngineKept
<1>5. (~run[t].probe /\ plan[t].full) \in BOOLEAN
  OBVIOUS
<1>. QED
  BY <1>3, <1>4, <1>5 DEF VersionAnswer

LEMMA LoadStep ==
    ASSUME IInv, NEW t \in Tab, LoadAnswer(t)
    PROVE  IInv'
<1>0. TypeOK /\ TabInv(t)
  BY DEF IInv
<1>1. run[t].pc = "load" /\ UNCHANGED <<row, queue, fetch, risk, edits, faults>>
  BY DEF LoadAnswer
<1>2. run[t] \in Run /\ run[t].old \in Audit /\ run[t].ver \in Nat /\ now + 1 \in Nat
  BY <1>0, Fields, RunFields
<1>3. CASE /\ now' = now + 1 /\ Replace(t, Stamped(row, now'))
           /\ Mark(t, FALSE) /\ Goto(t, NoRun)
  <2>. DEFINE a == Stamped(row, now + 1)
  <2>1. a \in Audit /\ a.ver = row.ver
    BY <1>2, Left, StampedType
  <2>2. Replace(t, a)
    BY <1>3
  <2>. HIDE DEF a
  <2>3. /\ local' \in [Tab -> Audit] /\ local'[t] = a /\ Others(local, local', t)
        /\ plan' \in [Tab -> PlanType] /\ plan'[t] = Empty /\ Others(plan, plan', t)
        /\ timer' \in [Tab -> BOOLEAN] /\ Others(timer, timer', t)
    BY <1>0, <2>1, <2>2, ReplaceStep
  <2>4. /\ run' \in [Tab -> Run] /\ run'[t] = NoRun /\ Others(run, run', t)
        /\ marked' \in [Tab -> BOOLEAN] /\ Others(marked, marked', t)
    BY <1>0, <1>3, GotoStep, MarkStep, Constants
  <2>5. Behind(t)'
    BY <1>0, <1>1, <2>1, <2>3, <2>4, Constants, Left DEF TabInv, Behind
  <2>6. Carried(t)'
    BY <2>3, Constants DEF Carried
  <2>. QED
    BY <1>1, <1>2, <1>3, <2>3, <2>4, <2>5, <2>6, Left, EngineKept
<1>4. CASE /\ SetLocal(t, [local[t] EXCEPT !.ver = run[t].ver])
           /\ Prepared(t, [run[t].old EXCEPT !.ver = run[t].ver])
           /\ UNCHANGED <<now, timer, marked>>
  <2>. DEFINE a == [local[t] EXCEPT !.ver = run[t].ver]
              b == [run[t].old EXCEPT !.ver = run[t].ver]
  <2>1. local[t] \in Audit
    BY <1>0, Fields
  <2>2. /\ a \in Audit /\ a.ver = run[t].ver
        /\ b \in Audit /\ b.ver = run[t].ver
    BY <1>2, <2>1, VersionType
  <2>3. SetLocal(t, a) /\ Prepared(t, b)
    BY <1>4
  <2>. HIDE DEF a, b
  <2>4. local' \in [Tab -> Audit] /\ local'[t] = a /\ Others(local, local', t)
    BY <1>0, <2>2, <2>3, SetLocalStep
  <2>5. /\ run' \in [Tab -> Run] /\ Others(run, run', t)
        /\ plan' \in [Tab -> PlanType] /\ Others(plan, plan', t)
        /\ \/ run[t].probe /\ run'[t] = NoRun /\ plan' = plan
           \/ /\ plan'[t].keys = {} /\ plan'[t].meta = FALSE
              /\ run'[t].old = b /\ run'[t].ver = run[t].ver
    BY <1>0, <2>2, <2>3, PreparedStep
  <2>6. Behind(t)'
    BY <1>0, <1>1, <2>2, <2>4, <2>5, Constants, Left DEF TabInv, Behind
  <2>7. Carried(t)'
    BY <1>0, <1>1, <1>4, <2>5 DEF TabInv, Carried
  <2>. QED
    BY <1>1, <1>4, <2>4, <2>5, <2>6, <2>7, Left, EngineKept
<1>. QED
  BY <1>3, <1>4 DEF LoadAnswer

LEMMA PrepareLostStep ==
    ASSUME IInv, NEW t \in Tab, PrepareLost(t)
    PROVE  IInv'
<1>0. TypeOK /\ TabInv(t)
  BY DEF IInv
<1>1. /\ run[t].pc \in {"version", "load"} /\ Prepared(t, run[t].old)
      /\ UNCHANGED <<row, now, local, timer, queue, fetch, marked, risk, edits>>
      /\ faults' = faults + 1
  BY DEF PrepareLost, Fault
<1>2. run[t] \in Run /\ run[t].old \in Audit /\ faults' \in Nat
  BY <1>0, <1>1, Fields, RunFields, Left
<1>3. /\ run' \in [Tab -> Run] /\ Others(run, run', t)
      /\ plan' \in [Tab -> PlanType] /\ Others(plan, plan', t)
      /\ \/ run[t].probe /\ run'[t] = NoRun /\ plan' = plan
         \/ /\ plan'[t].keys = {} /\ plan'[t].meta = FALSE
            /\ run'[t].old = run[t].old /\ run'[t].ver = run[t].ver
  BY <1>0, <1>1, <1>2, PreparedStep
<1>4. Behind(t)'
  BY <1>0, <1>1, <1>3, Constants, Left DEF TabInv, Behind
<1>5. Carried(t)'
  BY <1>0, <1>1, <1>3 DEF TabInv, Carried
<1>. QED
  BY <1>1, <1>2, <1>3, <1>4, <1>5, Left, EngineKept

(* A run that goes from one of its later steps to another leaves the plan, and
   what carries it, alone. *)
LEMMA SentStep ==
    ASSUME IInv, NEW t \in Tab, NEW r \in Run, Goto(t, r),
           row' \in Audit, row.ver <= row'.ver, r.old.ver <= row'.ver, r.ver <= row'.ver,
           run[t].pc \notin {"idle", "version", "load"},
           UNCHANGED <<now, local, plan, timer, queue, fetch, marked, risk, edits, faults>>
    PROVE  IInv'
<1>0. TypeOK /\ TabInv(t)
  BY DEF IInv
<1>1. run' \in [Tab -> Run] /\ run'[t] = r /\ Others(run, run', t)
  BY <1>0, GotoStep
<1>2. /\ row.ver \in Nat /\ row'.ver \in Nat /\ local[t].ver \in Nat /\ fetch[t].got.ver \in Nat
  BY <1>0, Fields, AuditFields, FetchFields
<1>3. Behind(t)'
  BY <1>0, <1>1, <1>2 DEF TabInv, Behind
<1>4. Carried(t)'
  BY <1>0, <1>1 DEF TabInv, Carried
<1>. QED
  BY <1>1, <1>3, <1>4, Left, EngineKept

LEMMA SelectStep ==
    ASSUME IInv, NEW t \in Tab, Select(t)
    PROVE  IInv'
<1>. DEFINE r == [run[t] EXCEPT !.pc = "write", !.seen = row.req]
<1>0. TypeOK /\ TabInv(t) /\ run[t] \in Run /\ row.req \in [Req -> Nat]
  BY Fields, AuditFields, Left DEF IInv
<1>1. r \in Run /\ r.old = run[t].old /\ r.ver = run[t].ver
  BY <1>0 DEF Run, Steps, Time
<1>2. Goto(t, r) /\ run[t].pc = "send" /\ UNCHANGED row
      /\ UNCHANGED <<now, local, plan, timer, queue, fetch, marked, risk, edits, faults>>
  BY DEF Select
<1>. HIDE DEF r
<1>. QED
  BY <1>0, <1>1, <1>2, Left, SentStep DEF TabInv, Behind

(* The version the server gives out with a write is the one the answer brings. *)
LEMMA WrittenStep ==
    ASSUME IInv, NEW t \in Tab, NEW a \in Audit, row' = a, a.ver = row.ver + 1,
           Goto(t, [run[t] EXCEPT !.pc = "answer", !.ver = row.ver + 1]),
           run[t].pc \notin {"idle", "version", "load"},
           UNCHANGED <<now, local, plan, timer, queue, fetch, marked, risk, edits, faults>>
    PROVE  IInv'
<1>. DEFINE r == [run[t] EXCEPT !.pc = "answer", !.ver = row.ver + 1]
<1>0. TypeOK /\ TabInv(t) /\ run[t] \in Run /\ row.ver \in Nat
  BY Fields, Left DEF IInv
<1>1. row.ver + 1 \in Nat
  BY <1>0
<1>2. r \in Run /\ r.old = run[t].old /\ r.ver = row.ver + 1
  BY <1>0, <1>1 DEF Run, Steps
<1>3. Goto(t, r)
  OBVIOUS
<1>. HIDE DEF r
<1>4. r.old.ver \in Nat /\ r.old.ver <= row.ver
  BY <1>0, <1>2, AuditFields, RunFields DEF TabInv, Behind
<1>5. row' \in Audit /\ row.ver <= row'.ver /\ r.old.ver <= row'.ver /\ r.ver <= row'.ver
  BY <1>0, <1>2, <1>4
<1>. QED
  BY <1>2, <1>3, <1>5, SentStep

LEMMA WriteResultStep ==
    ASSUME IInv, NEW t \in Tab, WriteResult(t)
    PROVE  IInv'
<1>. DEFINE q == [k \in Req |-> IF k \in run[t].key THEN run[t].old.req[k] ELSE run[t].seen[k]]
            a == [row EXCEPT !.ver = row.ver + 1, !.req = q]
<1>1. run[t] \in Run /\ row \in Audit /\ row.ver + 1 \in Nat
  BY Fields, Left DEF IInv
<1>2. run[t].old.req \in [Req -> Nat] /\ run[t].seen \in [Req -> Nat]
  BY <1>1, AuditFields, RunFields
<1>3. q \in [Req -> Nat]
  BY <1>2
<1>4. run[t].pc = "write" /\ row' = a
      /\ Goto(t, [run[t] EXCEPT !.pc = "answer", !.ver = row.ver + 1])
      /\ UNCHANGED <<now, local, plan, timer, queue, fetch, marked, risk, edits, faults>>
  BY DEF WriteResult
<1>. HIDE DEF q
<1>5. a \in Audit /\ a.ver = row.ver + 1
  BY <1>1, <1>3 DEF Audit, Time
<1>. HIDE DEF a
<1>. QED
  BY <1>4, <1>5, WrittenStep

LEMMA AcceptStep ==
    ASSUME IInv, NEW t \in Tab, Accept(t)
    PROVE  IInv'
<1>. DEFINE a == IF run[t].mode = "meta" THEN [Sent(run[t].old) EXCEPT !.req = row.req]
                                         ELSE Sent(run[t].old)
<1>1. run[t] \in Run /\ run[t].old \in Audit /\ row \in Audit /\ row.ver + 1 \in Nat
  BY Fields, RunFields, Left DEF IInv
<1>2. run[t].pc = "send" /\ row' = a
      /\ Goto(t, [run[t] EXCEPT !.pc = "answer", !.ver = row.ver + 1])
      /\ UNCHANGED <<now, local, plan, timer, queue, fetch, marked, risk, edits, faults>>
  BY DEF Accept
<1>3. Sent(run[t].old) \in Audit /\ Sent(run[t].old).ver = row.ver + 1
  BY <1>1, VersionType DEF Sent
<1>4. row.req \in [Req -> Nat]
  BY <1>1, AuditFields
<1>5. a \in Audit /\ a.ver = row.ver + 1
  BY <1>3, <1>4 DEF Audit, Time
<1>. HIDE DEF a
<1>. QED
  BY <1>2, <1>5, WrittenStep

(* A failed PATCH: a full one follows, or the run gives up. *)
LEMMA FailedStep ==
    ASSUME IInv, NEW t \in Tab, Fallback(t, GiveUp(t)), faults' \in Nat,
           run[t].pc \notin {"idle", "version", "load"},
           UNCHANGED <<row, now, local, timer, queue, fetch, edits>>
    PROVE  IInv'
<1>0. TypeOK /\ TabInv(t)
  BY DEF IInv
<1>1. CASE run[t].mode \in {"single", "meta"}
  <2>1. /\ run' \in [Tab -> Run] /\ Others(run, run', t)
        /\ run'[t].old = run[t].old /\ run'[t].ver = run[t].ver
        /\ plan' \in [Tab -> PlanType] /\ Others(plan, plan', t)
        /\ plan'[t].keys = {} /\ plan'[t].meta = FALSE
        /\ UNCHANGED <<marked, risk>>
    BY <1>0, <1>1, FallbackStep DEF Fallback
  <2>2. Behind(t)' /\ Carried(t)'
    BY <1>0, <2>1 DEF TabInv, Behind, Carried
  <2>. QED
    BY <2>1, <2>2, Left, EngineKept
<1>2. CASE run[t].mode \notin {"single", "meta"}
  <2>1. GiveUp(t) /\ UNCHANGED plan
    BY <1>2 DEF Fallback
  <2>2. /\ run' \in [Tab -> Run] /\ run'[t] = NoRun /\ Others(run, run', t)
        /\ marked' \in [Tab -> BOOLEAN] /\ Others(marked, marked', t)
        /\ risk' \in [Tab -> SUBSET Risk]
    BY <1>0, <2>1, GiveUpStep
  <2>3. Behind(t)'
    BY <1>0, <2>2, Constants, Left DEF TabInv, Behind
  <2>4. Carried(t)'
    BY <1>0, <2>1, <2>2 DEF TabInv, Carried
  <2>. QED
    BY <2>1, <2>2, <2>3, <2>4, Left, EngineKept
<1>. QED
  BY <1>1, <1>2

LEMMA RefuseStep ==
    ASSUME IInv, NEW t \in Tab, Refuse(t)
    PROVE  IInv'
<1>1. /\ run[t].pc = "send"
      /\ UNCHANGED <<row, now, local, timer, queue, fetch, edits, faults>>
  BY DEF Refuse
<1>2. CASE run[t].mode \in {"single", "meta", "retry"}
  <2>1. Fallback(t, GiveUp(t))
    BY <1>2 DEF Refuse, Fallback
  <2>. QED
    BY <1>1, <2>1, Left, FailedStep
<1>3. CASE run[t].mode \notin {"single", "meta", "retry"}
  <2>. DEFINE r == [run[t] EXCEPT !.pc = "conflict"]
  <2>1. Goto(t, r) /\ UNCHANGED <<marked, risk, plan>>
    BY <1>3 DEF Refuse, Fallback
  <2>2. run[t] \in Run /\ TabInv(t)
    BY Left DEF IInv
  <2>3. r \in Run /\ r.old = run[t].old /\ r.ver = run[t].ver
    BY <2>2 DEF Run, Steps
  <2>. HIDE DEF r
  <2>. QED
    BY <1>1, <2>1, <2>2, <2>3, Left, SentStep DEF TabInv, Behind
<1>. QED
  BY <1>2, <1>3

LEMMA ConflictStep ==
    ASSUME IInv, NEW t \in Tab, Conflict(t)
    PROVE  IInv'
<1>0. TypeOK /\ TabInv(t) /\ run[t] \in Run
  BY Left DEF IInv
<1>1. run[t].pc = "conflict" /\ UNCHANGED <<row, now, queue, fetch, risk, edits, faults>>
  BY DEF Conflict
<1>2. CASE Replace(t, row) /\ Mark(t, FALSE) /\ Goto(t, NoRun)
  <2>1. /\ local' \in [Tab -> Audit] /\ local'[t] = row /\ Others(local, local', t)
        /\ plan' \in [Tab -> PlanType] /\ plan'[t] = Empty /\ Others(plan, plan', t)
        /\ timer' \in [Tab -> BOOLEAN] /\ Others(timer, timer', t)
    BY <1>0, <1>2, ReplaceStep, Left
  <2>2. /\ run' \in [Tab -> Run] /\ run'[t] = NoRun /\ Others(run, run', t)
        /\ marked' \in [Tab -> BOOLEAN] /\ Others(marked, marked', t)
    BY <1>0, <1>2, GotoStep, MarkStep, Constants
  <2>3. Behind(t)'
    BY <1>0, <1>1, <2>1, <2>2, Constants, Left DEF TabInv, Behind
  <2>4. Carried(t)'
    BY <2>1, Constants DEF Carried
  <2>. QED
    BY <1>1, <2>1, <2>2, <2>3, <2>4, Left, EngineKept
<1>3. CASE /\ SetPlan(t, NoteFull)
           /\ Goto(t, [run[t] EXCEPT !.pc = "send", !.mode = "retry", !.old.ver = row.ver])
           /\ UNCHANGED <<local, timer, marked>>
  <2>. DEFINE a == [run[t].old EXCEPT !.ver = row.ver]
              r == [run[t] EXCEPT !.pc = "send", !.mode = "retry", !.old = a]
  <2>1. a \in Audit /\ a.ver = row.ver
    BY <1>0, RunFields, VersionType, Left
  <2>2. Goto(t, r)
    BY <1>0, <1>3 DEF Run
  <2>. HIDE DEF a
  <2>3. r \in Run /\ r.old = a /\ r.ver = run[t].ver
    BY <1>0, <2>1 DEF Run, Steps, Modes
  <2>. HIDE DEF r
  <2>4. /\ run' \in [Tab -> Run] /\ run'[t] = r /\ Others(run, run', t)
        /\ plan' \in [Tab -> PlanType] /\ plan'[t] = NoteFull /\ Others(plan, plan', t)
    BY <1>0, <1>3, <2>2, <2>3, GotoStep, SetPlanStep, Constants
  <2>5. Behind(t)'
    BY <1>0, <1>1, <1>3, <2>1, <2>3, <2>4, Left DEF TabInv, Behind
  <2>6. Carried(t)'
    BY <2>4, Constants DEF Carried
  <2>. QED
    BY <1>1, <1>3, <2>4, <2>5, <2>6, Left, EngineKept
<1>. QED
  BY <1>2, <1>3 DEF Conflict

LEMMA SuccessStep ==
    ASSUME IInv, NEW t \in Tab, Success(t)
    PROVE  IInv'
<1>. DEFINE b == [local[t] EXCEPT !.ver = run[t].ver]
            a == Stamped(b, now + 1)
<1>0. TypeOK /\ TabInv(t) /\ run[t] \in Run /\ local[t] \in Audit /\ now + 1 \in Nat
  BY Fields DEF IInv
<1>1. /\ run[t].pc = "answer" /\ now' = now + 1
      /\ SetLocal(t, a) /\ Mark(t, FALSE) /\ Goto(t, NoRun)
      /\ UNCHANGED <<row, plan, timer, queue, fetch, risk, edits, faults>>
  BY DEF Success
<1>2. b \in Audit /\ b.ver = run[t].ver
  BY <1>0, RunFields, VersionType
<1>. HIDE DEF b
<1>3. a \in Audit /\ a.ver = run[t].ver
  BY <1>0, <1>2, StampedType
<1>. HIDE DEF a
<1>4. /\ local' \in [Tab -> Audit] /\ local'[t] = a /\ Others(local, local', t)
      /\ run' \in [Tab -> Run] /\ run'[t] = NoRun /\ Others(run, run', t)
      /\ marked' \in [Tab -> BOOLEAN] /\ Others(marked, marked', t)
  BY <1>0, <1>1, <1>3, SetLocalStep, GotoStep, MarkStep, Constants
<1>5. Behind(t)'
  BY <1>0, <1>1, <1>3, <1>4, Constants, Left DEF TabInv, Behind
<1>6. Carried(t)'
  BY <1>0, <1>1, <1>4 DEF TabInv, Carried
<1>. QED
  BY <1>0, <1>1, <1>4, <1>5, <1>6, Left, EngineKept

LEMMA OfflineStep ==
    ASSUME IInv, NEW t \in Tab, StartOffline(t)
    PROVE  IInv'
<1>0. TypeOK /\ TabInv(t)
  BY DEF IInv
<1>1. /\ run[t].pc = "idle" /\ queue[t] # <<>> /\ faults' = faults + 1 /\ Mark(t, TRUE)
      /\ queue' = [queue EXCEPT ![t] = Tail(queue[t])]
      /\ UNCHANGED <<row, now, local, plan, timer, run, fetch, risk, edits>>
  BY DEF StartOffline, Fault
<1>2. faults' \in Nat
  BY <1>1, Left
<1>3. Tail(queue[t]) \in Seq(Kind)
  BY <1>0, <1>1, Fields, HeadTailProperties
<1>4. queue' \in [Tab -> Seq(Kind)] /\ Others(queue, queue', t)
  BY <1>1, <1>3, Left DEF Others
<1>5. marked' \in [Tab -> BOOLEAN] /\ marked'[t] /\ Others(marked, marked', t)
  BY <1>0, <1>1, MarkStep
<1>6. Behind(t)' /\ Carried(t)'
  BY <1>0, <1>1, <1>5 DEF TabInv, Behind, Carried
<1>. QED
  BY <1>1, <1>2, <1>4, <1>5, <1>6, Left, EngineKept

(* The reloads outside the queue. *)
LEMMA FetchedStep ==
    ASSUME IInv, NEW t \in Tab, NEW f \in Fetch, FetchAt(t, f), f.got.ver <= row.ver,
           \/ UNCHANGED <<local, plan, timer>>
           \/ Replace(t, fetch[t].got)
    PROVE  IInv'
<1>0. TypeOK /\ TabInv(t)
  BY DEF IInv
<1>1. UNCHANGED <<row, now, queue, run, marked, risk, edits, faults>>
  BY DEF FetchAt
<1>2. fetch' \in [Tab -> Fetch] /\ fetch'[t] = f /\ Others(fetch, fetch', t)
  BY <1>0 DEF FetchAt, TypeOK, Others
<1>3. fetch[t].got \in Audit
  BY <1>0, Fields, FetchFields
<1>4. /\ local' \in [Tab -> Audit] /\ Others(local, local', t)
      /\ plan' \in [Tab -> PlanType] /\ Others(plan, plan', t)
      /\ timer' \in [Tab -> BOOLEAN] /\ Others(timer, timer', t)
      /\ \/ UNCHANGED <<local, plan, timer>>
         \/ local'[t] = fetch[t].got /\ plan'[t] = Empty
  BY <1>0, <1>3, ReplaceStep, Left
<1>5. TypeOK'
  BY <1>0, <1>1, <1>2, <1>4 DEF TypeOK, PlanType
<1>6. Kept(t)
  BY <1>1, <1>2, <1>4, Left DEF Kept, Others
<1>7. Behind(t)'
  BY <1>0, <1>1, <1>2, <1>4 DEF TabInv, Behind
<1>8. Carried(t)'
  BY <1>0, <1>1, <1>4, Constants DEF TabInv, Carried
<1>. QED
  BY <1>5, <1>6, <1>7, <1>8, KeptStep DEF TabInv

LEMMA FetchingStep ==
    ASSUME IInv, NEW t \in Tab, Fetching(t)
    PROVE  IInv'
<1>0. /\ TabInv(t) /\ fetch[t] \in Fetch /\ local[t].ver \in Nat /\ local[t].status \in Status
      /\ row \in Audit /\ row.ver \in Nat /\ row.ver <= row.ver
  BY Fields, AuditFields, Left DEF IInv
<1>1. ASSUME NEW kind \in {"poll", "visible"}, FetchStart(t, kind) PROVE IInv'
  <2>. DEFINE f == [NoFetch EXCEPT !.pc = IF kind = "poll" THEN "version" ELSE "load", !.kind = kind,
                                   !.ver = local[t].ver, !.status = local[t].status]
  <2>1. f \in Fetch /\ f.got = NoAudit
    BY <1>0, Constants DEF Fetch, NoFetch
  <2>2. FetchAt(t, f) /\ UNCHANGED <<local, plan, timer>>
    BY <1>1 DEF FetchStart
  <2>. HIDE DEF f
  <2>. QED
    BY <1>0, <2>1, <2>2, Constants, FetchedStep
<1>2. CASE FetchVersion(t)
  <2>. DEFINE f == [fetch[t] EXCEPT !.pc = "load", !.newer = row.ver]
  <2>1. f \in Fetch /\ f.got = fetch[t].got
    BY <1>0 DEF Fetch
  <2>2. FetchAt(t, f) /\ UNCHANGED <<local, plan, timer>>
    BY <1>2 DEF FetchVersion
  <2>. HIDE DEF f
  <2>. QED
    BY <1>0, <2>1, <2>2, FetchedStep DEF TabInv, Behind
<1>3. CASE FetchLoad(t)
  <2>. DEFINE f == [fetch[t] EXCEPT !.pc = "apply", !.got = row]
  <2>1. f \in Fetch /\ f.got = row
    BY <1>0 DEF Fetch
  <2>2. FetchAt(t, f) /\ UNCHANGED <<local, plan, timer>>
    BY <1>3 DEF FetchLoad
  <2>. HIDE DEF f
  <2>. QED
    BY <1>0, <2>1, <2>2, FetchedStep
<1>4. CASE FetchApply(t)
  <2>1. FetchAt(t, NoFetch) /\ (UNCHANGED <<local, plan, timer>> \/ Replace(t, fetch[t].got))
    BY <1>4 DEF FetchApply
  <2>. QED
    BY <1>0, <2>1, Constants, FetchedStep
<1>. QED
  BY <1>1, <1>2, <1>3, <1>4 DEF Fetching

-----------------------------------------------------------------------------
LEMMA InvStep == IInv /\ [Next]_vars => IInv'
<1>. SUFFICES ASSUME IInv, [Next]_vars PROVE IInv'
  OBVIOUS
<1>1. CASE UNCHANGED vars
  BY <1>1 DEF vars, IInv, TypeOK, TabInv, Behind, Carried
<1>2. CASE Next
  <2>. PICK t \in Tab : User(t) \/ Engine(t) \/ Failure(t) \/ Fetching(t)
    BY <1>2 DEF Next
  <2>1. CASE User(t)
    BY <2>1, UserStep
  <2>2. CASE Engine(t)
    <3>1. CASE TimerFires(t)
      BY <3>1, ChainedStep DEF TimerFires, Kind
    <3>2. CASE Retry(t)
      BY <3>2, ChainedStep DEF Retry, Kind
    <3>3. CASE Start(t)
      BY <3>3, StartStep
    <3>4. CASE VersionAnswer(t)
      BY <3>4, VersionStep
    <3>5. CASE LoadAnswer(t)
      BY <3>5, LoadStep
    <3>6. CASE Select(t)
      BY <3>6, SelectStep
    <3>7. CASE WriteResult(t)
      BY <3>7, WriteResultStep
    <3>8. CASE Accept(t)
      BY <3>8, AcceptStep
    <3>9. CASE Refuse(t)
      BY <3>9, RefuseStep
    <3>10. CASE Conflict(t)
      BY <3>10, ConflictStep
    <3>11. CASE Success(t)
      BY <3>11, SuccessStep
    <3>. QED
      BY <2>2, <3>1, <3>2, <3>3, <3>4, <3>5, <3>6, <3>7, <3>8, <3>9, <3>10, <3>11 DEF Engine
  <2>3. CASE Failure(t)
    <3>1. CASE StartOffline(t)
      BY <3>1, OfflineStep
    <3>2. CASE PrepareLost(t)
      BY <3>2, PrepareLostStep
    <3>3. CASE PatchLost(t)
      <4>1. /\ run[t].pc \notin {"idle", "version", "load"} /\ Fallback(t, GiveUp(t))
            /\ faults' = faults + 1
            /\ UNCHANGED <<row, now, local, timer, queue, fetch, edits>>
        BY <3>3 DEF PatchLost, Fault
      <4>2. faults' \in Nat
        BY <4>1, Left
      <4>. QED
        BY <4>1, <4>2, FailedStep
    <3>. QED
      BY <2>3, <3>1, <3>2, <3>3 DEF Failure
  <2>4. CASE Fetching(t)
    BY <2>4, FetchingStep
  <2>. QED
    BY <2>1, <2>2, <2>3, <2>4
<1>. QED
  BY <1>1, <1>2

LEMMA Invariance == Spec => []IInv
  BY InitInv, InvStep, PTL DEF Spec

(* Every variable of the tabs' engines keeps its type whatever is lost: what
   runs and reloads carry are audits, and a plan with force_full_sync holds
   neither requirements nor metadata (audit_sync_planning.ts). *)
THEOREM TypeCorrect == Spec => []TypeOK
<1>1. IInv => TypeOK
  BY DEF IInv
<1>. QED
  BY <1>1, Invariance, PTL

(* No tab, run or reload ever holds a version the server has not given out:
   neither taking over the number of a copy that was not taken over
   (audit_sync_prepare.ts) nor a 409, a lost answer or a late reload can put
   a tab ahead, so the server's later versions still look new to it. *)
THEOREM NeverAheadOfServer == Spec => []NeverAhead
<1>1. IInv => NeverAhead
  BY DEF IInv, TabInv, Behind, NeverAhead
<1>. QED
  BY <1>1, Invariance, PTL

(* A plan with requirements or metadata in it always has the debounce timer, a
   chained run, a run that has yet to come to it or the retry interval to send
   it, whatever is lost: no early return, fallback, reload or offline run of
   the engine (audit_sync_service.ts, audit_sync_execute.ts) orphans one. *)
THEOREM PlannedWorkIsCarried == Spec => []WorkHasACarrier
<1>1. IInv => WorkHasACarrier
  BY DEF IInv, TabInv, Carried, WorkHasACarrier
<1>. QED
  BY <1>1, Invariance, PTL

-----------------------------------------------------------------------------
(* One tab without reloads: what was typed is saved.                       *)

Alone == \A t \in Tab : Reload[t] = {} /\ \A u \in Tab : u = t

(* What the row w lacks of the state a is at most its metadata (if m) and the
   requirements ks. *)
Within(w, a, m, ks) == /\ a.status = w.status
                       /\ m \/ a.meta = w.meta
                       /\ \A k \in Req \ ks : a.req[k] = w.req[k]
Has(w, a)       == Within(w, a, FALSE, {})
Covers(p, w, a) == p.full \/ Within(w, a, p.meta, p.keys)

(* The row w, the state a of the tab, its plan p and run r; c says that the timer,
   a chained run or the mark will bring the next run. *)
Sound(w, a, p, r, c) ==
  /\ p.meta => p.keys = {}
  /\ r.pc # "idle" => Typed(r.old) = Typed(a)
  /\ r.pc = "idle" => \/ Has(w, a)
                      \/ ~Planned(p) /\ Unsynced(a)
                      \/ Planned(p) /\ Covers(p, w, a) /\ (c \/ Unsynced(a))
  /\ r.pc \in {"version", "load"} => \/ Has(w, a)
                                     \/ ~r.probe /\ (Planned(p) => Covers(p, w, a))
  /\ r.pc \in {"send", "write", "conflict", "answer"} => p.keys = {} /\ ~p.meta
  /\ r.pc = "send" => /\ r.mode = "single" => Within(w, a, FALSE, r.key)
                      /\ r.mode = "meta" => Within(w, a, TRUE, {})
  /\ r.pc = "write" => Within(w, a, FALSE, r.key) /\ r.seen = w.req
  /\ r.pc = "answer" => Has(w, a)

Awaited(t) == timer[t] \/ queue[t] # <<>> \/ marked[t]
Safe(t)    == risk[t] = {} => Sound(row, local[t], plan[t], run[t], Awaited(t))

LEMMA Alike ==
    ASSUME NEW a, NEW b
    PROVE  Typed(a) = Typed(b) <=> a.status = b.status /\ a.meta = b.meta /\ a.req = b.req
  BY DEF Typed

LEMMA HasTyped ==
    ASSUME NEW w \in Audit, NEW a \in Audit
    PROVE  Has(w, a) <=> Typed(w) = Typed(a)
<1>1. w.req \in [Req -> Nat] /\ a.req \in [Req -> Nat]
  BY AuditFields
<1>2. w.req = a.req <=> \A k \in Req : a.req[k] = w.req[k]
  BY <1>1
<1>. QED
  BY <1>2, Alike DEF Has, Within

(* Stamps and versions do not matter. *)
LEMMA WithinAlike ==
    ASSUME NEW w, NEW a, NEW b, Typed(a) = Typed(b), NEW m, NEW ks
    PROVE  Within(w, a, m, ks) <=> Within(w, b, m, ks)
  BY Alike DEF Within

LEMMA HasCovers ==
    ASSUME NEW w, NEW a, NEW p, Has(w, a)
    PROVE  Covers(p, w, a)
  BY DEF Has, Within, Covers

LEMMA StampAlike ==
    ASSUME NEW a \in Audit, NEW n \in Nat
    PROVE  Typed(Stamped(a, n)) = Typed(a) /\ Typed([a EXCEPT !.ver = n]) = Typed(a)
  BY DEF Stamped, Typed, Audit

(* How the parts of Sound come about. *)

LEMMA Settles ==
    ASSUME NEW w, NEW a, NEW p, NEW r, NEW c, p.meta => p.keys = {}, r.pc = "idle", Has(w, a)
    PROVE  Sound(w, a, p, r, c)
  BY DEF Sound

LEMMA Resolves ==
    ASSUME NEW w, NEW a, NEW b, NEW p \in PlanType, NEW q, NEW r, NEW c,
           Typed(b) = Typed(a), p.meta => p.keys = {},
           Has(w, a) \/ (Planned(p) => Covers(p, w, a)),
           q.keys = {} /\ ~q.meta, r.pc = "send" /\ r.old = b,
           r.mode = "single" => ~p.full /\ p.keys # {} /\ r.key = p.keys,
           r.mode = "meta" => ~p.full /\ p.keys = {} /\ p.meta
    PROVE  Sound(w, a, q, r, c)
<1>1. ASSUME r.mode = "single" PROVE Within(w, a, FALSE, r.key)
  <2>1. Planned(p) /\ ~p.meta /\ ~p.full
    BY <1>1 DEF Planned, PlanType, Plan
  <2>2. Covers(p, w, a)
    BY <2>1, HasCovers
  <2>3. p.meta = FALSE
    BY <2>1 DEF PlanType, Plan
  <2>. QED
    BY <1>1, <2>1, <2>2, <2>3 DEF Covers
<1>2. ASSUME r.mode = "meta" PROVE Within(w, a, TRUE, {})
  <2>1. Planned(p) /\ ~p.full /\ p.keys = {}
    BY <1>2 DEF Planned
  <2>2. Covers(p, w, a)
    BY <2>1, HasCovers
  <2>. QED
    BY <1>2, <2>1, <2>2 DEF Covers, Within
<1>. QED
  BY <1>1, <1>2 DEF Sound

(* A plan that is noted covers the edit. *)
LEMMA Covered ==
    ASSUME NEW w, NEW a, NEW p, NEW r, NEW c, Sound(w, a, p, r, c), r.pc = "idle",
           ~(Unsynced(a) /\ ~Planned(p))
    PROVE  Covers(p, w, a)
  BY HasCovers DEF Sound

LEMMA Notes ==
    ASSUME NEW w, NEW a, NEW p, NEW r, NEW c, p.meta => p.keys = {},
           Planned(p), Covers(p, w, a), r.pc = "idle", c
    PROVE  Sound(w, a, p, r, c)
  BY DEF Sound

LEMMA CoversReq ==
    ASSUME NEW w \in Audit, NEW a \in Audit, NEW p \in PlanType, NEW k \in Req, NEW n \in Nat,
           Covers(p, w, a), ~p.meta, NEW b, Typed(b) = Typed([a EXCEPT !.req[k] = n])
    PROVE  LET q == NoteReq(p, k) IN Covers(q, w, b) /\ Planned(q) /\ (q.meta => q.keys = {})
<1>. DEFINE q == NoteReq(p, k)
<1>1. CASE p.full
  BY <1>1 DEF NoteReq, Covers, Planned
<1>2. CASE ~p.full
  <2>1. q = [p EXCEPT !.meta = FALSE, !.keys = @ \cup {k}]
    BY <1>2 DEF NoteReq
  <2>2. ~q.full /\ q.meta = FALSE /\ q.keys = p.keys \cup {k}
    BY <1>2, <2>1 DEF PlanType, Plan
  <2>3. p.meta = FALSE
    BY DEF PlanType, Plan
  <2>4. Within(w, a, FALSE, p.keys)
    BY <1>2, <2>3 DEF Covers
  <2>5. /\ b.status = a.status /\ b.meta = a.meta /\ b.req = [a.req EXCEPT ![k] = n]
    BY Alike DEF Audit
  <2>6. \A j \in Req \ {k} : b.req[j] = a.req[j]
    BY <2>5 DEF Audit
  <2>7. Within(w, b, FALSE, p.keys \cup {k})
    BY <2>4, <2>5, <2>6 DEF Within
  <2>. QED
    BY <2>2, <2>7 DEF Covers, Planned
<1>. QED
  BY <1>1, <1>2

LEMMA CoversMeta ==
    ASSUME NEW w \in Audit, NEW a \in Audit, NEW p \in PlanType, NEW n \in Nat,
           Covers(p, w, a), p.keys = {}, NEW b, Typed(b) = Typed([a EXCEPT !.meta = n])
    PROVE  LET q == NoteMeta(p) IN Covers(q, w, b) /\ Planned(q) /\ (q.meta => q.keys = {})
<1>. DEFINE q == NoteMeta(p)
<1>1. CASE p.full
  BY <1>1 DEF NoteMeta, Covers, Planned
<1>2. CASE ~p.full
  <2>1. q = [p EXCEPT !.meta = TRUE]
    BY <1>2 DEF NoteMeta
  <2>2. ~q.full /\ q.meta = TRUE /\ q.keys = {}
    BY <1>2, <2>1 DEF PlanType, Plan
  <2>3. Within(w, a, p.meta, {})
    BY <1>2 DEF Covers
  <2>4. b.status = a.status /\ b.req = a.req
    BY Alike DEF Audit
  <2>5. Within(w, b, TRUE, {})
    BY <2>3, <2>4 DEF Within
  <2>. QED
    BY <2>2, <2>5 DEF Covers, Planned
<1>. QED
  BY <1>1, <1>2

LEMMA TouchedAlike ==
    ASSUME NEW a \in Audit, now \in Nat
    PROVE  Typed(Touched(a)) = Typed(a)
  BY DEF Touched, Typed, Audit

-----------------------------------------------------------------------------
LEMMA SafePrime ==
    ASSUME NEW t \in Tab,
           risk'[t] = {} => Sound(row', local'[t], plan'[t], run'[t],
                                  timer'[t] \/ queue'[t] # <<>> \/ marked'[t])
    PROVE  Safe(t)'
  BY DEF Safe, Awaited

LEMMA RiskFree ==
    ASSUME TypeOK, NEW t \in Tab, NEW causes, Exposed(t, causes), risk'[t] = {}
    PROVE  risk[t] = {} /\ causes = {}
  BY DEF TypeOK, Exposed

(* The tab t, of which nothing is at risk. *)
LEMMA Now ==
    ASSUME TypeOK, NEW t \in Tab, Safe(t), risk[t] = {}
    PROVE  Sound(row, local[t], plan[t], run[t], Awaited(t))
  BY DEF Safe

(* Edits: none at risk is made during a run, or beside work that is no longer planned. *)
LEMMA EditSafe ==
    ASSUME IInv, NEW t \in Tab, Safe(t), NEW a, NEW p, NEW mixed, Edited(t, a, p, mixed),
           timer'[t] \/ queue'[t] # <<>>,
           ASSUME run[t].pc = "idle", ~mixed, Covers(plan[t], row, local[t])
           PROVE  Covers(p, row, a) /\ Planned(p) /\ (p.meta => p.keys = {})
    PROVE  Safe(t)'
<1>. SUFFICES ASSUME risk'[t] = {}
              PROVE  Sound(row', local'[t], plan'[t], run'[t],
                           timer'[t] \/ queue'[t] # <<>> \/ marked'[t])
  BY SafePrime
<1>. DEFINE causes == {c \in Risk : \/ c = "window" /\ run[t].pc # "idle"
                                    \/ c = "mixed" /\ mixed
                                    \/ c = "lost" /\ Unsynced(local[t]) /\ ~Planned(plan[t])}
<1>1. TypeOK
  BY DEF IInv
<1>2. Exposed(t, causes)
  BY DEF Edited
<1>3. risk[t] = {} /\ causes = {}
  <2>. HIDE DEF causes
  <2>. QED
    BY <1>1, <1>2, RiskFree
<1>4. run[t].pc = "idle" /\ ~mixed /\ ~(Unsynced(local[t]) /\ ~Planned(plan[t]))
  BY <1>3 DEF Risk
<1>5. Covers(plan[t], row, local[t])
  BY <1>1, <1>3, <1>4, Now, Covered
<1>6. Covers(p, row, a) /\ Planned(p) /\ (p.meta => p.keys = {})
  BY <1>4, <1>5
<1>7. local'[t] = a /\ plan'[t] = p /\ run' = run /\ row' = row
  BY <1>1 DEF Edited, TypeOK
<1>. QED
  BY <1>4, <1>6, <1>7, Notes

LEMMA EnqueueSafe ==
    ASSUME IInv, NEW t \in Tab, NEW k \in Kind, Enqueue(t, k)
    PROVE  timer'[t] = FALSE /\ queue'[t] # <<>>
  BY EnqueueStep DEF IInv, Enqueue, TypeOK

LEMMA RequirementSafe ==
    ASSUME IInv, NEW t \in Tab, Safe(t), NEW k \in Req, EditRequirement(t, k)
    PROVE  Safe(t)'
<1>. DEFINE a == [local[t] EXCEPT !.req[k] = now + 1]
            b == Touched(a)
            p == NoteReq(plan[t], k)
<1>1. TypeOK /\ local[t] \in Audit /\ row \in Audit /\ plan[t] \in PlanType /\ now \in Nat /\ now + 1 \in Nat
  BY Fields DEF IInv
<1>2. a \in Audit
  BY <1>1, AuditFields
<1>3. Typed(b) = Typed(a)
  <2>. HIDE DEF a
  <2>. QED
    BY <1>1, <1>2, TouchedAlike
<1>4. Edited(t, b, p, plan[t].meta) /\ timer'[t]
  BY <1>1 DEF EditRequirement, TypeOK
<1>5. ASSUME ~plan[t].meta, Covers(plan[t], row, local[t])
      PROVE  Covers(p, row, b) /\ Planned(p) /\ (p.meta => p.keys = {})
  <2>. HIDE DEF b
  <2>. QED
    BY <1>1, <1>3, <1>5, CoversReq
<1>. HIDE DEF a, b, p
<1>. QED
  BY <1>4, <1>5, EditSafe

LEMMA MetadataSafe ==
    ASSUME IInv, NEW t \in Tab, Safe(t), EditMetadata(t)
    PROVE  Safe(t)'
<1>. DEFINE a == [local[t] EXCEPT !.meta = now + 1]
            b == Touched(a)
            p == NoteMeta(plan[t])
            m == plan[t].keys # {}
<1>1. TypeOK /\ local[t] \in Audit /\ row \in Audit /\ plan[t] \in PlanType /\ now \in Nat /\ now + 1 \in Nat
  BY Fields DEF IInv
<1>2. a \in Audit
  BY <1>1, AuditFields
<1>3. Typed(b) = Typed(a)
  <2>. HIDE DEF a
  <2>. QED
    BY <1>1, <1>2, TouchedAlike
<1>4. Edited(t, b, p, m) /\ timer'[t]
  BY <1>1 DEF EditMetadata, TypeOK
<1>5. ASSUME ~m, Covers(plan[t], row, local[t])
      PROVE  Covers(p, row, b) /\ Planned(p) /\ (p.meta => p.keys = {})
  <2>. HIDE DEF b
  <2>. QED
    BY <1>1, <1>3, <1>5, CoversMeta
<1>. HIDE DEF a, b, p, m
<1>. QED
  BY <1>4, <1>5, EditSafe

LEMMA StatusSafe ==
    ASSUME IInv, NEW t \in Tab, Safe(t), NEW s \in Status, SetStatus(t, s)
    PROVE  Safe(t)'
<1>. DEFINE a == [local[t] EXCEPT !.status = s, !.lc = now + 1]
<1>1. Edited(t, a, NoteFull, FALSE) /\ Enqueue(t, "sync")
  BY DEF SetStatus
<1>2. queue'[t] # <<>>
  BY <1>1, EnqueueSafe DEF Kind
<1>3. Covers(NoteFull, row, a) /\ Planned(NoteFull) /\ (NoteFull.meta => NoteFull.keys = {})
  BY DEF NoteFull, Covers, Planned
<1>. HIDE DEF a
<1>. QED
  BY <1>1, <1>2, <1>3, EditSafe

(* A flush, a timer or a retry chains a run and changes nothing else. *)
LEMMA Waits ==
    ASSUME NEW w, NEW a, NEW p, NEW r, NEW c, NEW d, Sound(w, a, p, r, c), d
    PROVE  Sound(w, a, p, r, d)
  BY DEF Sound

LEMMA ChainedSafe ==
    ASSUME IInv, NEW t \in Tab, Safe(t), NEW k \in Kind, Enqueue(t, k),
           UNCHANGED <<row, local, plan, run, risk>>
    PROVE  Safe(t)'
<1>. SUFFICES ASSUME risk'[t] = {}
              PROVE  Sound(row', local'[t], plan'[t], run'[t],
                           timer'[t] \/ queue'[t] # <<>> \/ marked'[t])
  BY SafePrime
<1>1. Sound(row, local[t], plan[t], run[t], Awaited(t))
  BY Now DEF IInv
<1>2. queue'[t] # <<>>
  BY EnqueueSafe
<1>. QED
  BY <1>1, <1>2, Waits

(* Leaving a requirement: what the plan forgets is all it held, and a full PATCH
   will follow. *)
LEMMA LeaveSafe ==
    ASSUME IInv, NEW t \in Tab, Safe(t), NEW k \in Req, LeaveRequirement(t, k)
    PROVE  Safe(t)'
<1>. SUFFICES ASSUME risk'[t] = {}
              PROVE  Sound(row', local'[t], plan'[t], run'[t],
                           timer'[t] \/ queue'[t] # <<>> \/ marked'[t])
  BY SafePrime
<1>. DEFINE o == plan[t]
            p == IF TakenForSynced(local[t]) THEN Drop(o, k) ELSE o
            causes == IF p = o THEN {}
                      ELSE IF ~Unsynced(local[t]) THEN {"unstamped"}
                      ELSE IF p.keys # {} THEN {"dropped"} ELSE {}
            a == local[t]
            r == run[t]
<1>0. TypeOK /\ o \in PlanType
  BY Fields DEF IInv
<1>1. /\ plan' = [plan EXCEPT ![t] = p]
      /\ Unsynced(a) \/ Planned(p) => Enqueue(t, "nav")
      /\ ~(Unsynced(a) \/ Planned(p)) => p # o
      /\ Exposed(t, causes)
      /\ UNCHANGED <<row, local, run>>
  BY DEF LeaveRequirement
<1>2. plan'[t] = p
  BY <1>0, <1>1 DEF TypeOK
<1>3. risk[t] = {} /\ causes = {}
  <2>. HIDE DEF causes
  <2>. QED
    BY <1>0, <1>1, RiskFree
<1>4. Sound(row, a, o, r, Awaited(t))
  BY <1>0, <1>3, Now
<1>5. p = o \/ (Unsynced(a) /\ p.keys = {})
  <2>. HIDE DEF p, o
  <2>1. p # o /\ ~Unsynced(a) => causes = {"unstamped"}
    OBVIOUS
  <2>2. p # o /\ Unsynced(a) /\ p.keys # {} => causes = {"dropped"}
    OBVIOUS
  <2>3. {"unstamped"} # {} /\ {"dropped"} # {}
    OBVIOUS
  <2>. HIDE DEF causes
  <2>. QED
    BY <1>3, <2>1, <2>2, <2>3
<1>6. queue'[t] # <<>>
  BY <1>1, <1>5, EnqueueSafe DEF Kind
<1>7. CASE p = o
  BY <1>1, <1>2, <1>4, <1>6, <1>7, Waits
<1>8. CASE p # o /\ Unsynced(a) /\ p.keys = {}
  <2>1. /\ p = [o EXCEPT !.keys = o.keys \ {k}] /\ ~o.full
    BY <1>8 DEF Drop
  <2>2. o \in [full : BOOLEAN, meta : BOOLEAN, keys : SUBSET Req]
    BY <1>0 DEF PlanType, Plan
  <2>3. o.keys # {}
    BY <1>8, <2>1, <2>2
  <2>4. ~o.meta
    BY <1>4, <2>3 DEF Sound
  <2>5. p.full = o.full /\ p.meta = o.meta
    BY <2>1, <2>2
  <2>6. ~Planned(p) /\ ~p.meta
    BY <1>8, <2>1, <2>4, <2>5 DEF Planned
  <2>. HIDE DEF p, o, a, r
  <2>7. ASSUME r.pc = "idle" PROVE Sound(row, a, p, r, TRUE)
    BY <1>8, <2>6, <2>7 DEF Sound
  <2>8. ASSUME r.pc # "idle" PROVE Sound(row, a, p, r, TRUE)
    BY <1>4, <1>8, <2>6, <2>8 DEF Sound
  <2>9. Sound(row, a, p, r, TRUE)
    BY <2>7, <2>8
  <2>10. Sound(row, a, p, r, timer'[t] \/ queue'[t] # <<>> \/ marked'[t])
    BY <1>6, <2>9, Waits
  <2>. QED
    BY <1>1, <1>2, <2>10 DEF a, r
<1>. QED
  BY <1>5, <1>7, <1>8

(* The engine. *)

(* What Resolve sends, and what it leaves planned. *)
LEMMA ResolvedRun ==
    ASSUME TypeOK, NEW t \in Tab, NEW r \in Run, NEW b \in Audit, Resolve(t, r, b)
    PROVE  /\ plan'[t].keys = {} /\ ~plan'[t].meta
           /\ run'[t].pc = "send" /\ run'[t].old = b
           /\ run'[t].mode = "single" => /\ ~plan[t].full /\ plan[t].keys # {}
                                         /\ run'[t].key = plan[t].keys
           /\ run'[t].mode = "meta" => ~plan[t].full /\ plan[t].keys = {} /\ plan[t].meta
<1>. DEFINE p      == plan[t]
            single == ~p.full /\ Cardinality(p.keys) = 1
            known  == \A k \in p.keys : b.req[k] # 0
            mode   == IF single /\ known THEN "single"
                      ELSE IF ~p.full /\ p.keys = {} /\ p.meta THEN "meta" ELSE "full"
            s == [r EXCEPT !.pc = "send", !.old = b, !.mode = mode,
                           !.key = IF mode = "single" THEN p.keys ELSE {}]
<1>1. run' = [run EXCEPT ![t] = s]
  BY DEF Resolve, Goto
<1>2. single => p.keys # {}
  BY FS_EmptySet
<1>3. /\ mode = "single" => single
      /\ mode = "meta" => ~p.full /\ p.keys = {} /\ p.meta
  OBVIOUS
<1>. HIDE DEF mode
<1>4. s.mode = mode /\ (mode = "single" => s.key = p.keys)
  BY DEF Run
<1>5. run'[t] = s
  BY <1>1 DEF TypeOK
<1>6. /\ plan'[t].keys = {} /\ plan'[t].meta = FALSE
      /\ run'[t].pc = "send" /\ run'[t].old = b
  BY ResolveStep
<1>. HIDE DEF s
<1>. QED
  BY <1>2, <1>3, <1>4, <1>5, <1>6

LEMMA ResolvedSound ==
    ASSUME TypeOK, NEW t \in Tab, NEW r \in Run, NEW b \in Audit, Resolve(t, r, b),
           NEW w, NEW a, NEW c, Typed(b) = Typed(a), plan[t].meta => plan[t].keys = {},
           Has(w, a) \/ (Planned(plan[t]) => Covers(plan[t], w, a))
    PROVE  Sound(w, a, plan'[t], run'[t], c)
<1>. DEFINE p == plan[t]
            q == plan'[t]
            s == run'[t]
<1>1. p \in PlanType
  BY Fields
<1>2. /\ q.keys = {} /\ ~q.meta
      /\ s.pc = "send" /\ s.old = b
      /\ s.mode = "single" => ~p.full /\ p.keys # {} /\ s.key = p.keys
      /\ s.mode = "meta" => ~p.full /\ p.keys = {} /\ p.meta
  BY ResolvedRun
<1>3. p.meta => p.keys = {}
  OBVIOUS
<1>4. Has(w, a) \/ (Planned(p) => Covers(p, w, a))
  OBVIOUS
<1>. HIDE DEF p, q, s
<1>5. Sound(w, a, q, s, c)
  BY <1>1, <1>2, <1>3, <1>4, Resolves
<1>. QED
  BY <1>5 DEF q, s

(* A preparation that ends with the state b, typed as that of the tab. *)
LEMMA PreparedSafe ==
    ASSUME IInv, NEW t \in Tab, Safe(t), risk[t] = {}, run[t].pc \in {"version", "load"},
           NEW b \in Audit, Typed(b) = Typed(local[t]), Prepared(t, b),
           row' = row, NEW a \in Audit, Typed(a) = Typed(local[t]), NEW c
    PROVE  Sound(row, a, plan'[t], run'[t], c)
<1>1. TypeOK /\ plan[t] \in PlanType /\ run[t] \in Run /\ local[t] \in Audit
  BY Fields DEF IInv
<1>2. Sound(row, local[t], plan[t], run[t], Awaited(t))
  BY <1>1, Now
<1>3. /\ plan[t].meta => plan[t].keys = {}
      /\ Has(row, local[t]) \/ (~run[t].probe /\ (Planned(plan[t]) => Covers(plan[t], row, local[t])))
  BY <1>2 DEF Sound
<1>4. /\ Has(row, a) <=> Has(row, local[t])
      /\ Covers(plan[t], row, a) <=> Covers(plan[t], row, local[t])
  BY WithinAlike DEF Has, Covers
<1>5. CASE run[t].probe
  <2>1. plan' = plan /\ run' = [run EXCEPT ![t] = NoRun]
    BY <1>5 DEF Prepared, Goto
  <2>2. run'[t] = NoRun /\ plan'[t] = plan[t]
    BY <1>1, <2>1 DEF TypeOK
  <2>3. Has(row, a)
    BY <1>3, <1>4, <1>5
  <2>. QED
    BY <1>3, <2>2, <2>3, Settles, Constants
<1>6. CASE ~run[t].probe
  <2>1. Resolve(t, run[t], b)
    BY <1>6 DEF Prepared
  <2>2. Has(row, a) \/ (Planned(plan[t]) => Covers(plan[t], row, a))
    BY <1>3, <1>4
  <2>. QED
    BY <1>1, <1>3, <2>1, <2>2, ResolvedSound
<1>. QED
  BY <1>5, <1>6

LEMMA StartSafe ==
    ASSUME IInv, NEW t \in Tab, Safe(t), Start(t)
    PROVE  Safe(t)'
<1>. SUFFICES ASSUME risk'[t] = {}
              PROVE  Sound(row', local'[t], plan'[t], run'[t],
                           timer'[t] \/ queue'[t] # <<>> \/ marked'[t])
  BY SafePrime
<1>. DEFINE kind == Head(queue[t])
            a    == local[t]
            p    == plan[t]
            idle == ~Unsynced(a) /\ ~Planned(p)
            r    == [NoRun EXCEPT !.pc = "version", !.kind = kind, !.old = a, !.probe = idle]
            c    == timer'[t] \/ queue'[t] # <<>> \/ marked'[t]
<1>1. /\ run[t].pc = "idle" /\ queue[t] # <<>>
      /\ IF kind # "nav" THEN Goto(t, r) /\ UNCHANGED plan
         ELSE IF idle THEN UNCHANGED <<run, plan>>
         ELSE Resolve(t, r, a)
      /\ UNCHANGED <<row, local, risk>>
  BY DEF Start
<1>2. TypeOK /\ p \in PlanType /\ a \in Audit /\ queue[t] \in Seq(Kind)
  BY Fields DEF IInv
<1>3. Sound(row, a, p, run[t], Awaited(t))
  BY <1>1, <1>2, Now
<1>4. /\ p.meta => p.keys = {}
      /\ \/ Has(row, a)
         \/ ~Planned(p) /\ Unsynced(a)
         \/ Planned(p) /\ Covers(p, row, a)
  BY <1>1, <1>3 DEF Sound
<1>5. idle \in BOOLEAN /\ kind \in Kind
  BY <1>1, <1>2, HeadTailProperties
<1>6. (idle => Has(row, a)) /\ (Has(row, a) \/ (Planned(p) => Covers(p, row, a)))
  BY <1>4
<1>7. r \in Run /\ r.pc = "version" /\ r.old = a /\ r.probe = idle
  <2>. HIDE DEF idle, a, kind
  <2>1. r \in Run
    BY <1>2, <1>5, FreshRun DEF Run
  <2>. QED
    BY <1>2, <1>5, <2>1, FreshRun DEF Run
<1>. HIDE DEF r, kind
<1>8. CASE kind # "nav"
  <2>1. run'[t] = r /\ plan'[t] = p
    BY <1>1, <1>2, <1>8 DEF Goto, TypeOK
  <2>2. Sound(row, a, p, r, c)
    <3>. HIDE DEF a, p, c
    <3>1. Has(row, a) \/ (~r.probe /\ (Planned(p) => Covers(p, row, a)))
      BY <1>6, <1>7
    <3>2. r.pc = "version" /\ Typed(r.old) = Typed(a) /\ (p.meta => p.keys = {})
      BY <1>4, <1>7
    <3>. QED
      BY <3>1, <3>2 DEF Sound
  <2>. QED
    BY <1>1, <2>1, <2>2
<1>9. CASE kind = "nav" /\ idle
  BY <1>1, <1>4, <1>6, <1>9, Settles
<1>10. CASE kind = "nav" /\ ~idle
  <2>1. Resolve(t, r, a)
    BY <1>1, <1>10
  <2>. QED
    BY <1>1, <1>2, <1>4, <1>6, <1>7, <2>1, ResolvedSound
<1>. QED
  BY <1>8, <1>9, <1>10

LEMMA VersionSafe ==
    ASSUME IInv, NEW t \in Tab, Safe(t), VersionAnswer(t)
    PROVE  Safe(t)'
<1>. SUFFICES ASSUME risk'[t] = {}
              PROVE  Sound(row', local'[t], plan'[t], run'[t],
                           timer'[t] \/ queue'[t] # <<>> \/ marked'[t])
  BY SafePrime
<1>. DEFINE c == timer'[t] \/ queue'[t] # <<>> \/ marked'[t]
            r == [run[t] EXCEPT !.pc = "load", !.ver = row.ver,
                                !.prefer = ~run[t].probe /\ plan[t].full]
<1>1. TypeOK /\ run[t] \in Run /\ local[t] \in Audit /\ run[t].old \in Audit
  BY Fields, RunFields DEF IInv
<1>2. run[t].pc = "version" /\ UNCHANGED <<row, local, risk>>
  BY DEF VersionAnswer
<1>3. Sound(row, local[t], plan[t], run[t], Awaited(t))
  BY <1>1, <1>2, Now
<1>4. Typed(run[t].old) = Typed(local[t])
  BY <1>2, <1>3 DEF Sound
<1>5. CASE Prepared(t, run[t].old)
  BY <1>1, <1>2, <1>4, <1>5, PreparedSafe
<1>6. CASE Goto(t, r) /\ UNCHANGED plan
  <2>1. run'[t] = r /\ plan'[t] = plan[t]
    BY <1>1, <1>6 DEF Goto, TypeOK
  <2>2. r.pc = "load" /\ r.old = run[t].old /\ r.probe = run[t].probe
    BY <1>1 DEF Run
  <2>. HIDE DEF r, c
  <2>3. Sound(row, local[t], plan[t], r, c)
    BY <1>2, <1>3, <2>2 DEF Sound
  <2>. QED
    BY <1>2, <2>1, <2>3 DEF c
<1>. QED
  BY <1>5, <1>6 DEF VersionAnswer

LEMMA LoadSafe ==
    ASSUME IInv, NEW t \in Tab, Safe(t), LoadAnswer(t)
    PROVE  Safe(t)'
<1>. SUFFICES ASSUME risk'[t] = {}
              PROVE  Sound(row', local'[t], plan'[t], run'[t],
                           timer'[t] \/ queue'[t] # <<>> \/ marked'[t])
  BY SafePrime
<1>. DEFINE c == timer'[t] \/ queue'[t] # <<>> \/ marked'[t]
            a == [local[t] EXCEPT !.ver = run[t].ver]
            b == [run[t].old EXCEPT !.ver = run[t].ver]
<1>1. /\ TypeOK /\ run[t] \in Run /\ local[t] \in Audit /\ run[t].old \in Audit
      /\ run[t].ver \in Nat /\ row \in Audit /\ now + 1 \in Nat
  BY Fields, RunFields DEF IInv
<1>2. run[t].pc = "load" /\ UNCHANGED <<row, risk>>
  BY DEF LoadAnswer
<1>3. Sound(row, local[t], plan[t], run[t], Awaited(t))
  BY <1>1, <1>2, Now
<1>4. Typed(run[t].old) = Typed(local[t])
  BY <1>2, <1>3 DEF Sound
<1>5. CASE Replace(t, Stamped(row, now + 1)) /\ Goto(t, NoRun)
  <2>1. Stamped(row, now + 1) \in Audit /\ Typed(Stamped(row, now + 1)) = Typed(row)
    BY <1>1, StampedType, StampAlike
  <2>2. local'[t] = Stamped(row, now + 1) /\ plan'[t] = Empty /\ run'[t] = NoRun
    BY <1>1, <1>5, <2>1, ReplaceStep, GotoStep, Constants
  <2>3. Has(row, local'[t])
    BY <1>1, <2>1, <2>2, HasTyped
  <2>. HIDE DEF c
  <2>4. Sound(row, local'[t], plan'[t], run'[t], c)
    BY <2>2, <2>3, Settles, Constants
  <2>. QED
    BY <1>2, <2>4 DEF c
<1>6. CASE SetLocal(t, a) /\ Prepared(t, b)
  <2>1. a \in Audit /\ Typed(a) = Typed(local[t])
    BY <1>1, VersionType, StampAlike
  <2>2. b \in Audit /\ Typed(b) = Typed(local[t])
    BY <1>1, <1>4, VersionType, StampAlike
  <2>3. local'[t] = a
    BY <1>1, <1>6, <2>1, SetLocalStep
  <2>. HIDE DEF a, b, c
  <2>4. Sound(row, a, plan'[t], run'[t], c)
    BY <1>2, <1>6, <2>1, <2>2, PreparedSafe
  <2>. QED
    BY <1>2, <2>3, <2>4 DEF c
<1>. QED
  BY <1>5, <1>6 DEF LoadAnswer

LEMMA PrepareLostSafe ==
    ASSUME IInv, NEW t \in Tab, Safe(t), PrepareLost(t)
    PROVE  Safe(t)'
<1>. SUFFICES ASSUME risk'[t] = {}
              PROVE  Sound(row', local'[t], plan'[t], run'[t],
                           timer'[t] \/ queue'[t] # <<>> \/ marked'[t])
  BY SafePrime
<1>1. TypeOK /\ run[t] \in Run /\ local[t] \in Audit /\ run[t].old \in Audit
  BY Fields, RunFields DEF IInv
<1>2. run[t].pc \in {"version", "load"} /\ Prepared(t, run[t].old) /\ UNCHANGED <<row, local, risk>>
  BY DEF PrepareLost
<1>3. Sound(row, local[t], plan[t], run[t], Awaited(t))
  BY <1>1, <1>2, Now
<1>4. Typed(run[t].old) = Typed(local[t])
  BY <1>2, <1>3 DEF Sound
<1>. QED
  BY <1>1, <1>2, <1>4, PreparedSafe

LEMMA SelectSafe ==
    ASSUME IInv, NEW t \in Tab, Safe(t), Select(t)
    PROVE  Safe(t)'
<1>. SUFFICES ASSUME risk'[t] = {}
              PROVE  Sound(row', local'[t], plan'[t], run'[t],
                           timer'[t] \/ queue'[t] # <<>> \/ marked'[t])
  BY SafePrime
<1>. DEFINE r == [run[t] EXCEPT !.pc = "write", !.seen = row.req]
<1>1. TypeOK /\ run[t] \in Run
  BY Fields DEF IInv
<1>2. /\ run[t].pc = "send" /\ run[t].mode = "single" /\ Goto(t, r)
      /\ UNCHANGED <<row, local, plan, timer, queue, marked, risk>>
  BY DEF Select
<1>3. Sound(row, local[t], plan[t], run[t], Awaited(t))
  BY <1>1, <1>2, Now
<1>4. run'[t] = r
  BY <1>1, <1>2 DEF Goto, TypeOK
<1>5. r.pc = "write" /\ r.seen = row.req /\ r.old = run[t].old /\ r.key = run[t].key
  BY <1>1 DEF Run
<1>. HIDE DEF r
<1>6. Sound(row, local[t], plan[t], r, timer'[t] \/ queue'[t] # <<>> \/ marked'[t])
  BY <1>2, <1>3, <1>5 DEF Sound
<1>. QED
  BY <1>2, <1>4, <1>6

(* What the handler has written is what the tab shows. *)
LEMMA AnswerSafe ==
    ASSUME IInv, NEW t \in Tab, Safe(t), risk'[t] = {},
           NEW w, row' = w, Typed(w) = Typed(local[t]), row' \in Audit,
           run[t].pc \in {"send", "write"},
           NEW n \in Nat, Goto(t, [run[t] EXCEPT !.pc = "answer", !.ver = n]),
           UNCHANGED <<local, plan, risk>>
    PROVE  Safe(t)'
<1>. DEFINE r == [run[t] EXCEPT !.pc = "answer", !.ver = n]
            c == timer'[t] \/ queue'[t] # <<>> \/ marked'[t]
<1>1. TypeOK /\ run[t] \in Run /\ local[t] \in Audit
  BY Fields DEF IInv
<1>2. Sound(row, local[t], plan[t], run[t], Awaited(t))
  BY <1>1, Now
<1>3. run'[t] = r
  BY <1>1 DEF Goto, TypeOK
<1>4. r.pc = "answer" /\ r.old = run[t].old
  BY <1>1 DEF Run
<1>5. Has(w, local[t])
  BY <1>1, HasTyped
<1>6. /\ plan[t].keys = {} /\ ~plan[t].meta
      /\ Typed(r.old) = Typed(local[t])
  BY <1>2, <1>4 DEF Sound
<1>. HIDE DEF r, c
<1>7. Sound(w, local[t], plan[t], r, c)
  BY <1>4, <1>5, <1>6 DEF Sound
<1>. QED
  BY <1>3, <1>7, SafePrime DEF c

LEMMA WriteSafe ==
    ASSUME IInv, TypeOK', NEW t \in Tab, Safe(t), WriteResult(t)
    PROVE  Safe(t)'
<1>. SUFFICES ASSUME risk'[t] = {} PROVE Safe(t)'
  BY SafePrime
<1>. DEFINE a == local[t]
            o == run[t].old
            q == [k \in Req |-> IF k \in run[t].key THEN o.req[k] ELSE run[t].seen[k]]
            w == [row EXCEPT !.ver = row.ver + 1, !.req = q]
<1>1. TypeOK /\ run[t] \in Run /\ a \in Audit /\ o \in Audit /\ row \in Audit /\ row.ver + 1 \in Nat
  BY Fields, RunFields DEF IInv
<1>2. /\ run[t].pc = "write" /\ row' = w
      /\ Goto(t, [run[t] EXCEPT !.pc = "answer", !.ver = row.ver + 1])
      /\ UNCHANGED <<local, plan, risk>>
  BY DEF WriteResult
<1>3. Sound(row, a, plan[t], run[t], Awaited(t))
  BY <1>1, <1>2, Now
<1>4. Typed(o) = Typed(a) /\ Within(row, a, FALSE, run[t].key) /\ run[t].seen = row.req
  BY <1>2, <1>3 DEF Sound
<1>5. o.req = a.req
  BY <1>4, Alike
<1>6. a.req \in [Req -> Nat]
  BY <1>1, AuditFields
<1>7. q = a.req
  <2>1. ASSUME NEW k \in Req PROVE q[k] = a.req[k]
    BY <1>4, <1>5 DEF Within
  <2>. QED
    BY <1>6, <2>1
<1>. HIDE DEF q
<1>8. w.status = row.status /\ w.meta = row.meta /\ w.req = q
  BY <1>1 DEF Audit
<1>9. row.status = a.status /\ row.meta = a.meta
  BY <1>4 DEF Within
<1>. HIDE DEF w, a
<1>10. Typed(w) = Typed(a)
  BY <1>7, <1>8, <1>9, Alike
<1>11. row' \in Audit
  BY DEF TypeOK
<1>. QED
  BY <1>1, <1>2, <1>10, <1>11, AnswerSafe DEF a

LEMMA AcceptSafe ==
    ASSUME IInv, TypeOK', NEW t \in Tab, Safe(t), Accept(t)
    PROVE  Safe(t)'
<1>. SUFFICES ASSUME risk'[t] = {} PROVE Safe(t)'
  BY SafePrime
<1>. DEFINE a == local[t]
            o == run[t].old
            v == [o EXCEPT !.ver = row.ver + 1]
            w == IF run[t].mode = "meta" THEN [v EXCEPT !.req = row.req] ELSE v
<1>1. TypeOK /\ run[t] \in Run /\ a \in Audit /\ o \in Audit /\ row \in Audit /\ row.ver + 1 \in Nat
  BY Fields, RunFields DEF IInv
<1>2. /\ run[t].pc = "send" /\ row' = w
      /\ Goto(t, [run[t] EXCEPT !.pc = "answer", !.ver = row.ver + 1])
      /\ UNCHANGED <<local, plan, risk>>
  BY DEF Accept, Sent
<1>3. Sound(row, a, plan[t], run[t], Awaited(t))
  BY <1>1, <1>2, Now
<1>4. Typed(o) = Typed(a) /\ (run[t].mode = "meta" => Within(row, a, TRUE, {}))
  BY <1>2, <1>3 DEF Sound
<1>5. v \in Audit /\ v.status = o.status /\ v.meta = o.meta /\ v.req = o.req
  BY <1>1, VersionType DEF Audit
<1>6. o.status = a.status /\ o.meta = a.meta /\ o.req = a.req
  BY <1>4, Alike
<1>. HIDE DEF v
<1>7. ASSUME run[t].mode = "meta" PROVE row.req = a.req
  <2>1. \A k \in Req : a.req[k] = row.req[k]
    BY <1>4, <1>7 DEF Within
  <2>2. a.req \in [Req -> Nat] /\ row.req \in [Req -> Nat]
    BY <1>1, AuditFields
  <2>. QED
    BY <2>1, <2>2
<1>8. w.status = v.status /\ w.meta = v.meta /\ w.req = a.req
  <2>1. CASE run[t].mode = "meta"
    BY <1>5, <1>7, <2>1 DEF Audit
  <2>2. CASE run[t].mode # "meta"
    BY <1>5, <1>6, <2>2
  <2>. QED
    BY <2>1, <2>2
<1>. HIDE DEF w, a, o
<1>9. Typed(w) = Typed(a)
  BY <1>5, <1>6, <1>8, Alike
<1>10. row' \in Audit
  BY DEF TypeOK
<1>. QED
  BY <1>1, <1>2, <1>9, <1>10, AnswerSafe DEF a

(* A PATCH that is sent in full needs nothing. *)
LEMMA SentInFull ==
    ASSUME NEW w, NEW a, NEW p, NEW r, NEW c, p.keys = {}, ~p.meta,
           r.pc = "send" \/ r.pc = "conflict", r.mode = "full" \/ r.mode = "retry",
           Typed(r.old) = Typed(a)
    PROVE  Sound(w, a, p, r, c)
  BY DEF Sound

(* Which of the two things a failed PATCH leads to. *)
LEMMA FallbackSafe ==
    ASSUME IInv, NEW t \in Tab, Safe(t), risk[t] = {},
           Goto(t, [run[t] EXCEPT !.pc = "send", !.mode = "full", !.key = {}]),
           SetPlan(t, NoteFull), run[t].pc # "idle", UNCHANGED <<row, local>>
    PROVE  Safe(t)'
<1>. DEFINE r == [run[t] EXCEPT !.pc = "send", !.mode = "full", !.key = {}]
            c == timer'[t] \/ queue'[t] # <<>> \/ marked'[t]
<1>1. TypeOK /\ run[t] \in Run
  BY Fields DEF IInv
<1>2. Sound(row, local[t], plan[t], run[t], Awaited(t))
  BY <1>1, Now
<1>3. r.pc = "send" /\ r.mode = "full" /\ r.old = run[t].old
  BY <1>1 DEF Run
<1>4. run'[t] = r /\ plan'[t] = NoteFull
  BY <1>1, Constants, SetPlanStep DEF Goto, TypeOK
<1>5. Typed(r.old) = Typed(local[t])
  BY <1>2, <1>3 DEF Sound
<1>. HIDE DEF r, c
<1>6. Sound(row, local[t], NoteFull, r, c)
  BY <1>3, <1>5, Constants, SentInFull
<1>. QED
  BY <1>4, <1>6, SafePrime DEF c

LEMMA GiveUpSafe ==
    ASSUME IInv, NEW t \in Tab, Safe(t), GiveUp(t), UNCHANGED <<row, local, plan>>,
           run[t].pc \in {"send", "write", "conflict", "answer"}
    PROVE  Safe(t)'
<1>. SUFFICES ASSUME risk'[t] = {}
              PROVE  Sound(row', local'[t], plan'[t], run'[t],
                           timer'[t] \/ queue'[t] # <<>> \/ marked'[t])
  BY SafePrime
<1>. DEFINE causes == IF Unsynced(local[t]) THEN {} ELSE {"unstamped"}
            c == timer'[t] \/ queue'[t] # <<>> \/ marked'[t]
<1>1. TypeOK
  BY DEF IInv
<1>2. Exposed(t, causes)
  BY DEF GiveUp
<1>3. risk[t] = {} /\ causes = {}
  <2>. HIDE DEF causes
  <2>. QED
    BY <1>1, <1>2, RiskFree
<1>4. Unsynced(local[t])
  BY <1>3
<1>5. Sound(row, local[t], plan[t], run[t], Awaited(t))
  BY <1>1, <1>3, Now
<1>6. plan[t].keys = {} /\ ~plan[t].meta
  BY <1>5 DEF Sound
<1>7. run'[t] = NoRun
  BY <1>1, GiveUpStep
<1>. HIDE DEF c
<1>8. ~Planned(plan[t]) \/ (Planned(plan[t]) /\ Covers(plan[t], row, local[t]))
  BY <1>6 DEF Planned, Covers
<1>9. Sound(row, local[t], plan[t], NoRun, c)
  BY <1>4, <1>6, <1>8, Constants DEF Sound
<1>. QED
  BY <1>7, <1>9 DEF c

LEMMA FailedSafe ==
    ASSUME IInv, NEW t \in Tab, Safe(t), Fallback(t, GiveUp(t)),
           run[t].pc \in {"send", "write", "conflict", "answer"}, UNCHANGED <<row, local>>
    PROVE  Safe(t)'
<1>1. CASE run[t].mode \in {"single", "meta"}
  <2>1. /\ Goto(t, [run[t] EXCEPT !.pc = "send", !.mode = "full", !.key = {}])
        /\ SetPlan(t, NoteFull) /\ UNCHANGED risk
    BY <1>1 DEF Fallback
  <2>2. risk'[t] = {} => risk[t] = {}
    BY <2>1
  <2>. QED
    BY <2>1, <2>2, FallbackSafe, SafePrime
<1>2. CASE run[t].mode \notin {"single", "meta"}
  BY <1>2, GiveUpSafe DEF Fallback
<1>. QED
  BY <1>1, <1>2

LEMMA RefuseSafe ==
    ASSUME IInv, NEW t \in Tab, Safe(t), Refuse(t)
    PROVE  Safe(t)'
<1>. DEFINE r == [run[t] EXCEPT !.pc = "conflict"]
            c == timer'[t] \/ queue'[t] # <<>> \/ marked'[t]
<1>0. TypeOK /\ run[t] \in Run /\ run[t].pc = "send" /\ UNCHANGED <<row, local>>
  BY Fields DEF IInv, Refuse
<1>1. CASE run[t].mode \in {"single", "meta", "retry"}
  <2>1. Fallback(t, GiveUp(t))
    BY <1>1 DEF Refuse, Fallback
  <2>. QED
    BY <1>0, <2>1, FailedSafe
<1>2. CASE run[t].mode \notin {"single", "meta", "retry"}
  <2>. SUFFICES ASSUME risk'[t] = {}
                PROVE  Sound(row', local'[t], plan'[t], run'[t], c)
    BY SafePrime
  <2>1. Goto(t, r) /\ UNCHANGED <<plan, risk>>
    BY <1>2 DEF Refuse, Fallback
  <2>2. Sound(row, local[t], plan[t], run[t], Awaited(t))
    BY <1>0, <2>1, Now
  <2>3. run'[t] = r
    BY <1>0, <2>1 DEF Goto, TypeOK
  <2>4. r.pc = "conflict" /\ r.old = run[t].old /\ r.mode = run[t].mode
    BY <1>0 DEF Run
  <2>5. run[t].mode \in Modes
    BY <1>0, RunFields
  <2>6. r.mode = "full"
    BY <1>2, <2>4, <2>5 DEF Modes
  <2>7. plan[t].keys = {} /\ ~plan[t].meta /\ Typed(r.old) = Typed(local[t])
    BY <1>0, <2>2, <2>4 DEF Sound
  <2>. HIDE DEF r, c
  <2>8. Sound(row, local[t], plan[t], r, c)
    BY <2>4, <2>6, <2>7, SentInFull
  <2>. QED
    BY <1>0, <2>1, <2>3, <2>8
<1>. QED
  BY <1>1, <1>2

LEMMA ConflictSafe ==
    ASSUME IInv, NEW t \in Tab, Safe(t), Conflict(t)
    PROVE  Safe(t)'
<1>. DEFINE r == [run[t] EXCEPT !.pc = "send", !.mode = "retry", !.old.ver = row.ver]
            c == timer'[t] \/ queue'[t] # <<>> \/ marked'[t]
<1>. SUFFICES ASSUME risk'[t] = {}
              PROVE  Sound(row', local'[t], plan'[t], run'[t], c)
  BY SafePrime
<1>0. /\ TypeOK /\ run[t] \in Run /\ run[t].pc = "conflict" /\ UNCHANGED <<row, risk>>
      /\ row \in Audit /\ row.ver \in Nat /\ run[t].old \in Audit
  BY Fields, RunFields DEF IInv, Conflict
<1>1. CASE Replace(t, row) /\ Goto(t, NoRun)
  <2>1. local'[t] = row /\ plan'[t] = Empty /\ run'[t] = NoRun
    BY <1>0, <1>1, ReplaceStep, GotoStep, Constants
  <2>2. Has(row, row)
    BY <1>0, HasTyped
  <2>. HIDE DEF c
  <2>. QED
    BY <1>0, <2>1, <2>2, Settles, Constants
<1>2. CASE SetPlan(t, NoteFull) /\ Goto(t, r) /\ UNCHANGED local
  <2>1. Sound(row, local[t], plan[t], run[t], Awaited(t))
    BY <1>0, Now
  <2>2. Typed(run[t].old) = Typed(local[t])
    BY <1>0, <2>1 DEF Sound
  <2>3. r.pc = "send" /\ r.mode = "retry" /\ r.old = [run[t].old EXCEPT !.ver = row.ver]
    BY <1>0 DEF Run
  <2>4. Typed(r.old) = Typed(run[t].old)
    BY <1>0, <2>3, StampAlike
  <2>5. run'[t] = r /\ plan'[t] = NoteFull
    BY <1>0, <1>2, SetPlanStep, Constants DEF Goto, TypeOK
  <2>. HIDE DEF r, c
  <2>6. Sound(row, local[t], NoteFull, r, c)
    BY <2>2, <2>3, <2>4, Constants, SentInFull
  <2>. QED
    BY <1>0, <1>2, <2>5, <2>6
<1>. QED
  BY <1>1, <1>2 DEF Conflict

LEMMA SuccessSafe ==
    ASSUME IInv, NEW t \in Tab, Safe(t), Success(t)
    PROVE  Safe(t)'
<1>. DEFINE c == timer'[t] \/ queue'[t] # <<>> \/ marked'[t]
            a == [local[t] EXCEPT !.ver = run[t].ver]
            b == Stamped(a, now + 1)
<1>. SUFFICES ASSUME risk'[t] = {}
              PROVE  Sound(row', local'[t], plan'[t], run'[t], c)
  BY SafePrime
<1>0. /\ TypeOK /\ run[t] \in Run /\ local[t] \in Audit /\ row \in Audit /\ now + 1 \in Nat
      /\ run[t].ver \in Nat
  BY Fields, RunFields DEF IInv
<1>1. /\ run[t].pc = "answer" /\ SetLocal(t, b) /\ Goto(t, NoRun)
      /\ UNCHANGED <<row, plan, risk>>
  BY DEF Success
<1>2. Sound(row, local[t], plan[t], run[t], Awaited(t))
  BY <1>0, <1>1, Now
<1>3. Has(row, local[t]) /\ (plan[t].meta => plan[t].keys = {})
  BY <1>1, <1>2 DEF Sound
<1>4. a \in Audit /\ Typed(a) = Typed(local[t])
  BY <1>0, VersionType, StampAlike
<1>. HIDE DEF a
<1>5. b \in Audit /\ Typed(b) = Typed(a)
  BY <1>0, <1>4, StampedType, StampAlike
<1>. HIDE DEF b, c
<1>6. Has(row, b)
  BY <1>0, <1>3, <1>4, <1>5, HasTyped
<1>7. local'[t] = b /\ run'[t] = NoRun
  BY <1>0, <1>1, <1>5, SetLocalStep, GotoStep, Constants
<1>. QED
  BY <1>1, <1>3, <1>6, <1>7, Settles, Constants

LEMMA OfflineSafe ==
    ASSUME IInv, NEW t \in Tab, Safe(t), StartOffline(t)
    PROVE  Safe(t)'
<1>. SUFFICES ASSUME risk'[t] = {}
              PROVE  Sound(row', local'[t], plan'[t], run'[t],
                           timer'[t] \/ queue'[t] # <<>> \/ marked'[t])
  BY SafePrime
<1>1. TypeOK /\ Mark(t, TRUE) /\ UNCHANGED <<row, local, plan, run, risk>>
  BY DEF IInv, StartOffline
<1>2. marked'[t] = TRUE
  BY <1>1, MarkStep
<1>. QED
  BY <1>1, <1>2, Now, Waits

-----------------------------------------------------------------------------
(* Nothing is fetched beside the queue. *)
SafeInv == \A t \in Tab : Safe(t) /\ fetch[t].pc = "idle"

LEMMA InitSafe == Init => SafeInv
<1>. SUFFICES ASSUME Init, NEW t \in Tab PROVE Safe(t) /\ fetch[t].pc = "idle"
  BY DEF SafeInv
<1>1. TypeOK
  BY InitInv DEF IInv
<1>2. /\ local[t] = row /\ plan[t] = Empty /\ run[t] = NoRun /\ fetch[t] = NoFetch
  BY DEF Init
<1>3. Has(row, local[t])
  BY <1>1, <1>2, Fields, HasTyped
<1>4. Safe(t)
  BY <1>2, <1>3, Settles, Constants DEF Safe
<1>. QED
  BY <1>2, <1>4, Constants

LEMMA FetchStays ==
    ASSUME NEW t \in Tab, User(t) \/ Engine(t) \/ Failure(t)
    PROVE  fetch' = fetch
<1>1. User(t) => fetch' = fetch
  BY DEF User, EditRequirement, LeaveRequirement, SetStatus, EditMetadata, LeaveView, Edited
<1>2. Engine(t) => fetch' = fetch
  BY DEF Engine, TimerFires, Retry, Start, VersionAnswer, LoadAnswer, Select, WriteResult, Accept,
         Refuse, Conflict, Success
<1>3. Failure(t) => fetch' = fetch
  BY DEF Failure, StartOffline, PrepareLost, PatchLost
<1>. QED
  BY <1>1, <1>2, <1>3

LEMMA SafeStep ==
    ASSUME Alone, IInv, TypeOK', SafeInv, [Next]_vars
    PROVE  SafeInv'
<1>1. CASE UNCHANGED vars
  BY <1>1 DEF vars, SafeInv, Safe, Awaited
<1>2. CASE Next
  <2>. PICK t \in Tab : User(t) \/ Engine(t) \/ Failure(t) \/ Fetching(t)
    BY <1>2 DEF Next
  <2>0. Safe(t) /\ fetch[t].pc = "idle" /\ Reload[t] = {} /\ \A u \in Tab : u = t
    BY DEF SafeInv, Alone
  <2>1. ~Fetching(t)
    BY <2>0 DEF Fetching, FetchStart, FetchVersion, FetchLoad, FetchApply
  <2>. SUFFICES Safe(t)'
    <3>1. fetch' = fetch
      BY <2>1, FetchStays
    <3>. QED
      BY <2>0, <3>1 DEF SafeInv
  <2>2. CASE User(t)
    <3>1. ASSUME NEW k \in Req, EditRequirement(t, k) PROVE Safe(t)'
      BY <2>0, <3>1, RequirementSafe
    <3>2. ASSUME NEW k \in Req, LeaveRequirement(t, k) PROVE Safe(t)'
      BY <2>0, <3>2, LeaveSafe
    <3>3. ASSUME NEW s \in Status, SetStatus(t, s) PROVE Safe(t)'
      BY <2>0, <3>3, StatusSafe
    <3>4. CASE EditMetadata(t)
      BY <2>0, <3>4, MetadataSafe
    <3>5. CASE LeaveView(t)
      BY <2>0, <3>5, ChainedSafe DEF LeaveView, Kind
    <3>. QED
      BY <2>2, <3>1, <3>2, <3>3, <3>4, <3>5 DEF User
  <2>3. CASE Engine(t)
    <3>1. CASE TimerFires(t)
      BY <2>0, <3>1, ChainedSafe DEF TimerFires, Kind
    <3>2. CASE Retry(t)
      BY <2>0, <3>2, ChainedSafe DEF Retry, Kind
    <3>3. CASE Start(t)
      BY <2>0, <3>3, StartSafe
    <3>4. CASE VersionAnswer(t)
      BY <2>0, <3>4, VersionSafe
    <3>5. CASE LoadAnswer(t)
      BY <2>0, <3>5, LoadSafe
    <3>6. CASE Select(t)
      BY <2>0, <3>6, SelectSafe
    <3>7. CASE WriteResult(t)
      BY <2>0, <3>7, WriteSafe
    <3>8. CASE Accept(t)
      BY <2>0, <3>8, AcceptSafe
    <3>9. CASE Refuse(t)
      BY <2>0, <3>9, RefuseSafe
    <3>10. CASE Conflict(t)
      BY <2>0, <3>10, ConflictSafe
    <3>11. CASE Success(t)
      BY <2>0, <3>11, SuccessSafe
    <3>. QED
      BY <2>3, <3>1, <3>2, <3>3, <3>4, <3>5, <3>6, <3>7, <3>8, <3>9, <3>10, <3>11 DEF Engine
  <2>4. CASE Failure(t)
    <3>1. CASE StartOffline(t)
      BY <2>0, <3>1, OfflineSafe
    <3>2. CASE PrepareLost(t)
      BY <2>0, <3>2, PrepareLostSafe
    <3>3. CASE PatchLost(t)
      BY <2>0, <3>3, FailedSafe DEF PatchLost
    <3>. QED
      BY <2>4, <3>1, <3>2, <3>3 DEF Failure
  <2>. QED
    BY <2>1, <2>2, <2>3, <2>4
<1>. QED
  BY <1>1, <1>2

(* Of one tab whose state no reload replaces beside the queue: when it is quiet and its
   edits have met none of the five risks, the server has what was typed.  No fallback,
   409, lost request, lost answer, time offline or leftover plan (audit_sync_execute.ts,
   audit_sync_prepare.ts, connectivity_service.js) makes the engine forget an edit. *)
THEOREM AllIsSaved == Alone => (Spec => []SavedUnlessAtRisk)
<1>. SUFFICES ASSUME Alone PROVE Spec => []SavedUnlessAtRisk
  OBVIOUS
<1>1. IInv /\ IInv' /\ SafeInv /\ [Next]_vars => SafeInv'
  BY SafeStep DEF IInv
<1>2. IInv /\ SafeInv => SavedUnlessAtRisk
  <2>. SUFFICES ASSUME IInv, SafeInv, NEW t \in Tab, Quiet(t), risk[t] \subseteq {}
                PROVE  Typed(row) = Typed(local[t])
    BY DEF SavedUnlessAtRisk, SavedDespite
  <2>1. TypeOK /\ local[t] \in Audit /\ row \in Audit
    BY Fields DEF IInv
  <2>2. risk[t] = {} /\ Safe(t)
    BY DEF SafeInv
  <2>3. Sound(row, local[t], plan[t], run[t], Awaited(t))
    BY <2>1, <2>2, Now
  <2>4. ~Awaited(t) /\ run[t].pc = "idle" /\ ~Unsynced(local[t])
    BY DEF Quiet, Awaited
  <2>5. Has(row, local[t])
    BY <2>3, <2>4 DEF Sound
  <2>. QED
    BY <2>1, <2>5, HasTyped
<1>. QED
  BY <1>1, <1>2, InitSafe, Invariance, PTL DEF Spec
=============================================================================
