---------------------------- MODULE AuditResults ----------------------------
(***************************************************************************)
(* The assessments of one part of an audit (a sample's requirementResults) *)
(* and the update of the audit's rule file: how statuses follow from what  *)
(* the auditor presses, how results move to the requirements of a newer    *)
(* rule file or to the archive, and how they are marked for review until   *)
(* somebody has judged or confirmed them again.                            *)
(*                                                                         *)
(* The state is that of one tab.  What other tabs do comes with reloads:   *)
(* their marks as the actions of this tab, their update of the rule file   *)
(* as Elsewhere.                                                           *)
(***************************************************************************)
EXTENDS Naturals, FiniteSets, SequencesExt

CONSTANTS File,      \* the published versions of the rule file, oldest first
          Unread,    \* nothing judged yet
          NoReport, NoClick,
          MaxActs    \* bound: presses, confirmations and reloads

(* A version is a sequence of requirements [key, name, text, info, checks]: name is
   [title, reference], info the texts that the editor of rule files keeps in infoBlocks, and
   the classifications, text all else that a requirement says, checks a sequence of
   [id, text, pcs], and pcs one of [id, text]. *)
ASSUME FileAssumption ==
    \A f \in DOMAIN File : \A i, j \in DOMAIN File[f] :
        File[f][i].key = File[f][j].key => i = j

(* Results are kept under the ids of checks and, in a check, of criteria. *)
IdsDiffer(s) == \A i, j \in DOMAIN s : s[i].id = s[j].id => i = j
IsSeq(s)     == s \in Seq(ToSet(s))

ASSUME FileShape ==
    /\ IsSeq(File) /\ File # <<>>
    /\ \A f \in DOMAIN File :
          /\ IsSeq(File[f])
          /\ \A r \in ToSet(File[f]) :
                /\ IsSeq(r.checks) /\ IdsDiffer(r.checks)
                /\ \A c \in ToSet(r.checks) : IsSeq(c.pcs) /\ IdsDiffer(c.pcs)

ASSUME BoundAssumption == MaxActs \in Nat

VARIABLES
    at,        \* the version of the rule file in the audit
    res,       \* requirementResults: from keys of requirements
    archive,   \* archivedRequirementResults
    report,    \* staged_analysis_report of the update view, with its file
    click,     \* a confirmation waiting for its 250 ms
    stale,     \* history: a report, or a confirmation, of another version was applied
    acts

vars == <<at, res, archive, report, click, stale, acts>>

Keys(f)   == {File[f][i].key : i \in DOMAIN File[f]}
Req(f, k) == File[f][CHOOSE i \in DOMAIN File[f] : File[f][i].key = k]
Ids(s)    == {s[i].id : i \in DOMAIN s}
Def(s, d) == s[CHOOSE i \in DOMAIN s : s[i].id = d]

(* What has_requirement_content_changed compares: a list of fields that infoBlocks,
   classifications and the reference are not in; checks in any order. *)
Compared(r) == [title |-> r.name.title, text |-> r.text, checks |-> ToSet(r.checks)]

-----------------------------------------------------------------------------
(* Statuses. *)

Aggregate(statuses) ==
    IF statuses \subseteq {"not_audited"} THEN "not_audited"
    ELSE IF statuses \cap {"not_audited", "partially_audited"} # {} THEN "partially_audited"
    ELSE IF "failed" \in statuses THEN "failed" ELSE "passed"

StatusOf(m, d) == IF d \in DOMAIN m THEN m[d] ELSE "not_audited"

(* The logics AND and OR of a check give the same. *)
CheckStatus(check, c) ==
    IF check.pcs = <<>> \/ c.overall = "not_applicable" THEN "passed"
    ELSE IF c.overall = "not_audited" THEN "not_audited"
    ELSE LET s == Aggregate({StatusOf(c.pcs, d) : d \in Ids(check.pcs)})
         IN  IF s = "not_audited" THEN "partially_audited" ELSE s

ReqStatus(r, x) ==
    IF r.checks = <<>> THEN x.status
    ELSE Aggregate({IF d \in DOMAIN x.checks THEN CheckStatus(Def(r.checks, d), x.checks[d])
                    ELSE "not_audited" : d \in Ids(r.checks)})

(* The stored statuses are computed again, from the definition r. *)
Settled(r, x) ==
    LET entry(d) == IF d \in Ids(r.checks)
                    THEN [x.checks[d] EXCEPT !.status = CheckStatus(Def(r.checks, d), x.checks[d])]
                    ELSE x.checks[d]
        y == [x EXCEPT !.checks = [d \in DOMAIN @ |-> entry(d)]]
    IN  [y EXCEPT !.status = ReqStatus(r, y)]

-----------------------------------------------------------------------------
(* The requirement view. *)

Empty == [d \in {} |-> "not_audited"]
Blank == [checks |-> Empty, status |-> "not_audited", review |-> FALSE, on |-> Unread]

Stored(k) == IF k \in DOMAIN res THEN res[k] ELSE Blank

(* load_and_prepare_view_data: a copy with an entry for all that is defined. *)
Opened(k) ==
    LET r == Req(at, k)
        x == Stored(k)
        entry(d) == IF d \in DOMAIN x.checks THEN x.checks[d]
                    ELSE [overall |-> "not_audited", status |-> "not_audited", pcs |-> Empty]
        all(d) == IF d \in Ids(r.checks)
                  THEN [entry(d) EXCEPT !.pcs = [p \in DOMAIN @ \cup Ids(Def(r.checks, d).pcs) |-> StatusOf(@, p)]]
                  ELSE entry(d)
    IN  Settled(r, [x EXCEPT !.checks = [d \in DOMAIN @ \cup Ids(r.checks) |-> all(d)]])

(* Entries that say nothing do not count when results are compared, and *)
(* neither does the mark for review.                                     *)
Said(x) ==
    LET pcs(d) == {<<p, x.checks[d].pcs[p]>> : p \in {q \in DOMAIN x.checks[d].pcs : x.checks[d].pcs[q] # "not_audited"}}
        said == {<<d, x.checks[d].overall, x.checks[d].status, pcs(d)>> : d \in DOMAIN x.checks}
    IN  <<x.status, {e \in said : e # <<e[1], "not_audited", "not_audited", {}>>}>>

Put(k, x) == [j \in DOMAIN res \cup {k} |-> IF j = k THEN x ELSE res[j]]

Act == acts < MaxActs /\ acts' = acts + 1

(* Seeded fault: a second press leaves nothing. *)
ToggleClearing(s, v) == IF s = v THEN "" ELSE v

Toggle(s, v) == IF s = v THEN "not_audited" ELSE v

(* The user judges k: the result is no longer in need of review. *)
Judged(k, x) == [Settled(Req(at, k), x) EXCEPT !.review = FALSE, !.on = Req(at, k)]

(* A press on "Stämmer" or "Stämmer inte" of check c. *)
Press(k, c, v) ==
    /\ Act
    /\ res' = Put(k, Judged(k, [Opened(k) EXCEPT !.checks[c].overall = Toggle(@, v)]))
    /\ UNCHANGED <<at, archive, report, click, stale>>

(* A press on a pass criterion, of a check that holds. *)
PressCriterion(k, c, p, v) ==
    /\ Act
    /\ Opened(k).checks[c].overall = "passed"
    /\ res' = Put(k, Judged(k, [Opened(k) EXCEPT !.checks[c].pcs[p] = Toggle(@, v)]))
    /\ UNCHANGED <<at, archive, report, click, stale>>

(* "Confirm" in the requirement view: a copy without the mark ... *)
Click(k) ==
    /\ Act
    /\ click = NoClick /\ report = NoReport
    /\ Stored(k).review
    /\ click' = [key |-> k, of |-> at,
                 result |-> [Opened(k) EXCEPT !.review = FALSE, !.on = Req(at, k)]]
    /\ UNCHANGED <<at, res, archive, report, stale>>

(* ... is stored 250 ms later, unless it equals what is stored then. *)
Fire ==
    /\ click # NoClick
    /\ LET k == click.key
           x == IF k \in Keys(at) THEN Settled(Req(at, k), click.result) ELSE click.result
           same == k \in DOMAIN res /\ Said(x) = Said(res[k])
       IN  /\ res' = IF same \/ k \notin Keys(at) THEN res ELSE Put(k, x)
           /\ stale' = (stale \/ (~same /\ click.of # at))
    /\ click' = NoClick
    /\ UNCHANGED <<at, archive, report, acts>>

-----------------------------------------------------------------------------
(* The list of updated assessments, and "no remarks" for what is not done. *)

Confirmed(k) ==
    IF k \in Keys(at) THEN [res[k] EXCEPT !.review = FALSE, !.on = Req(at, k)]
    ELSE [res[k] EXCEPT !.review = FALSE]

(* CONFIRM_SINGLE_REVIEWED_REQUIREMENT, CONFIRM_ALL_REVIEWED_REQUIREMENTS *)
Confirm(K) ==
    /\ Act
    /\ \E k \in K : res[k].review
    /\ res' = [k \in DOMAIN res |-> IF k \in K /\ res[k].review THEN Confirmed(k) ELSE res[k]]
    /\ UNCHANGED <<at, archive, report, click, stale>>

Inapplicable(r) ==
    [checks |-> [d \in Ids(r.checks) |-> [overall |-> "not_applicable", status |-> "passed",
                                          pcs |-> [p \in Ids(Def(r.checks, d).pcs) |-> "passed"]]],
     status |-> "passed", review |-> FALSE, on |-> r]

(* fill_gaps_in_requirement_result; the statuses of the checks stay as they are. *)
Filled(r, x) ==
    LET entry(d) == IF d \in DOMAIN x.checks THEN x.checks[d]
                    ELSE [overall |-> "not_audited", status |-> "not_audited", pcs |-> Empty]
        fill(d, e) ==
            IF d \notin Ids(r.checks) THEN e
            ELSE IF e.overall = "not_audited" THEN [e EXCEPT !.overall = "not_applicable"]
            ELSE IF e.overall = "passed"
                 THEN [e EXCEPT !.pcs = [p \in DOMAIN @ \cup Ids(Def(r.checks, d).pcs) |->
                          IF p \in Ids(Def(r.checks, d).pcs) /\ StatusOf(@, p) = "not_audited"
                          THEN "passed" ELSE StatusOf(@, p)]]
            ELSE e
        y == [x EXCEPT !.checks = [d \in DOMAIN @ \cup Ids(r.checks) |-> fill(d, entry(d))],
                       !.review = FALSE, !.on = r]
    IN  [y EXCEPT !.status = ReqStatus(r, y)]

(* MARK_ALL_UNREVIEWED_AS_PASSED and its kin: what is not, or half, judged. *)
BulkPass(K) ==
    LET open == {k \in K : ReqStatus(Req(at, k), Stored(k)) \in {"not_audited", "partially_audited"}}
        passed(k) == IF ReqStatus(Req(at, k), Stored(k)) = "not_audited" THEN Inapplicable(Req(at, k))
                     ELSE Filled(Req(at, k), res[k])
    IN  /\ Act
        /\ open # {}
        /\ res' = [k \in DOMAIN res \cup open |-> IF k \in open THEN passed(k) ELSE res[k]]
        /\ UNCHANGED <<at, archive, report, click, stale>>

-----------------------------------------------------------------------------
(* The update of the rule file. *)

(* The requirement of version n with the name of the i-th of version f: the last. *)
Named(f, n, i) == {j \in DOMAIN File[n] : /\ File[n][j].name = File[f][i].name
                                          /\ \A l \in DOMAIN File[n] : File[n][l].name = File[f][i].name => l <= j}

(* Of equal claims on a requirement by name, the first gets it; one by key comes before
   a claim by name only when its requirement does. *)
Match(f, n, i) ==
    LET k == File[f][i].key
        taken(m) == \E j \in 1..(i-1) : \/ File[f][j].key = m
                                        \/ File[f][j].key \notin Keys(n) /\ File[f][j].name = File[f][i].name
    IN  IF k \in Keys(n) THEN {k}
        ELSE {m \in {File[n][j].key : j \in Named(f, n, i)} : ~taken(m)}

(* Seeded fault: of a requirement only its text is compared. *)
ReportOfTexts(f, n) ==
    [of |-> f, to |-> n,
     removed |-> {File[f][i].key : i \in {j \in DOMAIN File[f] : Match(f, n, j) = {}}},
     updated |-> {File[f][i].key : i \in {j \in DOMAIN File[f] :
                     \E m \in Match(f, n, j) : Req(n, m).text # File[f][j].text}}]

(* analyze_rule_file_changes *)
Report(f, n) ==
    [of |-> f, to |-> n,
     removed |-> {File[f][i].key : i \in {j \in DOMAIN File[f] : Match(f, n, j) = {}}},
     updated |-> {File[f][i].key : i \in {j \in DOMAIN File[f] :
                     \E m \in Match(f, n, j) : Compared(Req(n, m)) # Compared(File[f][j])}}]

(* Seeded fault: the results of a requirement stay under its old key. *)
HomeKept(f, n, k) == k

(* Where apply_rule_file_update puts the results of k (key_change_map). *)
Home(f, n, k) ==
    IF k \in Keys(n) \/ k \notin Keys(f) THEN k
    ELSE LET i == CHOOSE j \in DOMAIN File[f] : File[f][j].key = k
         IN  IF Named(f, n, i) = {} THEN k ELSE File[n][CHOOSE j \in Named(f, n, i) : TRUE].key

(* Seeded fault: checks and criteria are paired by their ids. *)
PairedById(old, new) == {q \in (DOMAIN old) \X (DOMAIN new) : old[q[1]].id = new[q[2]].id}

(* build_check_and_pc_id_mappings: equal texts are paired in their order. *)
Nth(s, i) == Cardinality({j \in 1..i : s[j].text = s[i].text})
Paired(old, new) == {q \in (DOMAIN old) \X (DOMAIN new) :
                        old[q[1]].text = new[q[2]].text /\ Nth(old, q[1]) = Nth(new, q[2])}

(* remap_requirement_result_to_new_ids, one level *)
Moved(old, new, m) ==
    LET ids == {<<old[q[1]].id, new[q[2]].id>> : q \in Paired(old, new)}
        from(d) == (CHOOSE q \in ids : q[2] = d)[1]
    IN  [d \in {q[2] : q \in {z \in ids : z[1] \in DOMAIN m}} |-> <<from(d), m[from(d)]>>]

Remapped(old, new, checks) ==
    LET moved == Moved(old.checks, new.checks, checks)
        pcs(d) == LET e == moved[d]
                      p == Moved(Def(old.checks, e[1]).pcs, Def(new.checks, d).pcs, e[2].pcs)
                  IN  [q \in DOMAIN p |-> p[q][2]]
    IN  [d \in DOMAIN moved |-> [moved[d][2] EXCEPT !.pcs = pcs(d)]]

(* Seeded fault: the statuses stay as they were stored. *)
RecalculatedNever(n, h, x) == x

(* recalculateStatusesOnLoad *)
Recalculated(n, h, x) == IF h \in Keys(n) THEN Settled(Req(n, h), x) ELSE x

(* apply_rule_file_update, for the results of k at h *)
Carried(rep, k, h) ==
    LET x == IF k \in Keys(at) /\ h \in Keys(rep.to)
             THEN [res[k] EXCEPT !.checks = Remapped(Req(at, k), Req(rep.to, h), @)] ELSE res[k]
    IN  Recalculated(rep.to, h,
            [x EXCEPT !.review = @ \/ (k \in rep.updated /\ x.status # "not_audited")])

(* When results of several requirements come to one home, the one inserted last stays. *)
Apply(rep) ==
    LET kept == DOMAIN res \ rep.removed
        home == [k \in kept |-> Home(at, rep.to, k)]
    IN  /\ \E last \in [{home[k] : k \in kept} -> kept] :
              /\ \A h \in DOMAIN last : home[last[h]] = h
              /\ res' = [h \in DOMAIN last |-> Carried(rep, last[h], h)]
        /\ archive' = archive \cup {[key |-> k, of |-> at, checks |-> res[k].checks] : k \in DOMAIN res \cap rep.removed}
        /\ at' = rep.to

(* The update view gets the published file and analyses it; a pending confirmation of the
   view that was left finds no requirement any more. *)
Analyze(n) ==
    /\ n > at
    /\ report' = Report(at, n)
    /\ click' = NoClick
    /\ UNCHANGED <<at, res, archive, stale, acts>>

Abandon ==
    /\ report # NoReport
    /\ report' = NoReport
    /\ UNCHANGED <<at, res, archive, click, stale, acts>>

Update ==
    /\ report # NoReport
    /\ Apply(report)
    /\ stale' = (stale \/ report.of # at)
    /\ report' = NoReport
    /\ UNCHANGED <<click, acts>>

(* Another tab has updated the rule file, and this one reloads. *)
Elsewhere(n) ==
    /\ Act
    /\ n > at
    /\ Apply(Report(at, n))
    /\ UNCHANGED <<report, click, stale>>

-----------------------------------------------------------------------------
Init ==
    /\ at = 1
    /\ res = [k \in {} |-> Blank]
    /\ archive = {}
    /\ report = NoReport /\ click = NoClick
    /\ stale = FALSE
    /\ acts = 0

Judge(k) ==
    \E c \in Ids(Req(at, k).checks) :
        \/ \E v \in {"passed", "not_applicable"} : Press(k, c, v)
        \/ \E p \in Ids(Def(Req(at, k).checks, c).pcs), v \in {"passed", "failed"} : PressCriterion(k, c, p, v)

Next ==
    \/ \E k \in Keys(at) : Judge(k) \/ Click(k) \/ BulkPass({k})
    \/ Fire
    \/ \E k \in DOMAIN res : Confirm({k})
    \/ Confirm(DOMAIN res)
    \/ BulkPass(Keys(at))
    \/ \E n \in DOMAIN File : Analyze(n) \/ Elsewhere(n)
    \/ Abandon
    \/ Update

Spec == Init /\ [][Next]_vars
-----------------------------------------------------------------------------
Status == {"not_audited", "partially_audited", "passed", "failed"}
Requirements == UNION {ToSet(File[f]) : f \in DOMAIN File}

(* The shape of the state. *)
TypeOK ==
    /\ at \in DOMAIN File
    /\ \A k \in DOMAIN res :
          /\ k \in UNION {Keys(f) : f \in DOMAIN File}
          /\ res[k].status \in Status /\ res[k].review \in BOOLEAN /\ res[k].on \in Requirements \cup {Unread}
          /\ \A d \in DOMAIN res[k].checks :
                LET c == res[k].checks[d] IN
                /\ c.overall \in {"not_audited", "passed", "not_applicable"}
                /\ c.status \in Status
                /\ \A p \in DOMAIN c.pcs : c.pcs[p] \in {"not_audited", "passed", "failed"}
    /\ acts \in 0..MaxActs

(* The status stored with a requirement is the one that follows from the marks and the
   rule file the audit has now, whichever way they came (recalculateStatusesOnLoad,
   dispatch_result_update, gap fill). *)
StatusFollowsMarks ==
    \A k \in DOMAIN res \cap Keys(at) : res[k].status = ReqStatus(Req(at, k), res[k])

(* An assessment that is not marked for review was judged, or confirmed, by somebody who
   read the requirement as it is now in all that an update compares; infoBlocks it does not
   (has_requirement_content_changed, needsReview).  A check without criteria is passed
   without anybody's judgement. *)
JudgedAsItReads ==
    ~stale => \A k \in DOMAIN res \cap Keys(at) :
        (\A i \in DOMAIN Req(at, k).checks : Req(at, k).checks[i].pcs # <<>>)
        /\ res[k].status # "not_audited" /\ ~res[k].review
            => res[k].on \in {r \in Requirements : Compared(r) = Compared(Req(at, k))}

(* No result is left where no view shows it: each has its requirement in the rule file. *)
ResultsHaveRequirements == ~stale => DOMAIN res \subseteq Keys(at)

(* Requirement k of version f lives on as m in version n: under its key, or under its
   name and a key that is new. *)
LivesOn(f, n, k, m) ==
    \/ m = k
    \/ k \notin Keys(n) /\ m \notin Keys(f) /\ Req(n, m).name = Req(f, k).name

Once(s, t) == Cardinality({i \in DOMAIN s : s[i].text = t}) = 1

(* The marks of x under r are those of y under q, wherever the texts are the same. *)
SameMarks(r, x, q, y) ==
    \A c \in ToSet(r.checks), d \in ToSet(q.checks) :
        c.text = d.text /\ Once(r.checks, c.text) /\ Once(q.checks, c.text) /\ c.id \in DOMAIN x.checks
            => /\ d.id \in DOMAIN y.checks
               /\ y.checks[d.id].overall = x.checks[c.id].overall
               /\ \A p \in ToSet(c.pcs), o \in ToSet(d.pcs) :
                     p.text = o.text /\ Once(c.pcs, p.text) /\ Once(d.pcs, o.text)
                         => StatusOf(y.checks[d.id].pcs, o.id) = StatusOf(x.checks[c.id].pcs, p.id)

(* An update of the rule file loses no work: the marks on a requirement that lives on
   stay with the texts they were set for, and the results of one that is gone are in
   the archive (docs/regelfilsuppdatering_arkiv_och_aterstallning.md, 1.6). *)
WorkSurvivesUpdate ==
    [][at' # at /\ ~stale' =>
         \A k \in DOMAIN res \cap Keys(at) :
            \/ \E m \in DOMAIN res' \cap Keys(at') :
                  LivesOn(at, at', k, m) /\ SameMarks(Req(at, k), res[k], Req(at', m), res'[m])
            \/ /\ \A m \in Keys(at') : ~LivesOn(at, at', k, m)
               /\ [key |-> k, of |-> at, checks |-> res[k].checks] \in archive']_vars
=============================================================================
