----------------------- MODULE AuditResultExpectations -----------------------
(***************************************************************************)
(* What the documents say of assessments, and AuditResults, written from   *)
(* the code, refutes.                                                      *)
(***************************************************************************)
EXTENDS AuditResults

(* In the requirement view the user confirms an assessment (docs/rulefile_editing_flow.md:86).
   The copy that is sent differs from the stored result in needsReview alone, which
   requirement_results_equal_for_last_updated does not compare: nothing is dispatched. *)
ConfirmedIsConfirmed ==
    [][click # NoClick /\ click' = NoClick /\ report' = NoReport /\ click.key \in DOMAIN res'
          => ~res'[click.key].review]_vars

(* A confirmation changes no mark.  It does, when a press or a reload came within its 250 ms. *)
ConfirmChangesNoMark ==
    [][click # NoClick /\ click' = NoClick /\ report' = NoReport /\ click.key \in DOMAIN res
          => \A d \in DOMAIN res[click.key].checks :
                res'[click.key].checks[d].overall = res[click.key].checks[d].overall]_vars

(* ResultsHaveRequirements and JudgedAsItReads also when the report is of another version
   than the one the audit has by then. *)
NoOrphans == DOMAIN res \subseteq Keys(at)
AlwaysJudgedAsItReads ==
    \A k \in DOMAIN res \cap Keys(at) :
        res[k].status # "not_audited" /\ ~res[k].review
            => res[k].on \in {r \in Requirements : Compared(r) = Compared(Req(at, k))}

(* docs/regelfilsuppdatering_arkiv_och_aterstallning.md:150-165 lists the texts of a requirement,
   observation, exceptions, tips, instructions, examples: "Om något av dessa fält skiljer sig mellan
   gammal och ny regelfil klassas kravet som uppdaterat/ändrat".  Somebody has read the texts, as
   they are now, of each requirement whose assessment is not marked for review.
   (has_requirement_content_changed, infoBlocks) *)
JudgedOnAllTexts ==
    ~stale => \A k \in DOMAIN res \cap Keys(at) :
        /\ \A i \in DOMAIN Req(at, k).checks : Req(at, k).checks[i].pcs # <<>>
        /\ res[k].status # "not_audited" /\ ~res[k].review
        => \E r \in Requirements : /\ res[k].on = r /\ r.info = Req(at, k).info
                                   /\ Compared(r) = Compared(Req(at, k))

(* An update drops no result: what is not carried over is in the archive.  When two old
   requirements find the same new one, by key and by name, one of them is lost. *)
NothingLost ==
    [][at' # at /\ ~stale' => Cardinality(DOMAIN res') + Cardinality(archive')
                     >= Cardinality(DOMAIN res) + Cardinality(archive)]_vars
=============================================================================
