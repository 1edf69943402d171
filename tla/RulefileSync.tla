---------------------------- MODULE RulefileSync ----------------------------
(***************************************************************************)
(* Several tabs edit the same working copy of a rule file.  A tab keeps    *)
(* the whole content (js/state), the editor of a requirement keeps its     *)
(* own copy of that requirement (EditRulefileRequirementComponent.ts).     *)
(* What the editor holds is put into the state when a field loses the      *)
(* focus; 500 ms later the whole content is PUT, without a version         *)
(* (js/sync/rulefile_sync_service.js).  Fields of information blocks are   *)
(* sent at once as well, with the version (PATCH content-part).  Every     *)
(* answer, and the poll (js/logic/rulefile_view_poll_service.js), replaces *)
(* the content of the tab by the server's.                                 *)
(*                                                                         *)
(* A requirement is one value: the time of the edit it was given by, 0 at  *)
(* first.  Requests are not serialised and may overtake one another.       *)
(***************************************************************************)
EXTENDS Naturals, FiniteSetsExt

CONSTANTS Tab, Req,
          InfoBlock,   \* requirements whose field is the text of an information block
          NoReq,       \* no requirement: the editor is not shown
          MaxCalls,    \* bound: per tab, its requests in flight at the same time
          MaxEdits,    \* bound: edits of all tabs
          MaxTurns     \* bound: how often a user goes to another editor or leaves a
                       \* field unchanged, a request or answer is lost, or a save
                       \* is made offline

ASSUME NoReqAssumption == NoReq \notin Req
ASSUME InfoBlockAssumption == InfoBlock \subseteq Req
ASSUME BoundsAssumption == MaxCalls \in [Tab -> Nat] /\ MaxEdits \in Nat /\ MaxTurns \in Nat

Content == [Req -> Nat]
Call    == 1..Max({MaxCalls[t] : t \in Tab})
Copy    == [ver : Nat, content : Content]

VARIABLES
    row,      \* the row of rule_sets
    local,    \* ruleFileContent and ruleFileServerVersion of a tab
    form,     \* the editor: its requirement and its copy of it
    timer,    \* rulefile_debounce_timer is set
    marked,   \* the pending mark of the rule file
    calls,    \* requests in flight
    fetch,    \* poll_once
    now, turns,
    saved     \* history: the edits that have been in the row

tabs == <<local, form, timer, marked, calls, fetch>>
vars == <<row, tabs, now, turns, saved>>

Form  == [req : Req \cup {NoReq}, value : Nat]
Kind  == {"none", "put", "retry", "patch"}
Puts  == {"put", "retry"}
Asked == [kind : Kind, at : {"sent", "answered"},
          req : Req \cup {NoReq}, base : Nat, body : Content, answer : Copy]
Poll  == [at : {"idle", "load", "apply"}, ver : Nat, got : Content]

Blank    == [r \in Req |-> 0]
First    == [ver |-> 1, content |-> Blank]
NoCall   == [kind |-> "none", at |-> "sent", req |-> NoReq, base |-> 0, body |-> Blank, answer |-> First]
NotPolling == [at |-> "idle", ver |-> 0, got |-> Blank]

(* The editor of r in a tab that shows the content x. *)
Editor(r, x) == [req |-> r, value |-> IF r = NoReq THEN 0 ELSE x[r]]

Init ==
    /\ row = First
    /\ local = [t \in Tab |-> First]
    /\ form \in [Tab -> {Editor(r, Blank) : r \in Req}]
    /\ timer = [t \in Tab |-> FALSE]
    /\ marked = [t \in Tab |-> FALSE]
    /\ calls = [t \in Tab |-> [c \in Call |-> NoCall]]
    /\ fetch = [t \in Tab |-> NotPolling]
    /\ now = 0 /\ turns = 0
    /\ saved = {0}

-----------------------------------------------------------------------------
Turn == turns < MaxTurns /\ turns' = turns + 1

Unused(t) == {c \in Call : c <= MaxCalls[t] /\ calls[t][c].kind = "none"}

Post(t, request) ==
    /\ Unused(t) # {}
    /\ calls' = [calls EXCEPT ![t][CHOOSE c \in Unused(t) : TRUE] = request]

(* run_sync_rulefile: a PUT of the whole content, or offline a mark. *)
PutAll(t, kind, x) == /\ Post(t, [NoCall EXCEPT !.kind = kind, !.body = x])
                      /\ UNCHANGED marked
Mark(t) == /\ Turn
           /\ marked' = [marked EXCEPT ![t] = TRUE]
           /\ UNCHANGED calls

(* What the form holds when it is left: what it held, or something new. *)
Typed(t, v) ==
    \/ v = form[t].value /\ UNCHANGED now
    \/ v = now + 1 /\ now < MaxEdits /\ now' = v

(* UPDATE_REQUIREMENT_DEFINITION replaces the requirement by the form's copy. *)
Put(t, v) == local' = [local EXCEPT ![t].content[form[t].req] = v]

(* focusout: into the state, the timer starts again, and the text of an
   information block is sent at once with the version of the state. *)
Leave(t, v) ==
    /\ form[t].req # NoReq
    /\ Typed(t, v)
    /\ IF v = form[t].value THEN Turn ELSE UNCHANGED turns
    /\ Put(t, v)
    /\ form' = [form EXCEPT ![t].value = v]
    /\ timer' = [timer EXCEPT ![t] = TRUE]
    /\ IF form[t].req \in InfoBlock
         THEN Post(t, [NoCall EXCEPT !.kind = "patch", !.req = form[t].req,
                                !.base = local[t].ver, !.body[form[t].req] = v])
         ELSE UNCHANGED calls
    /\ UNCHANGED <<row, marked, fetch, saved>>

(* Another requirement, or none: destroy() of the editor puts its copy into the
   state once more, the next editor takes its copy from there. *)
Go(t, r) ==
    /\ r # form[t].req
    /\ Turn
    /\ IF form[t].req = NoReq
         THEN UNCHANGED <<local, timer>>
         ELSE Put(t, form[t].value) /\ timer' = [timer EXCEPT ![t] = TRUE]
    /\ form' = [form EXCEPT ![t] = Editor(r, local'[t].content)]
    /\ UNCHANGED <<row, marked, calls, fetch, now, saved>>

(* The save button: flush_rulefile_editing_sync_if_active, then another view. *)
Submit(t, v) ==
    /\ form[t].req # NoReq
    /\ Typed(t, v)
    /\ Put(t, v)
    /\ form' = [form EXCEPT ![t] = Editor(NoReq, Blank)]
    /\ timer' = [timer EXCEPT ![t] = FALSE]
    /\ \/ /\ PutAll(t, "put", local'[t].content)
          /\ IF v = form[t].value THEN Turn ELSE UNCHANGED turns
       \/ Mark(t)
    /\ UNCHANGED <<row, fetch, saved>>

TimerFires(t) ==
    /\ timer[t]
    /\ timer' = [timer EXCEPT ![t] = FALSE]
    /\ \/ PutAll(t, "put", local[t].content) /\ UNCHANGED turns
       \/ Mark(t)
    /\ UNCHANGED <<row, local, form, fetch, now, saved>>

(* attempt_pending_sync_flush, when online; it waits for its PUT before it runs
   again. *)
Retry(t) ==
    /\ marked[t]
    /\ \A c \in Call : calls[t][c].kind # "retry"
    /\ timer' = [timer EXCEPT ![t] = FALSE]
    /\ PutAll(t, "retry", local[t].content)
    /\ UNCHANGED <<row, local, form, fetch, now, turns, saved>>

-----------------------------------------------------------------------------
(* The server. *)

(* Seeded fault: the UPDATE without version = version + 1. *)
WriteUncounted(content) == /\ row' = [row EXCEPT !.content = content]
                           /\ saved' = saved \cup {content[r] : r \in Req}

Write(content) == /\ row' = [ver |-> row.ver + 1, content |-> content]
                  /\ saved' = saved \cup {content[r] : r \in Req}

(* Seeded fault: the answer has the content only. *)
AnswerContentOnly(t, c) ==
    calls' = [calls EXCEPT ![t][c] = [NoCall EXCEPT !.kind = calls[t][c].kind, !.at = "answered",
                                       !.answer = [content |-> row'.content]]]

Answer(t, c) == calls' = [calls EXCEPT ![t][c] = [NoCall EXCEPT !.kind = calls[t][c].kind,
                                                   !.at = "answered", !.answer = row']]

Done(t, c) == calls' = [calls EXCEPT ![t][c] = NoCall]

(* PUT /:id: UPDATE ... WHERE id, whatever the version is. *)
ServePut(t, c) ==
    /\ calls[t][c].kind \in Puts /\ calls[t][c].at = "sent"
    /\ Write(calls[t][c].body)
    /\ Answer(t, c)
    /\ UNCHANGED <<local, form, timer, marked, fetch, now, turns>>

(* PATCH /:id/content-part: one value, when the version is still the same.  A
   409 is ignored by the tab: the poll is to fetch what is newer. *)
ServePatch(t, c) ==
    LET call == calls[t][c] IN
    /\ call.kind = "patch" /\ call.at = "sent"
    /\ IF call.base = row.ver
         THEN /\ Write([row.content EXCEPT ![call.req] = call.body[call.req]])
              /\ Answer(t, c)
         ELSE /\ UNCHANGED <<row, saved>>
              /\ Done(t, c)
    /\ UNCHANGED <<local, form, timer, marked, fetch, now, turns>>

-----------------------------------------------------------------------------
(* REPLACE_RULEFILE_FROM_REMOTE.  The editor is rendered anew from the state,
   unless the focus is in one of its fields. *)
Replace(t, ver, content) ==
    /\ local' = [local EXCEPT ![t] = [ver |-> ver, content |-> content]]
    /\ \/ UNCHANGED form
       \/ /\ form[t].req # NoReq
          /\ form' = [form EXCEPT ![t].value = content[form[t].req]]

PutAnswered(t, c) ==
    /\ calls[t][c].kind \in Puts /\ calls[t][c].at = "answered"
    /\ Replace(t, calls[t][c].answer.ver, calls[t][c].answer.content)
    /\ marked' = [marked EXCEPT ![t] = FALSE]
    /\ Done(t, c)
    /\ UNCHANGED <<row, timer, fetch, now, turns, saved>>

PatchAnswered(t, c) ==
    /\ calls[t][c].kind = "patch" /\ calls[t][c].at = "answered"
    /\ Replace(t, calls[t][c].answer.ver, calls[t][c].answer.content)
    /\ Done(t, c)
    /\ UNCHANGED <<row, timer, marked, fetch, now, turns, saved>>

(* Seeded fault: a lost PUT leaves no mark. *)
LostUnmarked(t, c) ==
    /\ calls[t][c].kind # "none"
    /\ Turn
    /\ Done(t, c)
    /\ UNCHANGED <<row, local, form, timer, marked, fetch, now, saved>>

(* The request or its answer is lost: a PUT leaves a mark, a PATCH nothing. *)
Lost(t, c) ==
    /\ calls[t][c].kind # "none"
    /\ Turn
    /\ marked' = [marked EXCEPT ![t] = marked[t] \/ calls[t][c].kind \in Puts]
    /\ Done(t, c)
    /\ UNCHANGED <<row, local, form, timer, fetch, now, saved>>

-----------------------------------------------------------------------------
(* poll_once: when the server's version is higher the content is loaded by a
   second request, and replaces the state under the version of the first.  The
   version of the state is taken before the first request is answered; that it
   may have changed by then is the same as an earlier answer. *)
PollAt(t, f) == fetch' = [fetch EXCEPT ![t] = f]

PollStartLate(t) == \* seeded fault: one version behind is near enough
    /\ fetch[t].at = "idle" /\ row.ver > local[t].ver + 1
    /\ PollAt(t, [NotPolling EXCEPT !.at = "load", !.ver = row.ver])
    /\ UNCHANGED <<row, local, form, timer, marked, calls, now, turns, saved>>

PollStart(t) ==
    /\ fetch[t].at = "idle" /\ row.ver > local[t].ver
    /\ PollAt(t, [NotPolling EXCEPT !.at = "load", !.ver = row.ver])
    /\ UNCHANGED <<row, local, form, timer, marked, calls, now, turns, saved>>

PollLoad(t) ==
    /\ fetch[t].at = "load"
    /\ PollAt(t, [fetch[t] EXCEPT !.at = "apply", !.got = row.content])
    /\ UNCHANGED <<row, local, form, timer, marked, calls, now, turns, saved>>

PollApply(t) ==
    /\ fetch[t].at = "apply"
    /\ Replace(t, fetch[t].ver, fetch[t].got)
    /\ PollAt(t, NotPolling)
    /\ UNCHANGED <<row, timer, marked, calls, now, turns, saved>>

-----------------------------------------------------------------------------
Edit(t) ==
    \/ \E r \in Req \cup {NoReq} : Go(t, r)
    \/ \E v \in {form[t].value, now + 1} : Leave(t, v) \/ Submit(t, v)

Polling(t) == PollStart(t) \/ PollLoad(t) \/ PollApply(t)

Served(t, c)   == ServePut(t, c) \/ ServePatch(t, c)
Answered(t, c) == PutAnswered(t, c) \/ PatchAnswered(t, c)

(* What goes on without the user: timers, retries and polls come round, requests
   are answered. *)
Machine(t) ==
    \/ TimerFires(t) \/ Retry(t) \/ Polling(t)
    \/ \E c \in Call : Served(t, c) \/ Answered(t, c)

Next == \E t \in Tab : Edit(t) \/ Machine(t) \/ \E c \in Call : Lost(t, c)

Spec == Init /\ [][Next]_vars

(* Each of these steps brings some request, timer or poll nearer to its end, so it is
   enough that not all tabs stand still. *)
FairSpec == Spec /\ WF_vars(\E t \in Tab : Machine(t))

-----------------------------------------------------------------------------
TypeOK ==
    /\ row \in Copy /\ local \in [Tab -> Copy]
    /\ form \in [Tab -> Form]
    /\ timer \in [Tab -> BOOLEAN] /\ marked \in [Tab -> BOOLEAN]
    /\ calls \in [Tab -> [Call -> Asked]]
    /\ fetch \in [Tab -> Poll]
    /\ now \in Nat /\ turns \in Nat
    /\ saved \subseteq Nat

(* A PUT of t that the server has not seen yet. *)
PutSent(t) == \E c \in Call : calls[t][c].kind \in Puts /\ calls[t][c].at = "sent"

(* A tab at the server's version shows the server's content, or has something
   that will send what it shows.  Tabs take over versions from answers that
   overtake one another and, in the poll, from another request than the
   content; a version too high would hide from the poll, for ever, what the
   tab does not have. *)
SameVersionSameContent ==
    \A t \in Tab : /\ local[t].ver <= row.ver
                   /\ local[t].ver = row.ver => \/ local[t].content = row.content
                                                \/ timer[t] \/ marked[t] \/ PutSent(t)

(* What a tab shows and the server has never had is on its way: the timer runs,
   the mark is set, or a PUT carries it. *)
WorkHasACarrier ==
    \A t \in Tab, r \in Req :
        local[t].content[r] \notin saved =>
            \/ timer[t] \/ marked[t]
            \/ \E c \in Call : /\ calls[t][c].kind \in Puts /\ calls[t][c].at = "sent"
                               /\ calls[t][c].body[r] = local[t].content[r]

(* When the users rest, every tab comes to show what the server has: saves that
   overwrite one another do not go round for ever, no tab is left behind. *)
TabsConverge == <>[](\A t \in Tab : local[t] = row)
=============================================================================
