------------------------- MODULE RulefileSyncProofs -------------------------
(***************************************************************************)
(* Proofs about RulefileSync, for any number of tabs, requirements,        *)
(* overlapping requests and edits: types, that a tab at the server's       *)
(* version shows the server's content or is about to send its own, and     *)
(* that nothing typed is left without something that will send it.         *)
(***************************************************************************)
EXTENDS RulefileSync, TLAPS

USE NoReqAssumption

LEMMA Constants ==
    /\ Blank \in Content /\ First \in Copy
    /\ NoCall \in Asked /\ NoCall.kind = "none" /\ NoCall.at = "sent"
    /\ NotPolling \in Poll /\ NotPolling.at = "idle"
  BY DEF Blank, Content, First, Copy, NoCall, Asked, Kind, NotPolling, Poll

LEMMA EditorType ==
    ASSUME NEW r \in Req \cup {NoReq}, NEW x \in Content
    PROVE  Editor(r, x) \in Form
  BY DEF Editor, Form, Content

LEMMA InitTypes == Init => TypeOK
<1>. SUFFICES ASSUME Init PROVE TypeOK
  OBVIOUS
<1>1. form \in [Tab -> Form]
  BY EditorType, Constants DEF Init
<1>. QED
  BY <1>1, Constants DEF Init, TypeOK

-----------------------------------------------------------------------------
(* What the building blocks of the actions do.                             *)

(* The other requests stay as they are. *)
OnlyCall(t, c) ==
    /\ calls' \in [Tab -> [Call -> Asked]]
    /\ \A u \in Tab, d \in Call : u # t \/ d # c => calls'[u][d] = calls[u][d]

LEMMA PostStep ==
    ASSUME TypeOK, NEW t \in Tab, NEW a \in Asked, Post(t, a)
    PROVE  \E c \in Call : /\ calls[t][c].kind = "none"
                           /\ calls'[t][c] = a
                           /\ OnlyCall(t, c)
<1>1. PICK c \in Unused(t) : calls' = [calls EXCEPT ![t][c] = a]
  BY DEF Post
<1>2. c \in Call /\ calls[t][c].kind = "none"
  BY DEF Unused
<1>3. calls'[t][c] = a /\ OnlyCall(t, c)
  BY <1>1, <1>2 DEF TypeOK, OnlyCall
<1>. QED
  BY <1>2, <1>3

LEMMA DoneStep ==
    ASSUME TypeOK, NEW t \in Tab, NEW c \in Call, Done(t, c)
    PROVE  calls'[t][c] = NoCall /\ OnlyCall(t, c)
  BY Constants DEF Done, TypeOK, OnlyCall

LEMMA AnswerStep ==
    ASSUME TypeOK, NEW t \in Tab, NEW c \in Call, Answer(t, c), row' \in Copy
    PROVE  /\ calls'[t][c].kind = calls[t][c].kind
           /\ calls'[t][c].at = "answered"
           /\ calls'[t][c].answer = row'
           /\ OnlyCall(t, c)
<1>. DEFINE a == [NoCall EXCEPT !.kind = calls[t][c].kind, !.at = "answered", !.answer = row']
<1>1. calls[t][c].kind \in Kind
  BY DEF TypeOK, Asked
<1>2. /\ a \in Asked
      /\ a.kind = calls[t][c].kind /\ a.at = "answered" /\ a.answer = row'
  BY <1>1, Constants DEF Asked
<1>3. calls' = [calls EXCEPT ![t][c] = a]
  BY DEF Answer
<1>. QED
  BY <1>2, <1>3 DEF TypeOK, OnlyCall

(* The other tabs show what they showed. *)
OnlyTab(t) ==
    /\ local' \in [Tab -> Copy]
    /\ \A u \in Tab : u # t => local'[u] = local[u]

LEMMA PutStep ==
    ASSUME TypeOK, NEW t \in Tab, form[t].req # NoReq, NEW v \in Nat, Put(t, v)
    PROVE  /\ local'[t].ver = local[t].ver
           /\ OnlyTab(t)
<1>1. form[t].req \in Req /\ local[t] \in Copy
  BY DEF TypeOK, Form
<1>. DEFINE x == [local[t] EXCEPT !.content[form[t].req] = v]
<1>2. x.ver = local[t].ver /\ x \in Copy
  BY <1>1 DEF Copy, Content
<1>3. local' = [local EXCEPT ![t] = x]
  BY DEF Put
<1>. QED
  BY <1>2, <1>3 DEF TypeOK, OnlyTab

LEMMA ReplaceStep ==
    ASSUME TypeOK, NEW t \in Tab, NEW ver \in Nat, NEW content \in Content, Replace(t, ver, content)
    PROVE  /\ local'[t] = [ver |-> ver, content |-> content]
           /\ OnlyTab(t)
           /\ form' \in [Tab -> Form]
<1>1. [ver |-> ver, content |-> content] \in Copy
  BY DEF Copy
<1>2. CASE UNCHANGED form
  BY <1>1, <1>2 DEF Replace, TypeOK, OnlyTab
<1>3. CASE form[t].req # NoReq /\ form' = [form EXCEPT ![t].value = content[form[t].req]]
  <2>1. content[form[t].req] \in Nat /\ form[t] \in Form
    BY <1>3 DEF TypeOK, Form, Content
  <2>2. [form[t] EXCEPT !.value = content[form[t].req]] \in Form
    BY <2>1 DEF Form
  <2>. QED
    BY <1>1, <1>3, <2>2 DEF Replace, TypeOK, OnlyTab
<1>. QED
  BY <1>2, <1>3 DEF Replace

LEMMA WriteStep ==
    ASSUME TypeOK, NEW x \in Content, Write(x)
    PROVE  /\ row' = [ver |-> row.ver + 1, content |-> x] /\ row' \in Copy
           /\ saved \subseteq saved' /\ (\A r \in Req : x[r] \in saved') /\ saved' \subseteq Nat
<1>1. row.ver \in Nat
  BY DEF TypeOK, Copy
<1>2. row' = [ver |-> row.ver + 1, content |-> x] /\ row' \in Copy
  BY <1>1 DEF Write, Copy
<1>3. /\ saved \subseteq saved' /\ \A r \in Req : x[r] \in saved'
      /\ saved' \subseteq Nat
  <2>1. \A r \in Req : x[r] \in Nat
    BY DEF Content
  <2>. QED
    BY <2>1 DEF Write, TypeOK
<1>. QED
  BY <1>2, <1>3

-----------------------------------------------------------------------------
(* Types.                                                                  *)

(* The tab's answer and its poll hold a copy. *)
LEMMA CallTypes ==
    ASSUME TypeOK, NEW t \in Tab
    PROVE  /\ local[t].ver \in Nat /\ local[t].content \in Content
           /\ form[t].value \in Nat /\ form[t].req \in Req \cup {NoReq}
           /\ fetch[t] \in Poll /\ fetch[t].ver \in Nat /\ fetch[t].got \in Content
           /\ \A c \in Call : /\ calls[t][c] \in Asked /\ calls[t][c].body \in Content
                               /\ calls[t][c].req \in Req \cup {NoReq}
                               /\ calls[t][c].answer.ver \in Nat
                               /\ calls[t][c].answer.content \in Content
  BY DEF TypeOK, Copy, Form, Poll, Asked

(* The requests the actions post. *)
LEMMA PostedTypes ==
    /\ \A x \in Content, k \in Puts :
          LET a == [NoCall EXCEPT !.kind = k, !.body = x]
          IN  a \in Asked /\ a.kind = k /\ a.at = "sent" /\ a.body = x
    /\ \A q \in Req, b \in Nat, v \in Nat :
          LET a == [NoCall EXCEPT !.kind = "patch", !.req = q, !.base = b, !.body[q] = v]
          IN  a \in Asked /\ a.at = "sent"
  BY Constants DEF Asked, Kind, Puts, NoCall, Content, Blank

LEMMA TypedType ==
    ASSUME TypeOK, NEW t \in Tab, NEW v, Typed(t, v)
    PROVE  v \in Nat /\ now' \in Nat
  BY CallTypes DEF Typed, TypeOK

LEMMA TurnType ==
    ASSUME TypeOK, Turn \/ UNCHANGED turns
    PROVE  turns' \in Nat
  BY DEF Turn, TypeOK

LEMMA PollAtType ==
    ASSUME TypeOK, NEW t \in Tab, NEW f \in Poll, PollAt(t, f)
    PROVE  /\ fetch' \in [Tab -> Poll]
           /\ fetch'[t] = f /\ \A u \in Tab : u # t => fetch'[u] = fetch[u]
  BY DEF PollAt, TypeOK

(* A PUT carries the content it was made from. *)
LEMMA SendStep ==
    ASSUME TypeOK, NEW t \in Tab, NEW k \in Puts, NEW x \in Content, PutAll(t, k, x)
    PROVE  \E c \in Call : /\ calls[t][c].kind = "none"
                           /\ calls'[t][c].kind = k /\ calls'[t][c].at = "sent"
                           /\ calls'[t][c].body = x
                           /\ OnlyCall(t, c)
<1>. DEFINE a == [NoCall EXCEPT !.kind = k, !.body = x]
<1>1. a \in Asked /\ a.kind = k /\ a.at = "sent" /\ a.body = x
  BY PostedTypes
<1>2. Post(t, a)
  BY DEF PutAll
<1>. HIDE DEF a
<1>. QED
  BY <1>1, <1>2, PostStep

(* A request posted changes no answer and nothing of the other tabs. *)
LEMMA PostedStep ==
    ASSUME TypeOK, NEW t \in Tab, NEW a \in Asked, a.at = "sent", Post(t, a) \/ UNCHANGED calls
    PROVE  /\ \A u \in Tab : u # t => calls'[u] = calls[u]
           /\ \A c \in Call : calls'[t][c].at = "answered" => calls'[t][c] = calls[t][c]
<1>1. CASE Post(t, a)
  <2>1. PICK c \in Unused(t) : calls' = [calls EXCEPT ![t][c] = a]
    BY <1>1 DEF Post
  <2>2. c \in Call
    BY DEF Unused
  <2>. QED
    BY <2>1, <2>2 DEF TypeOK
<1>. QED
  BY <1>1

(* run_sync_rulefile sends the content, or leaves a mark. *)
LEMMA SentStep ==
    ASSUME TypeOK, NEW t \in Tab, NEW k \in Puts, NEW x \in Content, PutAll(t, k, x) \/ Mark(t)
    PROVE  /\ \A u \in Tab : u # t => calls'[u] = calls[u] /\ marked'[u] = marked[u]
           /\ \A c \in Call : calls'[t][c].at = "answered" => calls'[t][c] = calls[t][c]
           /\ \/ marked'[t]
              \/ \E c \in Call : /\ calls'[t][c].kind \in Puts /\ calls'[t][c].at = "sent"
                                 /\ calls'[t][c].body = x
<1>1. CASE PutAll(t, k, x)
  <2>. DEFINE a == [NoCall EXCEPT !.kind = k, !.body = x]
  <2>1. a \in Asked /\ a.at = "sent"
    BY PostedTypes
  <2>2. Post(t, a) /\ UNCHANGED marked
    BY <1>1 DEF PutAll
  <2>. HIDE DEF a
  <2>. QED
    BY <1>1, <2>1, <2>2, PostedStep, SendStep
<1>2. CASE Mark(t)
  BY <1>2 DEF Mark, TypeOK
<1>. QED
  BY <1>1, <1>2

(* A PUT is written: the row has its content and the version goes up. *)
LEMMA ServePutStep ==
    ASSUME TypeOK, NEW t \in Tab, NEW c \in Call, ServePut(t, c)
    PROVE  /\ row' = [ver |-> row.ver + 1, content |-> calls[t][c].body] /\ row' \in Copy
           /\ saved \subseteq saved' /\ saved' \subseteq Nat
           /\ \A r \in Req : calls[t][c].body[r] \in saved'
           /\ calls'[t][c].at = "answered" /\ calls'[t][c].answer = row'
           /\ OnlyCall(t, c)
  BY CallTypes, WriteStep, AnswerStep DEF ServePut

(* A PATCH is written and answered, or refused and forgotten. *)
LEMMA ServePatchStep ==
    ASSUME TypeOK, NEW t \in Tab, NEW c \in Call, ServePatch(t, c)
    PROVE  /\ row' \in Copy
           /\ saved \subseteq saved' /\ saved' \subseteq Nat
           /\ OnlyCall(t, c)
           /\ \/ /\ row' = row /\ saved' = saved /\ calls'[t][c].at = "sent"
              \/ /\ row'.ver = row.ver + 1 /\ \A r \in Req : row'.content[r] \in saved'
                 /\ calls'[t][c].at = "answered" /\ calls'[t][c].answer = row'
<1>. DEFINE call == calls[t][c]
            x    == [row.content EXCEPT ![call.req] = call.body[call.req]]
<1>1. CASE call.base = row.ver
  <2>1. x \in Content
    <3>1. row.content \in Content /\ call.req \in Req \cup {NoReq} /\ call.body \in Content
      BY CallTypes DEF TypeOK, Copy
    <3>. QED
      BY <3>1 DEF Content
  <2>2. Write(x) /\ Answer(t, c)
    BY <1>1 DEF ServePatch
  <2>. HIDE DEF x
  <2>. QED
    BY <2>1, <2>2, WriteStep, AnswerStep
<1>2. CASE call.base # row.ver
  BY <1>2, DoneStep, Constants DEF ServePatch, TypeOK
<1>. QED
  BY <1>1, <1>2

(* What a step of the poll does to what it has fetched. *)
LEMMA PollStep ==
    ASSUME TypeOK, NEW t \in Tab, Polling(t)
    PROVE  /\ fetch' \in [Tab -> Poll]
           /\ \A u \in Tab : u # t => fetch'[u] = fetch[u]
           /\ \/ fetch'[t].at = "idle"
              \/ fetch'[t].at = "load" /\ fetch'[t].ver = row.ver
              \/ /\ fetch[t].at = "load" /\ fetch'[t].at = "apply"
                 /\ fetch'[t].ver = fetch[t].ver /\ fetch'[t].got = row.content
<1>0. row.ver \in Nat /\ row.content \in Content
  BY DEF TypeOK, Copy
<1>1. CASE PollStart(t)
  <2>. DEFINE f == [NotPolling EXCEPT !.at = "load", !.ver = row.ver]
  <2>1. f \in Poll /\ f.at = "load" /\ f.ver = row.ver
    BY <1>0, Constants DEF Poll, NotPolling
  <2>2. PollAt(t, f)
    BY <1>1 DEF PollStart
  <2>. HIDE DEF f
  <2>. QED
    BY <2>1, <2>2, PollAtType
<1>2. CASE PollLoad(t)
  <2>. DEFINE f == [fetch[t] EXCEPT !.at = "apply", !.got = row.content]
  <2>1. f \in Poll /\ f.at = "apply" /\ f.ver = fetch[t].ver /\ f.got = row.content
    BY <1>0, CallTypes DEF Poll
  <2>2. PollAt(t, f) /\ fetch[t].at = "load"
    BY <1>2 DEF PollLoad
  <2>. HIDE DEF f
  <2>. QED
    BY <2>1, <2>2, PollAtType
<1>3. CASE PollApply(t)
  BY <1>3, Constants, PollAtType DEF PollApply
<1>. QED
  BY <1>1, <1>2, <1>3 DEF Polling

LEMMA TypeStep == TypeOK /\ [Next]_vars => TypeOK'
<1>. SUFFICES ASSUME TypeOK, [Next]_vars PROVE TypeOK'
  OBVIOUS
<1>1. CASE UNCHANGED vars
  BY <1>1 DEF vars, tabs, TypeOK
<1>2. ASSUME NEW t \in Tab, NEW v, Leave(t, v) PROVE TypeOK'
  <2>1. v \in Nat /\ now' \in Nat /\ turns' \in Nat /\ form[t].req # NoReq
    BY <1>2, TypedType, TurnType DEF Leave
  <2>2. local' \in [Tab -> Copy]
    BY <1>2, <2>1, PutStep DEF Leave, OnlyTab
  <2>3. form' \in [Tab -> Form]
    <3>1. [form[t] EXCEPT !.value = v] \in Form
      BY <2>1 DEF TypeOK, Form
    <3>. QED
      BY <1>2, <3>1 DEF Leave, TypeOK
  <2>4. calls' \in [Tab -> [Call -> Asked]]
    <3>. DEFINE a == [NoCall EXCEPT !.kind = "patch", !.req = form[t].req,
                                    !.base = local[t].ver, !.body[form[t].req] = v]
    <3>1. form[t].req \in Req /\ local[t].ver \in Nat
      BY <2>1, CallTypes
    <3>2. a \in Asked
      BY <2>1, <3>1, PostedTypes
    <3>3. Post(t, a) \/ UNCHANGED calls
      BY <1>2 DEF Leave
    <3>. HIDE DEF a
    <3>. QED
      BY <3>2, <3>3, PostStep DEF OnlyCall, TypeOK
  <2>. QED
    BY <1>2, <2>1, <2>2, <2>3, <2>4 DEF Leave, TypeOK
<1>3. ASSUME NEW t \in Tab, NEW r \in Req \cup {NoReq}, Go(t, r) PROVE TypeOK'
  <2>1. local' \in [Tab -> Copy]
    BY <1>3, CallTypes, PutStep DEF Go, OnlyTab, TypeOK
  <2>2. timer' \in [Tab -> BOOLEAN]
    BY <1>3 DEF Go, TypeOK
  <2>3. form' \in [Tab -> Form]
    <3>1. Editor(r, local'[t].content) \in Form
      BY <2>1, EditorType DEF Copy
    <3>. QED
      BY <1>3, <3>1 DEF Go, TypeOK
  <2>. QED
    BY <1>3, <2>1, <2>2, <2>3, TurnType DEF Go, TypeOK
<1>4. ASSUME NEW t \in Tab, NEW v, Submit(t, v) PROVE TypeOK'
  <2>1. v \in Nat /\ now' \in Nat /\ turns' \in Nat
    BY <1>4, TypedType, TurnType DEF Submit, Mark
  <2>2. local' \in [Tab -> Copy] /\ local'[t].content \in Content
    BY <1>4, <2>1, PutStep DEF Submit, OnlyTab, Copy
  <2>3. form' \in [Tab -> Form]
    BY <1>4, EditorType, Constants DEF Submit, TypeOK
  <2>4. calls' \in [Tab -> [Call -> Asked]]
    <3>1. CASE PutAll(t, "put", local'[t].content)
      BY <2>2, <3>1, SendStep DEF OnlyCall, Puts
    <3>2. CASE Mark(t)
      BY <3>2 DEF Mark, TypeOK
    <3>. QED
      BY <1>4, <3>1, <3>2 DEF Submit
  <2>5. timer' \in [Tab -> BOOLEAN] /\ marked' \in [Tab -> BOOLEAN]
    BY <1>4 DEF Submit, PutAll, Mark, TypeOK
  <2>. QED
    BY <1>4, <2>1, <2>2, <2>3, <2>4, <2>5 DEF Submit, TypeOK
<1>5. ASSUME NEW t \in Tab, TimerFires(t) PROVE TypeOK'
  <2>1. calls' \in [Tab -> [Call -> Asked]]
    <3>1. CASE PutAll(t, "put", local[t].content)
      BY CallTypes, <3>1, SendStep DEF OnlyCall, Puts
    <3>2. CASE Mark(t)
      BY <3>2 DEF Mark, TypeOK
    <3>. QED
      BY <1>5, <3>1, <3>2 DEF TimerFires
  <2>2. timer' \in [Tab -> BOOLEAN] /\ marked' \in [Tab -> BOOLEAN] /\ turns' \in Nat
    BY <1>5, TurnType DEF TimerFires, PutAll, Mark, TypeOK
  <2>. QED
    BY <1>5, <2>1, <2>2 DEF TimerFires, TypeOK
<1>6. ASSUME NEW t \in Tab, Retry(t) PROVE TypeOK'
  <2>1. calls' \in [Tab -> [Call -> Asked]]
    BY <1>6, CallTypes, SendStep DEF Retry, OnlyCall, Puts
  <2>. QED
    BY <1>6, <2>1 DEF Retry, PutAll, TypeOK
<1>7. ASSUME NEW t \in Tab, NEW c \in Call, ServePut(t, c) PROVE TypeOK'
  BY <1>7, ServePutStep DEF ServePut, OnlyCall, TypeOK
<1>8. ASSUME NEW t \in Tab, NEW c \in Call, ServePatch(t, c) PROVE TypeOK'
  BY <1>8, ServePatchStep DEF ServePatch, OnlyCall, TypeOK
<1>9. ASSUME NEW t \in Tab, NEW c \in Call, Answered(t, c) PROVE TypeOK'
  <2>1. Replace(t, calls[t][c].answer.ver, calls[t][c].answer.content) /\ Done(t, c)
    BY <1>9 DEF Answered, PutAnswered, PatchAnswered
  <2>2. calls' \in [Tab -> [Call -> Asked]] /\ local' \in [Tab -> Copy] /\ form' \in [Tab -> Form]
    BY <2>1, CallTypes, ReplaceStep, DoneStep DEF OnlyCall, OnlyTab
  <2>3. marked' \in [Tab -> BOOLEAN]
    BY <1>9 DEF Answered, PutAnswered, PatchAnswered, TypeOK
  <2>. QED
    BY <1>9, <2>2, <2>3 DEF Answered, PutAnswered, PatchAnswered, TypeOK
<1>10. ASSUME NEW t \in Tab, NEW c \in Call, Lost(t, c) PROVE TypeOK'
  <2>1. calls' \in [Tab -> [Call -> Asked]] /\ marked' \in [Tab -> BOOLEAN]
    BY <1>10, DoneStep DEF Lost, OnlyCall, TypeOK
  <2>. QED
    BY <1>10, <2>1, TurnType DEF Lost, TypeOK
<1>11. ASSUME NEW t \in Tab, Polling(t) PROVE TypeOK'
  <2>1. fetch' \in [Tab -> Poll]
    BY <1>11, PollStep
  <2>2. local' \in [Tab -> Copy] /\ form' \in [Tab -> Form]
    BY <1>11, CallTypes, ReplaceStep
       DEF Polling, PollStart, PollLoad, PollApply, OnlyTab, TypeOK
  <2>. QED
    BY <1>11, <2>1, <2>2 DEF Polling, PollStart, PollLoad, PollApply, TypeOK
<1>. QED
  BY <1>1, <1>2, <1>3, <1>4, <1>5, <1>6, <1>7, <1>8, <1>9, <1>10, <1>11
     DEF Next, Edit, Machine, Served

(* Every field of every variable keeps its type. *)
THEOREM TypeCorrect == Spec => []TypeOK
<1>. QED
  BY InitTypes, TypeStep, PTL DEF Spec

-----------------------------------------------------------------------------
(* The inductive invariant.                                                *)

(* What is in the row, in an answer or in the hands of the poll has been in the
   row. *)
Sound ==
    /\ \A r \in Req : row.content[r] \in saved
    /\ \A t \in Tab, c \in Call, r \in Req :
          calls[t][c].at = "answered" => calls[t][c].answer.content[r] \in saved
    /\ \A t \in Tab, r \in Req : fetch[t].at = "apply" => fetch[t].got[r] \in saved

(* No answer and no poll is ahead of the row, and one at its version brings its
   content. *)
Newest ==
    /\ \A t \in Tab, c \in Call : calls[t][c].at = "answered" =>
          /\ calls[t][c].answer.ver <= row.ver
          /\ calls[t][c].answer.ver = row.ver => calls[t][c].answer.content = row.content
    /\ \A t \in Tab : fetch[t].at # "idle" =>
          /\ fetch[t].ver <= row.ver
          /\ fetch[t].at = "apply" /\ fetch[t].ver = row.ver => fetch[t].got = row.content

(* The two invariants, for one tab. *)
Fresh(t) ==
    /\ local[t].ver <= row.ver
    /\ local[t].ver = row.ver => \/ local[t].content = row.content
                                 \/ timer[t] \/ marked[t] \/ PutSent(t)

Carried(t) ==
    \A r \in Req : local[t].content[r] \notin saved =>
        \/ timer[t] \/ marked[t]
        \/ \E c \in Call : /\ calls[t][c].kind \in Puts /\ calls[t][c].at = "sent"
                           /\ calls[t][c].body[r] = local[t].content[r]

TabInv == \A t \in Tab : Fresh(t) /\ Carried(t)

IInv == TypeOK /\ Sound /\ Newest /\ TabInv

LEMMA TabInvSplits == TabInv <=> SameVersionSameContent /\ WorkHasACarrier
  BY DEF TabInv, Fresh, Carried, SameVersionSameContent, WorkHasACarrier

LEMMA InitInv == Init => IInv
<1>. SUFFICES ASSUME Init PROVE IInv
  OBVIOUS
<1>1. /\ row = First /\ saved = {0} /\ First.ver = 1 /\ First.content = Blank
      /\ \A t \in Tab : local[t] = First /\ fetch[t] = NotPolling
                        /\ \A c \in Call : calls[t][c] = NoCall
  BY DEF Init, First
<1>2. \A r \in Req : Blank[r] = 0
  BY DEF Blank
<1>3. Sound /\ Newest
  BY <1>1, <1>2, Constants DEF Sound, Newest
<1>4. TabInv
  BY <1>1, <1>2 DEF TabInv, Fresh, Carried
<1>. QED
  BY <1>3, <1>4, InitTypes DEF IInv

-----------------------------------------------------------------------------
(* How a step leaves the parts of the invariant standing.                  *)

(* The row stays, or becomes one with a higher version; an answer is an earlier
   one or the new row; the poll goes on as poll_once does. *)
LEMMA KnownStep ==
    ASSUME TypeOK, TypeOK', Sound, Newest, saved \subseteq saved',
           \/ row' = row
           \/ row'.ver = row.ver + 1 /\ \A r \in Req : row'.content[r] \in saved',
           \A t \in Tab, c \in Call : calls'[t][c].at = "answered" =>
              calls'[t][c] = calls[t][c] \/ calls'[t][c].answer = row',
           \A t \in Tab :
              \/ fetch'[t] = fetch[t]
              \/ fetch'[t].at = "idle"
              \/ fetch'[t].at = "load" /\ fetch'[t].ver = row.ver
              \/ /\ fetch[t].at = "load" /\ fetch'[t].at = "apply" /\ row' = row
                 /\ fetch'[t].ver = fetch[t].ver /\ fetch'[t].got = row.content
    PROVE  Sound' /\ Newest'
<1>1. row.ver \in Nat /\ row'.ver \in Nat /\ row.ver <= row'.ver
  BY DEF TypeOK, Copy
<1>2. \A r \in Req : row'.content[r] \in saved'
  BY DEF Sound
<1>3. ASSUME NEW t \in Tab, NEW c \in Call, calls'[t][c].at = "answered"
      PROVE  /\ \A r \in Req : calls'[t][c].answer.content[r] \in saved'
             /\ calls'[t][c].answer.ver <= row'.ver
             /\ calls'[t][c].answer.ver = row'.ver => calls'[t][c].answer.content = row'.content
  <2>1. CASE calls'[t][c].answer = row'
    BY <1>1, <1>2, <2>1
  <2>2. CASE calls'[t][c] = calls[t][c]
    <3>1. /\ calls[t][c].at = "answered" /\ calls[t][c].answer.ver \in Nat
          /\ \A r \in Req : calls[t][c].answer.content[r] \in saved'
          /\ calls[t][c].answer.ver <= row.ver
          /\ calls[t][c].answer.ver = row.ver => calls[t][c].answer.content = row.content
      BY <1>3, <2>2, CallTypes DEF Sound, Newest
    <3>. QED
      BY <1>1, <2>2, <3>1
  <2>. QED
    BY <1>3, <2>1, <2>2
<1>4. ASSUME NEW t \in Tab, fetch'[t].at # "idle"
      PROVE  /\ fetch'[t].ver <= row'.ver
             /\ fetch'[t].at = "apply" =>
                  /\ \A r \in Req : fetch'[t].got[r] \in saved'
                  /\ fetch'[t].ver = row'.ver => fetch'[t].got = row'.content
  <2>0. fetch[t].ver \in Nat
    BY CallTypes
  <2>1. CASE fetch'[t] = fetch[t]
    <3>1. /\ fetch[t].ver <= row.ver
          /\ fetch[t].at = "apply" =>
               /\ \A r \in Req : fetch[t].got[r] \in saved'
               /\ fetch[t].ver = row.ver => fetch[t].got = row.content
      BY <1>4, <2>1 DEF Sound, Newest
    <3>. QED
      BY <1>1, <2>0, <2>1, <3>1
  <2>2. CASE fetch'[t].at = "load" /\ fetch'[t].ver = row.ver
    BY <1>1, <2>2
  <2>3. CASE /\ fetch[t].at = "load" /\ fetch'[t].at = "apply" /\ row' = row
             /\ fetch'[t].ver = fetch[t].ver /\ fetch'[t].got = row.content
    BY <1>2, <2>3 DEF Newest
  <2>. QED
    BY <1>4, <2>1, <2>2, <2>3
<1>. QED
  BY <1>2, <1>3, <1>4 DEF Sound, Newest

(* A tab that shows what it showed: the carrier stays, or passes on to a mark, or
   the row has taken over what it carried. *)
LEMMA TabStays ==
    ASSUME TypeOK, TypeOK', NEW t \in Tab, Fresh(t), Carried(t),
           local'[t] = local[t], timer[t] => timer'[t], marked[t] => marked'[t],
           saved \subseteq saved',
           row' = row \/ row'.ver = row.ver + 1,
           \A c \in Call : calls[t][c].kind \in Puts /\ calls[t][c].at = "sent" =>
              \/ calls'[t][c] = calls[t][c] \/ marked'[t]
              \/ row'.ver = row.ver + 1 /\ \A r \in Req : calls[t][c].body[r] \in saved'
    PROVE  Fresh(t)' /\ Carried(t)'
<1>1. row.ver \in Nat /\ row'.ver \in Nat /\ local[t].ver \in Nat
  BY DEF TypeOK, Copy
<1>2. Fresh(t)'
  <2>1. CASE row'.ver = row.ver + 1
    BY <1>1, <2>1 DEF Fresh
  <2>2. CASE row' = row /\ row'.ver # row.ver + 1
    BY <1>1, <2>2 DEF Fresh, PutSent
  <2>. QED
    BY <1>1, <2>1, <2>2
<1>3. Carried(t)'
  BY DEF Carried
<1>. QED
  BY <1>2, <1>3

(* A tab that shows something new and sends it, or will. *)
LEMMA TabSends ==
    ASSUME TypeOK, NEW t \in Tab, Fresh(t), local'[t].ver = local[t].ver, row' = row,
           \/ timer'[t] \/ marked'[t]
           \/ \E c \in Call : /\ calls'[t][c].kind \in Puts /\ calls'[t][c].at = "sent"
                              /\ calls'[t][c].body = local'[t].content
    PROVE  Fresh(t)' /\ Carried(t)'
  BY DEF Fresh, Carried, PutSent

(* A tab that takes over a copy of the server's. *)
LEMMA TabTakes ==
    ASSUME NEW t \in Tab, NEW ver, NEW content,
           local'[t] = [ver |-> ver, content |-> content],
           row' = row, saved' = saved, ver <= row.ver,
           ver = row.ver => content = row.content,
           \A r \in Req : content[r] \in saved
    PROVE  Fresh(t)' /\ Carried(t)'
  BY DEF Fresh, Carried

(* The steps of one tab without the server: nothing is served or answered. *)
LEMMA OwnStep ==
    ASSUME IInv, TypeOK', NEW t \in Tab, UNCHANGED <<row, fetch, saved>>,
           local'[t].ver = local[t].ver,
           \A u \in Tab : u # t => /\ local'[u] = local[u] /\ calls'[u] = calls[u]
                                   /\ timer'[u] = timer[u] /\ marked'[u] = marked[u],
           \A c \in Call : calls'[t][c].at = "answered" => calls'[t][c] = calls[t][c],
           \/ timer'[t] \/ marked'[t]
           \/ \E c \in Call : /\ calls'[t][c].kind \in Puts /\ calls'[t][c].at = "sent"
                              /\ calls'[t][c].body = local'[t].content
    PROVE  IInv'
<1>1. Sound' /\ Newest'
  <2>1. \A u \in Tab, c \in Call : calls'[u][c].at = "answered" => calls'[u][c] = calls[u][c]
    OBVIOUS
  <2>2. \A u \in Tab : fetch'[u] = fetch[u]
    OBVIOUS
  <2>. QED
    BY <2>1, <2>2, KnownStep DEF IInv
<1>2. ASSUME NEW u \in Tab PROVE Fresh(u)' /\ Carried(u)'
  <2>1. Fresh(u) /\ Carried(u) /\ TypeOK
    BY DEF IInv, TabInv
  <2>2. CASE u = t
    BY <2>1, <2>2, TabSends
  <2>3. CASE u # t
    BY <2>1, <2>3, TabStays
  <2>. QED
    BY <2>2, <2>3
<1>. QED
  BY <1>1, <1>2 DEF IInv, TabInv

(* The steps of the server for one request: the tabs stay as they are. *)
LEMMA ServeStep ==
    ASSUME IInv, TypeOK', NEW t \in Tab, NEW c \in Call, calls[t][c].at = "sent",
           UNCHANGED <<local, timer, marked, fetch>>, OnlyCall(t, c), saved \subseteq saved',
           \/ row' = row /\ calls'[t][c].at = "sent" /\ calls[t][c].kind \notin Puts
           \/ /\ row'.ver = row.ver + 1 /\ \A r \in Req : row'.content[r] \in saved'
              /\ calls'[t][c].answer = row'
              /\ calls[t][c].kind \in Puts => row'.content = calls[t][c].body
    PROVE  IInv'
<1>1. Sound' /\ Newest'
  <2>1. \A u \in Tab, d \in Call : calls'[u][d].at = "answered" =>
           calls'[u][d] = calls[u][d] \/ calls'[u][d].answer = row'
    BY DEF OnlyCall
  <2>2. \A u \in Tab : fetch'[u] = fetch[u]
    OBVIOUS
  <2>. QED
    BY <2>1, <2>2, KnownStep DEF IInv
<1>2. ASSUME NEW u \in Tab PROVE Fresh(u)' /\ Carried(u)'
  <2>1. Fresh(u) /\ Carried(u) /\ TypeOK
    BY DEF IInv, TabInv
  <2>2. row' = row \/ row'.ver = row.ver + 1
    OBVIOUS
  <2>3. \A d \in Call : calls[u][d].kind \in Puts /\ calls[u][d].at = "sent" =>
           \/ calls'[u][d] = calls[u][d]
           \/ row'.ver = row.ver + 1 /\ \A r \in Req : calls[u][d].body[r] \in saved'
    BY DEF OnlyCall
  <2>. QED
    BY <2>1, <2>2, <2>3, TabStays
<1>. QED
  BY <1>1, <1>2 DEF IInv, TabInv

(* A tab takes over what an answer or the poll brings. *)
LEMMA TakeStep ==
    ASSUME IInv, TypeOK', NEW t \in Tab, NEW ver \in Nat, NEW content \in Content,
           Replace(t, ver, content), UNCHANGED <<row, timer, saved>>,
           ver <= row.ver, ver = row.ver => content = row.content,
           \A r \in Req : content[r] \in saved,
           \A u \in Tab, d \in Call : calls'[u][d].at = "answered" => calls'[u][d] = calls[u][d],
           \A u \in Tab : fetch'[u] = fetch[u] \/ fetch'[u].at = "idle",
           \A u \in Tab : u # t => calls'[u] = calls[u] /\ marked'[u] = marked[u]
    PROVE  IInv'
<1>1. Sound' /\ Newest'
  BY KnownStep DEF IInv
<1>2. local'[t] = [ver |-> ver, content |-> content] /\ OnlyTab(t)
  BY ReplaceStep DEF IInv
<1>3. ASSUME NEW u \in Tab PROVE Fresh(u)' /\ Carried(u)'
  <2>1. CASE u = t
    BY <1>2, <2>1, TabTakes
  <2>2. CASE u # t
    <3>1. Fresh(u) /\ Carried(u) /\ TypeOK
      BY DEF IInv, TabInv
    <3>2. local'[u] = local[u]
      BY <1>2, <2>2 DEF OnlyTab
    <3>. QED
      BY <2>2, <3>1, <3>2, TabStays
  <2>. QED
    BY <2>1, <2>2
<1>. QED
  BY <1>1, <1>3 DEF IInv, TabInv

(* The tabs keep what they show and what carries it; the poll may go on. *)
LEMMA IdleStep ==
    ASSUME IInv, TypeOK', UNCHANGED <<row, saved, local, timer>>,
           \A u \in Tab : marked[u] => marked'[u],
           \A u \in Tab, d \in Call :
              \/ calls'[u][d] = calls[u][d]
              \/ calls'[u][d].at = "sent" /\ (calls[u][d].kind \in Puts => marked'[u]),
           \A u \in Tab :
              \/ fetch'[u] = fetch[u]
              \/ fetch'[u].at = "idle"
              \/ fetch'[u].at = "load" /\ fetch'[u].ver = row.ver
              \/ /\ fetch[u].at = "load" /\ fetch'[u].at = "apply"
                 /\ fetch'[u].ver = fetch[u].ver /\ fetch'[u].got = row.content
    PROVE  IInv'
<1>1. Sound' /\ Newest'
  <2>1. \A u \in Tab, d \in Call : calls'[u][d].at = "answered" => calls'[u][d] = calls[u][d]
    OBVIOUS
  <2>. QED
    BY <2>1, KnownStep DEF IInv
<1>2. ASSUME NEW u \in Tab PROVE Fresh(u)' /\ Carried(u)'
  <2>1. Fresh(u) /\ Carried(u) /\ TypeOK
    BY DEF IInv, TabInv
  <2>2. \A d \in Call : calls[u][d].kind \in Puts /\ calls[u][d].at = "sent" =>
           calls'[u][d] = calls[u][d] \/ marked'[u]
    OBVIOUS
  <2>. QED
    BY <2>1, <2>2, TabStays
<1>. QED
  BY <1>1, <1>2 DEF IInv, TabInv

-----------------------------------------------------------------------------
(* Every action keeps the invariant.                                       *)

LEMMA InvStep == IInv /\ [Next]_vars => IInv'
<1>. SUFFICES ASSUME IInv, [Next]_vars PROVE IInv'
  OBVIOUS
<1>0. TypeOK /\ TypeOK'
  BY TypeStep DEF IInv
<1>1. CASE UNCHANGED vars
  BY <1>0, <1>1, IdleStep DEF vars, tabs
<1>2. ASSUME NEW t \in Tab, NEW v, Leave(t, v) PROVE IInv'
  <2>1. v \in Nat /\ form[t].req # NoReq /\ form[t].req \in Req /\ local[t].ver \in Nat
    BY <1>0, <1>2, TypedType, CallTypes DEF Leave
  <2>2. local'[t].ver = local[t].ver /\ \A u \in Tab : u # t => local'[u] = local[u]
    BY <1>0, <1>2, <2>1, PutStep DEF Leave, OnlyTab
  <2>3. /\ \A u \in Tab : u # t => calls'[u] = calls[u]
        /\ \A c \in Call : calls'[t][c].at = "answered" => calls'[t][c] = calls[t][c]
    <3>. DEFINE a == [NoCall EXCEPT !.kind = "patch", !.req = form[t].req,
                                    !.base = local[t].ver, !.body[form[t].req] = v]
    <3>1. a \in Asked /\ a.at = "sent"
      <4>1. a \in Asked
        BY <2>1, PostedTypes
      <4>2. a.at = "sent"
        BY DEF NoCall
      <4>. QED
        BY <4>1, <4>2
    <3>2. Post(t, a) \/ UNCHANGED calls
      BY <1>2 DEF Leave
    <3>. HIDE DEF a
    <3>. QED
      BY <1>0, <3>1, <3>2, PostedStep
  <2>4. UNCHANGED <<row, fetch, saved, marked>> /\ timer'[t]
        /\ \A u \in Tab : u # t => timer'[u] = timer[u]
    BY <1>0, <1>2 DEF Leave, TypeOK
  <2>. QED
    BY <1>0, <2>2, <2>3, <2>4, OwnStep
<1>3. ASSUME NEW t \in Tab, NEW r \in Req \cup {NoReq}, Go(t, r) PROVE IInv'
  <2>1. CASE form[t].req = NoReq
    BY <1>0, <1>3, <2>1, IdleStep DEF Go
  <2>2. CASE form[t].req # NoReq
    <3>1. local'[t].ver = local[t].ver /\ \A u \in Tab : u # t => local'[u] = local[u]
      BY <1>0, <1>3, <2>2, CallTypes, PutStep DEF Go, OnlyTab
    <3>2. UNCHANGED <<row, fetch, saved, marked, calls>> /\ timer'[t]
          /\ \A u \in Tab : u # t => timer'[u] = timer[u]
      BY <1>0, <1>3, <2>2 DEF Go, TypeOK
    <3>. QED
      BY <1>0, <3>1, <3>2, OwnStep
  <2>. QED
    BY <2>1, <2>2
<1>4. ASSUME NEW t \in Tab, NEW v, Submit(t, v) PROVE IInv'
  <2>1. /\ local'[t].ver = local[t].ver /\ local'[t].content \in Content
        /\ \A u \in Tab : u # t => local'[u] = local[u]
    BY <1>0, <1>4, TypedType, PutStep DEF Submit, OnlyTab, Copy
  <2>2. UNCHANGED <<row, fetch, saved>> /\ \A u \in Tab : u # t => timer'[u] = timer[u]
    BY <1>0, <1>4 DEF Submit, TypeOK
  <2>3. PutAll(t, "put", local'[t].content) \/ Mark(t)
    BY <1>4 DEF Submit
  <2>. QED
    BY <1>0, <2>1, <2>2, <2>3, SentStep, OwnStep DEF Puts
<1>5. ASSUME NEW t \in Tab, TimerFires(t) PROVE IInv'
  <2>1. UNCHANGED <<row, fetch, saved, local>> /\ \A u \in Tab : u # t => timer'[u] = timer[u]
    BY <1>0, <1>5 DEF TimerFires, TypeOK
  <2>2. local[t].content \in Content /\ (PutAll(t, "put", local'[t].content) \/ Mark(t))
    BY <1>0, <1>5, CallTypes DEF TimerFires
  <2>. QED
    BY <1>0, <2>1, <2>2, SentStep, OwnStep DEF Puts
<1>6. ASSUME NEW t \in Tab, Retry(t) PROVE IInv'
  <2>1. UNCHANGED <<row, fetch, saved, local>> /\ \A u \in Tab : u # t => timer'[u] = timer[u]
    BY <1>0, <1>6 DEF Retry, TypeOK
  <2>2. local[t].content \in Content /\ PutAll(t, "retry", local'[t].content)
    BY <1>0, <1>6, CallTypes DEF Retry
  <2>. QED
    BY <1>0, <2>1, <2>2, SentStep, OwnStep DEF Puts
<1>7. ASSUME NEW t \in Tab, NEW c \in Call, ServePut(t, c) PROVE IInv'
  <2>1. calls[t][c].at = "sent" /\ calls[t][c].kind \in Puts
        /\ UNCHANGED <<local, timer, marked, fetch>>
    BY <1>7 DEF ServePut
  <2>. QED
    BY <1>0, <1>7, <2>1, ServePutStep, ServeStep
<1>8. ASSUME NEW t \in Tab, NEW c \in Call, ServePatch(t, c) PROVE IInv'
  <2>1. calls[t][c].at = "sent" /\ calls[t][c].kind \notin Puts
        /\ UNCHANGED <<local, timer, marked, fetch>>
    BY <1>8 DEF ServePatch, Puts
  <2>. QED
    BY <1>0, <1>8, <2>1, ServePatchStep, ServeStep
<1>9. ASSUME NEW t \in Tab, NEW c \in Call, Answered(t, c) PROVE IInv'
  <2>1. /\ calls[t][c].at = "answered" /\ Done(t, c) /\ UNCHANGED <<row, timer, fetch, saved>>
        /\ Replace(t, calls[t][c].answer.ver, calls[t][c].answer.content)
        /\ \A u \in Tab : u # t => marked'[u] = marked[u]
    BY <1>0, <1>9 DEF Answered, PutAnswered, PatchAnswered, TypeOK
  <2>2. calls'[t][c].at = "sent" /\ (\A u \in Tab : u # t => calls'[u] = calls[u])
        /\ \A d \in Call : d # c => calls'[t][d] = calls[t][d]
    BY <1>0, <2>1, Constants DEF Done, TypeOK
  <2>3. /\ calls[t][c].answer.ver <= row.ver
        /\ calls[t][c].answer.ver = row.ver => calls[t][c].answer.content = row.content
        /\ \A r \in Req : calls[t][c].answer.content[r] \in saved
    BY <2>1 DEF IInv, Sound, Newest
  <2>. QED
    BY <1>0, <2>1, <2>2, <2>3, CallTypes, TakeStep
<1>10. ASSUME NEW t \in Tab, NEW c \in Call, Lost(t, c) PROVE IInv'
  <2>1. calls'[t][c].at = "sent" /\ OnlyCall(t, c)
    BY <1>0, <1>10, DoneStep, Constants DEF Lost
  <2>2. /\ UNCHANGED <<row, saved, local, timer, fetch>>
        /\ \A u \in Tab : marked[u] => marked'[u]
        /\ calls[t][c].kind \in Puts => marked'[t]
    BY <1>0, <1>10 DEF Lost, TypeOK
  <2>3. \A u \in Tab, d \in Call :
           \/ calls'[u][d] = calls[u][d]
           \/ calls'[u][d].at = "sent" /\ (calls[u][d].kind \in Puts => marked'[u])
    BY <2>1, <2>2 DEF OnlyCall
  <2>. QED
    BY <1>0, <2>2, <2>3, IdleStep
<1>11. ASSUME NEW t \in Tab, PollStart(t) \/ PollLoad(t) PROVE IInv'
  <2>1. UNCHANGED <<row, saved, local, timer, marked, calls>>
    BY <1>11 DEF PollStart, PollLoad
  <2>. QED
    BY <1>0, <1>11, <2>1, PollStep, IdleStep DEF Polling
<1>12. ASSUME NEW t \in Tab, PollApply(t) PROVE IInv'
  <2>1. /\ fetch[t].at = "apply" /\ UNCHANGED <<row, timer, marked, calls, saved>>
        /\ Replace(t, fetch[t].ver, fetch[t].got) /\ PollAt(t, NotPolling)
    BY <1>12 DEF PollApply
  <2>2. fetch'[t].at = "idle" /\ \A u \in Tab : u # t => fetch'[u] = fetch[u]
    BY <1>0, <2>1, Constants, PollAtType
  <2>3. /\ fetch[t].ver <= row.ver
        /\ fetch[t].ver = row.ver => fetch[t].got = row.content
        /\ \A r \in Req : fetch[t].got[r] \in saved
    BY <2>1 DEF IInv, Sound, Newest
  <2>. QED
    BY <1>0, <2>1, <2>2, <2>3, CallTypes, TakeStep
<1>. QED
  BY <1>1, <1>2, <1>3, <1>4, <1>5, <1>6, <1>7, <1>8, <1>9, <1>10, <1>11, <1>12
     DEF Next, Edit, Machine, Served, Polling

-----------------------------------------------------------------------------
THEOREM InvCorrect == Spec => []IInv
<1>. QED
  BY InitInv, InvStep, PTL DEF Spec

(* Answers that overtake one another, and a poll that joins a version with a
   later content, never leave a tab at the server's version with a content it
   will neither send nor replace. *)
THEOREM SameVersion == Spec => []SameVersionSameContent
<1>1. IInv => SameVersionSameContent
  BY TabInvSplits DEF IInv
<1>. QED
  BY <1>1, InvCorrect, PTL

(* What a tab shows and the server never had is always on its way: a timer, a
   mark or a PUT not yet served carries it. *)
THEOREM Carrier == Spec => []WorkHasACarrier
<1>1. IInv => WorkHasACarrier
  BY TabInvSplits DEF IInv
<1>. QED
  BY <1>1, InvCorrect, PTL
=============================================================================
