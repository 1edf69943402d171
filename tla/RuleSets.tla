------------------------------ MODULE RuleSets ------------------------------
(***************************************************************************)
(* The rows of rule_sets on the server (server/routes/rules.js): published *)
(* rules, their working copies, and the handlers that copy, save, publish  *)
(* and delete them.  Every statement is a step of its own, for handlers of *)
(* several statements run without a transaction.                           *)
(*                                                                         *)
(* A content is the time of the edit it comes from.  No audit refers to a  *)
(* rule: the client imports audits with their own copy of it.              *)
(***************************************************************************)
EXTENDS Naturals, FiniteSets

CONSTANTS Rule,        \* ids of rows, given once
          Request,     \* requests the server has at the same time
          NoRule, NoRow, NoContent,
          MaxEdits     \* bound: contents written

ASSUME NoRuleAssumption == NoRule \notin Rule
ASSUME NoContentAssumption == NoContent \notin Nat
ASSUME MaxEditsAssumption == MaxEdits \in Nat

Row == [content : Nat, pub : Nat \cup {NoContent}, ver : Nat, base : Rule \cup {NoRule}]

ASSUME NoRowAssumption == NoRow \notin Row

VARIABLES
    rows,     \* rule_sets
    req,      \* what the handlers know
    now,      \* the last edit
    drafts    \* history: for each id the contents that its row, and the rows that
              \* were its working copies then, have had

vars == <<rows, req, now, drafts>>

Op  == {"put", "patch", "publish", "copy", "promote", "delete", "create"}
At  == {"select", "check", "clear", "insert", "update", "remove"}
Asked == [op : Op, at : At, rule : Rule \cup {NoRule}, ver : Nat,
          read : Nat \cup {NoContent},    \* the content read, or known to the client
          new : Nat,                      \* the content to be written
          target : Rule \cup {NoRule}]

NoRequest == [op |-> "none"]

Lives == {r \in Rule : rows[r] # NoRow}
Copies(r) == {c \in Lives : rows[c].base = r}

(* Seeded fault: ids are used again. *)
FreshAgain == Rule \ Lives

(* uuid_generate_v4: an id that has never been there. *)
Fresh == {r \in Rule : drafts[r] = {}}

Init ==
    /\ \E r \in Rule :
        /\ rows = [x \in Rule |-> IF x = r THEN [content |-> 0, pub |-> 0, ver |-> 1, base |-> NoRule]
                                  ELSE NoRow]
        /\ drafts = [x \in Rule |-> IF x = r THEN {0} ELSE {}]
    /\ req = [q \in Request |-> NoRequest]
    /\ now = 0

-----------------------------------------------------------------------------
(* Requests.  What is asked for was possible when the client last looked.   *)

Send(q, request) == req[q] = NoRequest /\ req' = [req EXCEPT ![q] = request]

Ask(q, op, at, r, new) ==
    Send(q, [new |-> new, rule |-> r, ver |-> rows[r].ver, op |-> op, at |-> at,
             read |-> rows[r].content, target |-> NoRule])

(* PUT /:id and PATCH /:id/content-part. *)
Save(q, r) ==
    /\ now < MaxEdits /\ now' = now + 1
    /\ \E op \in {"put", "patch"} : Ask(q, op, "update", r, now')
    /\ UNCHANGED <<rows, drafts>>

(* The buttons of the lists of published rules and of working copies. *)
Press(q, r) ==
    /\ \/ rows[r].base = NoRule /\ rows[r].pub # NoContent /\ Ask(q, "copy", "select", r, 0)
       \/ rows[r].base = NoRule /\ Ask(q, "publish", "select", r, 0)
       \/ rows[r].base # NoRule /\ Ask(q, "promote", "select", r, 0)
       \/ Ask(q, "delete", "select", r, 0)
    /\ UNCHANGED <<rows, now, drafts>>

(* POST /production: a working copy of no rule. *)
Create(q) ==
    /\ now < MaxEdits /\ now' = now + 1
    /\ Send(q, [new |-> now', rule |-> NoRule, ver |-> 1, op |-> "create", at |-> "insert",
                read |-> now', target |-> NoRule])
    /\ UNCHANGED <<rows, drafts>>

-----------------------------------------------------------------------------
(* Statements.                                                             *)

In(q, op, at) == req[q] # NoRequest /\ req[q].op = op /\ req[q].at = at

Done(q)     == req' = [req EXCEPT ![q] = NoRequest]
Goto(q, at) == req' = [req EXCEPT ![q].at = at]

(* 404, 400, 409 or 500: nothing is changed. *)
Refuse(q) == Done(q) /\ UNCHANGED <<rows, drafts>>

(* UPDATE ... SET content, version = version + 1. *)
Write(r, content) ==
    /\ rows' = [rows EXCEPT ![r].content = content, ![r].ver = @ + 1]
    /\ drafts' = [x \in Rule |-> IF x \in {r, rows[r].base} THEN drafts[x] \cup {content} ELSE drafts[x]]

(* INSERT; the base of a working copy must be there (REFERENCES rule_sets). *)
Insert(row) ==
    \E r \in Fresh :
        /\ rows' = [rows EXCEPT ![r] = row]
        /\ drafts' = [drafts EXCEPT ![r] = {row.content}]

ServePut(q) ==
    /\ In(q, "put", "update")
    /\ \/ req[q].rule \notin Lives /\ Refuse(q)
       \/ req[q].rule \in Lives /\ Write(req[q].rule, req[q].new) /\ Done(q)
    /\ UNCHANGED now

(* Seeded fault: UPDATE ... WHERE id. *)
ServePatchAnyVersion(q) ==
    /\ In(q, "patch", "update")
    /\ \/ req[q].rule \notin Lives /\ Refuse(q)
       \/ req[q].rule \in Lives /\ Write(req[q].rule, req[q].new) /\ Done(q)
    /\ UNCHANGED now

(* The SELECT before it compares the version too and is used for nothing else. *)
ServePatch(q) ==
    LET r == req[q].rule
        current == r \in Lives /\ rows[r].ver = req[q].ver
    IN  /\ In(q, "patch", "update")
        /\ \/ ~current /\ Refuse(q)
           \/ current /\ Write(r, req[q].new) /\ Done(q)
        /\ UNCHANGED now

(* POST /:id/publish. *)
PublishSelect(q) ==
    LET r == req[q].rule
        changed == r \in Lives /\ rows[r].pub # rows[r].content
    IN  /\ In(q, "publish", "select")
        /\ \/ ~changed /\ Refuse(q)
           \/ changed /\ Goto(q, "update") /\ UNCHANGED <<rows, drafts>>
        /\ UNCHANGED now

PublishUpdateEmptying(q) == \* seeded fault: the draft is moved, not copied
    LET r == req[q].rule IN
    /\ In(q, "publish", "update")
    /\ \/ r \notin Lives /\ Refuse(q)
       \/ /\ r \in Lives
          /\ rows' = [rows EXCEPT ![r].pub = rows[r].content, ![r].content = NoContent, ![r].ver = @ + 1]
          /\ Done(q)
          /\ UNCHANGED drafts
    /\ UNCHANGED now

PublishUpdate(q) ==
    LET r == req[q].rule IN
    /\ In(q, "publish", "update")
    /\ \/ r \notin Lives /\ Refuse(q)
       \/ /\ r \in Lives
          /\ rows' = [rows EXCEPT ![r].pub = rows[r].content, ![r].ver = @ + 1]
          /\ Done(q)
          /\ UNCHANGED drafts
    /\ UNCHANGED now

(* POST /:id/copy. *)
CopySelect(q) ==
    LET r == req[q].rule IN
    /\ In(q, "copy", "select")
    /\ \/ r \notin Lives /\ Refuse(q)
       \/ /\ r \in Lives
          /\ req' = [req EXCEPT ![q].at = "check", ![q].ver = rows[r].ver, ![q].read = rows[r].content,
                         ![q].new = IF rows[r].pub # NoContent THEN rows[r].pub ELSE rows[r].content]
          /\ UNCHANGED <<rows, drafts>>
    /\ UNCHANGED now

CopyCheck(q) ==
    /\ In(q, "copy", "check")
    /\ \/ Copies(req[q].rule) # {} /\ Refuse(q)
       \/ Copies(req[q].rule) = {} /\ Goto(q, "insert") /\ UNCHANGED <<rows, drafts>>
    /\ UNCHANGED now

CopyInsert(q) ==
    /\ In(q, "copy", "insert")
    /\ \/ req[q].rule \notin Lives /\ Refuse(q)
       \/ /\ req[q].rule \in Lives
          /\ Insert([content |-> req[q].new, pub |-> NoContent, ver |-> req[q].ver, base |-> req[q].rule])
          /\ Done(q)
    /\ UNCHANGED now

CreateInsert(q) ==
    /\ In(q, "create", "insert")
    /\ Insert([content |-> req[q].new, pub |-> NoContent, ver |-> 1, base |-> NoRule])
    /\ Done(q)
    /\ UNCHANGED now

(* POST /:id/publish_production: the content read is written to the base, then
   the working copy is deleted. *)
PromoteSelect(q) ==
    LET r == req[q].rule
        copy == r \in Lives /\ rows[r].base # NoRule
    IN  /\ In(q, "promote", "select")
        /\ \/ ~copy /\ Refuse(q)
           \/ /\ copy
              /\ req' = [req EXCEPT ![q].at = "update", ![q].ver = rows[r].ver, ![q].read = rows[r].content,
                             ![q].new = rows[r].content, ![q].target = rows[r].base]
              /\ UNCHANGED <<rows, drafts>>
        /\ UNCHANGED now

PromoteUpdateUncounted(q) == \* seeded fault: the base keeps its version
    LET b == req[q].target IN
    /\ In(q, "promote", "update")
    /\ \/ b \notin Lives /\ Refuse(q)
       \/ /\ b \in Lives
          /\ rows' = [rows EXCEPT ![b].content = req[q].new, ![b].pub = req[q].new]
          /\ drafts' = [x \in Rule |-> IF x = rows[b].base THEN drafts[x] \cup {req[q].new} ELSE drafts[x]]
          /\ Goto(q, "remove")
    /\ UNCHANGED now

PromoteUpdate(q) ==
    LET b == req[q].target IN
    /\ In(q, "promote", "update")
    /\ \/ b \notin Lives /\ Refuse(q)
       \/ /\ b \in Lives
          /\ rows' = [rows EXCEPT ![b].content = req[q].new, ![b].pub = req[q].new, ![b].ver = @ + 1]
          /\ drafts' = [x \in Rule |-> IF x = rows[b].base THEN drafts[x] \cup {req[q].new} ELSE drafts[x]]
          /\ Goto(q, "remove")
    /\ UNCHANGED now

(* DELETE /:id of a working copy, or of a rule whose working copies are made
   independent first. *)
DeleteSelect(q) ==
    LET r == req[q].rule IN
    /\ In(q, "delete", "select")
    /\ \/ r \notin Lives /\ Refuse(q)
       \/ /\ r \in Lives
          /\ Goto(q, IF rows[r].base = NoRule THEN "clear" ELSE "remove")
          /\ UNCHANGED <<rows, drafts>>
    /\ UNCHANGED now

DeleteClear(q) ==
    /\ In(q, "delete", "clear")
    /\ rows' = [x \in Rule |-> IF x \in Copies(req[q].rule) THEN [rows[x] EXCEPT !.base = NoRule]
                               ELSE rows[x]]
    /\ Goto(q, "remove")
    /\ UNCHANGED <<now, drafts>>

(* The last DELETE of both; it fails when a working copy refers to the row. *)
Remove(q) ==
    /\ In(q, "promote", "remove") \/ In(q, "delete", "remove")
    /\ rows' = IF Copies(req[q].rule) = {} THEN [rows EXCEPT ![req[q].rule] = NoRow] ELSE rows
    /\ Done(q)
    /\ UNCHANGED <<now, drafts>>

-----------------------------------------------------------------------------
Serve(q) ==
    \/ ServePut(q) \/ ServePatch(q)
    \/ PublishSelect(q) \/ PublishUpdate(q)
    \/ CopySelect(q) \/ CopyCheck(q) \/ CopyInsert(q) \/ CreateInsert(q)
    \/ PromoteSelect(q) \/ PromoteUpdate(q)
    \/ DeleteSelect(q) \/ DeleteClear(q) \/ Remove(q)

Next == \E q \in Request : \/ Create(q) \/ Serve(q)
                           \/ \E r \in Lives : Save(q, r) \/ Press(q, r)

Spec == Init /\ [][Next]_vars

-----------------------------------------------------------------------------
TypeOK ==
    /\ rows \in [Rule -> Row \cup {NoRow}]
    /\ req \in [Request -> Asked \cup {NoRequest}]
    /\ now \in Nat
    /\ drafts \in [Rule -> SUBSET Nat]

(* What is published under a rule was the rule's own content or that of one of
   its working copies (rules.js:566-645).  publish_production carries id and
   content of the base across its statements, while the base may be deleted,
   the copy saved, published on its own or made independent. *)
PublishedComesFromDraft ==
    \A r \in Lives : rows[r].pub # NoContent => rows[r].pub \in drafts[r]

(* What a handler has read is in the row as long as the row has the version it
   was read with; a client may rely on the version alone (rules.js:436, 467). *)
ReadIsOfItsVersion ==
    \A q \in Request :
        /\ req[q] # NoRequest
        /\ req[q].rule \in Lives
        /\ rows[req[q].rule].ver = req[q].ver
        => rows[req[q].rule].content = req[q].read

(* PATCH content-part replaces only what its client has seen (rules.js:409-476). *)
PatchLosesNothing ==
    [][\A q \in Request :
          In(q, "patch", "update") /\ req'[q] = NoRequest /\ rows' # rows
              => rows[req[q].rule].content = req[q].read]_vars
=============================================================================
