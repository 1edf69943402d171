----------------------------- MODULE AuditServer -----------------------------
(***************************************************************************)
(* One row of the table audits and the HTTP handlers of                    *)
(* server/routes/audits.js that read and write it.  Node runs the handlers *)
(* of different requests interleaved at every await, so a handler that     *)
(* issues two statements is two steps here; one SQL statement is one step. *)
(*                                                                         *)
(* The columns of the row are abstracted to the fields the properties tell *)
(* apart: Part is the set of parts of the samples column (one requirement  *)
(* result or one content part), Column the set of the other columns a      *)
(* PATCH writes (metadata, status, rule_file_content, ...).                *)
(***************************************************************************)
EXTENDS Naturals, FiniteSets

CONSTANTS Client,     \* browser tabs with the audit open
          Part,       \* parts of the samples column
          Column,     \* the other columns
          Value,      \* what a field can hold
          MaxVersion, \* bound: no request is sent on a version beyond it
          MaxLife,    \* bound: how often the row is created
          EditBound   \* bound: fields one request edits

ASSUME FieldAssumption == Part \cap Column = {} /\ Part # {} /\ Column # {}
ASSUME ValueAssumption == Value # {}
ASSUME BoundAssumption == MaxVersion \in Nat /\ MaxLife \in Nat /\ EditBound \in Nat

Field   == Part \cup Column
Content == [Field -> Value]

VARIABLES live,    \* the row exists
          ver,     \* its column version
          life,    \* how often it has been inserted (history: tells versions of different lives apart)
          content, \* its fields
          view,    \* per client: the last row the server sent it
          req      \* per client: the request the server is handling

vars == <<live, ver, life, content, view, req>>

Op == {"none", "patch", "part", "result", "replace", "restore"}
Pc == {"idle", "select", "update", "check", "write", "conflict"}

View    == [ver : Nat, content : Content, life : Nat]
Request == [edited : SUBSET Field, body : Content, life : Nat,
            op : Op, pc : Pc, base : Nat, written : SUBSET Field]

row == [ver |-> ver, content |-> content, life |-> life]

Blank == [f \in Field |-> CHOOSE v \in Value : TRUE]

NoRequest == [edited |-> {}, body |-> Blank, life |-> 0,
              op |-> "none", pc |-> "idle", base |-> 0, written |-> {}]

(* GET /:id has answered every client once before it can send anything. *)
Init == /\ live = TRUE
        /\ ver = 1
        /\ life = 1
        /\ content \in Content
        /\ view = [c \in Client |-> row]
        /\ req = [c \in Client |-> NoRequest]

-----------------------------------------------------------------------------
(* Requests.  A client builds the body from the last row it was sent. *)

DiffFields(x, y) == {f \in Field : x[f] # y[f]}

Send(c, r) == /\ req[c].pc = "idle"
              /\ ver <= MaxVersion
              /\ req' = [req EXCEPT ![c] = r]
              /\ UNCHANGED <<live, ver, life, content, view>>

(* PATCH /:id with the columns W in the body: all fields (the full PATCH of
   the client) or the columns without samples (its metadata PATCH). *)
SendPatch(c) ==
  \E W \in {Field, Column}, body \in Content :
    LET edited == DiffFields(body, view[c].content) IN
    /\ edited # {} /\ edited \subseteq W
    /\ Cardinality(edited) <= EditBound
    /\ Send(c, [edited |-> edited, body |-> body, life |-> view[c].life,
                op |-> "patch", pc |-> "update", base |-> view[c].ver, written |-> W])

(* PATCH /:id/content-part and PATCH /:id/results/:sampleId/:requirementId:
   one part, the rest of the samples column comes from the handler's SELECT. *)
SendOnePart(c, op) ==
  \E p \in Part, v \in Value :
    Send(c, [edited |-> {p}, body |-> [view[c].content EXCEPT ![p] = v], life |-> view[c].life,
             op |-> op, pc |-> "select", base |-> view[c].ver, written |-> Part])

(* POST /import with replaceExistingAuditId or restoreDeletedAuditId: the
   body is a file, whatever is in it. *)
SendImport(c, op) ==
  \E body \in Content :
    Send(c, [edited |-> Field, body |-> body, life |-> 0,
             op |-> op, pc |-> "conflict", base |-> 0, written |-> Field])

-----------------------------------------------------------------------------
(* Handlers. *)

InHandler(c, pcs) == req[c].pc \in pcs

Goto(c, pc) == req' = [req EXCEPT ![c].pc = pc]

(* An answer without a row: 400, 404, 409 or 500. *)
Answer(c) == /\ req' = [req EXCEPT ![c] = NoRequest]
             /\ UNCHANGED <<live, ver, life, content, view>>

(* Seeded faults: the write forgets version = version + 1, it counts from the
   client's version, it answers with the columns it wrote instead of the row. *)
CommitUncounted(c) ==
  /\ content' = [f \in Field |-> IF f \in req[c].written THEN req[c].body[f] ELSE content[f]]
  /\ UNCHANGED <<live, ver, life>>
  /\ view' = [view EXCEPT ![c] = row']
  /\ req' = [req EXCEPT ![c] = NoRequest]
CommitFromBase(c) ==
  /\ content' = [f \in Field |-> IF f \in req[c].written THEN req[c].body[f] ELSE content[f]]
  /\ ver' = req[c].base + 1
  /\ UNCHANGED <<live, life>>
  /\ view' = [view EXCEPT ![c] = row']
  /\ req' = [req EXCEPT ![c] = NoRequest]
CommitAnsweringWritten(c) ==
  /\ content' = [f \in Field |-> IF f \in req[c].written THEN req[c].body[f] ELSE content[f]]
  /\ ver' = ver + 1
  /\ UNCHANGED <<live, life>>
  /\ view' = [view EXCEPT ![c] = [ver |-> ver', content |-> [f \in req[c].written |-> content'[f]],
                                  life |-> life]]
  /\ req' = [req EXCEPT ![c] = NoRequest]

(* UPDATE audits SET ..., version = version + 1 ... RETURNING *, and the row
   as the answer. *)
Commit(c) == /\ content' = [f \in Field |-> IF f \in req[c].written THEN req[c].body[f]
                                                                    ELSE content[f]]
             /\ ver' = ver + 1
             /\ UNCHANGED <<live, life>>
             /\ view' = [view EXCEPT ![c] = row']
             /\ req' = [req EXCEPT ![c] = NoRequest]

(* GET /:id; a 404 leaves the client with what it had. *)
Load(c) == /\ req[c].pc = "idle"
           /\ view' = [view EXCEPT ![c] = IF live THEN row ELSE @]
           /\ UNCHANGED <<live, ver, life, content, req>>

(* The SELECT of the content-part and result handlers: the row must have the
   client's version, and its samples are copied for the write. *)
Select(c) ==
  /\ InHandler(c, {"select"})
  /\ \/ /\ live /\ ver = req[c].base
        /\ req' = [req EXCEPT
                     ![c].pc = IF req[c].op = "part" THEN "update" ELSE "write",
                     ![c].body = [f \in Field |-> IF f \in req[c].edited THEN req[c].body[f]
                                                                         ELSE content[f]]]
        /\ UNCHANGED <<live, ver, life, content, view>>
     \/ ~(live /\ ver = req[c].base) /\ Answer(c)

(* Seeded faults: no version in the condition, or the wrong one. *)
AcceptsAnyVersion(c)  == live
AcceptsNextVersion(c) == live /\ ver + 1 = req[c].base

CasAccepts(c) == live /\ ver = req[c].base

(* UPDATE ... WHERE id = ? AND version = ?; without a row the handler asks why. *)
UpdateIfVersion(c) ==
  /\ InHandler(c, {"update"})
  /\ \/ CasAccepts(c) /\ Commit(c)
     \/ ~CasAccepts(c) /\ Goto(c, "check") /\ UNCHANGED <<live, ver, life, content, view>>

(* SELECT version after a refused UPDATE: 404, or 409 with serverVersion. *)
Check(c) == InHandler(c, {"check"}) /\ Answer(c)

(* The result handler's UPDATE ... WHERE id = ?: no version in the condition.
   A row deleted meanwhile makes rows[0] undefined, which is a 500. *)
WriteResult(c) ==
  /\ InHandler(c, {"write"}) /\ req[c].op = "result"
  /\ IF live THEN Commit(c) ELSE Answer(c)

(* find_import_conflict_audit_id: replace needs the row, restore its absence. *)
FindConflict(c) ==
  /\ InHandler(c, {"conflict"})
  /\ \/ /\ live = (req[c].op = "replace")
        /\ Goto(c, "write")
        /\ UNCHANGED <<live, ver, life, content, view>>
     \/ live # (req[c].op = "replace") /\ Answer(c)

(* Seeded fault: import replaces the content and leaves the version alone. *)
ReplaceUncounted(c) ==
  /\ InHandler(c, {"write"}) /\ req[c].op = "replace"
  /\ IF live THEN CommitUncounted(c) ELSE Answer(c)

(* UPDATE ... WHERE id = ? without a version, 404 when the row has gone. *)
WriteReplace(c) ==
  /\ InHandler(c, {"write"}) /\ req[c].op = "replace"
  /\ IF live THEN Commit(c) ELSE Answer(c)

(* INSERT with the id of the deleted audit; version takes its default, 1.  A
   row inserted meanwhile violates the primary key, which is a 500. *)
WriteRestore(c) ==
  /\ InHandler(c, {"write"}) /\ req[c].op = "restore"
  /\ \/ live /\ Answer(c)
     \/ /\ ~live
        /\ live' = TRUE
        /\ ver' = 1
        /\ life' = life + 1
        /\ content' = req[c].body
        /\ view' = [view EXCEPT ![c] = row']
        /\ req' = [req EXCEPT ![c] = NoRequest]

(* DELETE /:id.  MaxLife bounds how often the row comes and goes. *)
Delete == /\ live /\ life <= MaxLife
          /\ live' = FALSE
          /\ UNCHANGED <<ver, life, content, view, req>>

-----------------------------------------------------------------------------
(* The calls whose write is conditional on the version, and those beside them. *)
CasStep(c)    == \/ SendPatch(c) \/ SendOnePart(c, "part") \/ SendImport(c, "replace")
                 \/ Load(c) \/ Select(c) \/ UpdateIfVersion(c) \/ Check(c)
                 \/ FindConflict(c) \/ WriteReplace(c)
ResultStep(c) == SendOnePart(c, "result") \/ WriteResult(c)
RestoreStep(c) == SendImport(c, "restore") \/ WriteRestore(c)

CasNext == (\E c \in Client : CasStep(c)) \/ Delete
Next    == (\E c \in Client : CasStep(c) \/ ResultStep(c) \/ RestoreStep(c)) \/ Delete

Spec    == Init /\ [][Next]_vars
CasSpec == Init /\ [][CasNext]_vars

-----------------------------------------------------------------------------
(* Properties. *)

TypeOK == /\ live \in BOOLEAN
          /\ ver \in Nat
          /\ life \in Nat
          /\ content \in Content
          /\ view \in [Client -> View]
          /\ req \in [Client -> Request]

(* A version number stands for one content: whoever was sent version v of
   this row knows exactly what the row holds as long as its version is v, and
   nobody was sent a version the row has not reached.  All optimistic locking
   rests on it (audits.js:897-902, docs/audit_version_contract.md). *)
VersionIdentifiesContent ==
  \A c \in Client : view[c].life = life =>
    /\ view[c].ver <= ver
    /\ view[c].ver = ver => view[c].content = content

AtItsStage(r) == \/ r.op = "none" /\ r.pc = "idle"
                 \/ r.op \in {"patch", "part"} /\ r.pc \in {"update", "check"}
                 \/ r.op \in {"part", "result"} /\ r.pc = "select"
                 \/ r.op \in {"replace", "restore"} /\ r.pc = "conflict"
                 \/ r.op \in {"result", "replace", "restore"} /\ r.pc = "write"

(* What a request in a handler still knows of the row, although other
   handlers run between its statements: a conditional save based on the row's
   version carries the row's own value in every field its client left alone,
   and one that was refused has been overtaken, or its row deleted. *)
KnowsItsBase(r) ==
  /\ AtItsStage(r)
  /\ r.life <= life
  /\ r.op \in {"patch", "part"} /\ r.life = life =>
       /\ r.base <= ver
       /\ r.base = ver => \A f \in Field \ r.edited : r.body[f] = content[f]
       /\ r.pc = "check" /\ live => r.base < ver

RequestsKnowTheirBase ==
  \A c \in Client : view[c].life <= life /\ KnowsItsBase(req[c])

(* The version grows by exactly one with every write, and nothing changes
   without it, while the row lives (docs/audit_version_contract.md:5).  A
   restored row starts a new life at version 1. *)
VersionCountsWrites ==
  [][ <<ver, content>>' # <<ver, content>> =>
        \/ (life' = life) /\ (ver' = ver + 1)
        \/ (life' = life + 1) /\ (ver' = 1) ]_vars

Writes(c) == req[c].op \in {"patch", "part", "result"} /\ req[c].pc \in {"update", "write"}
             /\ ver' # ver /\ req'[c] # req[c]

(* A save changes the fields its client edited and no others: what anybody
   else had saved in the meantime is either refused or still there.  Several
   handlers have to interleave to break it. *)
ChangesOnlyItsEdits(c) == Writes(c) => DiffFields(content, content') \subseteq req[c].edited

(* ... for the two handlers whose UPDATE is conditional on the version
   (PATCH /:id and PATCH /:id/content-part), based on the row of this life. *)
NoLostUpdate ==
  [][ \A c \in Client : req[c].op \in {"patch", "part"} /\ req[c].life = life
        => ChangesOnlyItsEdits(c) ]_vars

(* ... for the result handler, which checks the version in its SELECT only. *)
NoLostUpdateByResult ==
  [][ \A c \in Client : req[c].op = "result" => ChangesOnlyItsEdits(c) ]_vars

(* ... for a conditional UPDATE, whatever life of the row it was based on. *)
NoLostUpdateAcrossRestore ==
  [][ \A c \in Client : req[c].op \in {"patch", "part"} => ChangesOnlyItsEdits(c) ]_vars

(* A PATCH is refused with 409 only when the row really has another version
   than the client's: the serverVersion in the answer (read by a second
   statement, after the refused UPDATE) is never the expectedVersion sent. *)
ConflictIsReal ==
  [][ \A c \in Client :
        req[c].pc = "check" /\ req'[c].pc = "idle" /\ live /\ req[c].life = life
          => ver > req[c].base ]_vars
=============================================================================
