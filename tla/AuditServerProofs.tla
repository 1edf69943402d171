-------------------------- MODULE AuditServerProofs --------------------------
(***************************************************************************)
(* Proofs about AuditServer for every set of clients, fields and values.   *)
(* The inductive invariant Inv joins the type invariant, the meaning of a  *)
(* version number and what a request in a handler knows of the row.        *)
(***************************************************************************)
EXTENDS AuditServerRefinement, TLAPS

Inv == TypeOK /\ VersionIdentifiesContent /\ RequestsKnowTheirBase

-----------------------------------------------------------------------------
(* The three ways a step ends: a request enters, is answered without a row,
   or writes the row.  Each keeps Inv. *)

(* The empty request is a request, and knows nothing that could be wrong. *)
LEMMA NoRequestType == NoRequest \in Request
<1>1. Blank \in Content
  BY ValueAssumption DEF Blank, Content
<1> QED
  BY <1>1 DEF NoRequest, Request, Op, Pc

LEMMA NoRequestKnows == ASSUME TypeOK PROVE KnowsItsBase(NoRequest)
BY DEF TypeOK, KnowsItsBase, NoRequest, AtItsStage

(* The first row everybody is sent is the row. *)
LEMMA InitInv == Init => Inv
<1> SUFFICES ASSUME Init PROVE Inv
  OBVIOUS
<1>1. TypeOK
  BY NoRequestType DEF Init, TypeOK, View, row
<1>2. VersionIdentifiesContent
  BY DEF Init, VersionIdentifiesContent, row
<1>3. \A c \in Client : view[c].life <= life
  BY DEF Init, row
<1>4. RequestsKnowTheirBase
  BY <1>1, <1>3, NoRequestKnows DEF Init, RequestsKnowTheirBase
<1> QED
  BY <1>1, <1>2, <1>4 DEF Inv

(* A request that knows its base enters a handler. *)
LEMMA SendInv ==
  ASSUME Inv, NEW c \in Client, NEW r \in Request, KnowsItsBase(r), Send(c, r)
  PROVE  Inv'
<1>1. TypeOK'
  BY DEF Inv, TypeOK, Send
<1>2. VersionIdentifiesContent'
  BY DEF Inv, VersionIdentifiesContent, Send
<1>3. \A d \in Client : req'[d] = IF d = c THEN r ELSE req[d]
  BY DEF Inv, TypeOK, Send
<1>4. RequestsKnowTheirBase'
  BY <1>3 DEF Inv, RequestsKnowTheirBase, KnowsItsBase, AtItsStage, Send
<1> QED
  BY <1>1, <1>2, <1>4 DEF Inv

(* A request is answered without a row. *)
LEMMA AnswerInv ==
  ASSUME Inv, NEW c \in Client, Answer(c)
  PROVE  Inv'
<1>1. TypeOK'
  BY NoRequestType DEF Inv, TypeOK, Answer
<1>2. VersionIdentifiesContent'
  BY DEF Inv, VersionIdentifiesContent, Answer
<1>3. \A d \in Client : req'[d] = IF d = c THEN NoRequest ELSE req[d]
  BY DEF Inv, TypeOK, Answer
<1>4. KnowsItsBase(NoRequest)'
  BY <1>1, NoRequestKnows DEF TypeOK, KnowsItsBase, NoRequest, AtItsStage
<1>5. RequestsKnowTheirBase'
  BY <1>3, <1>4 DEF Inv, RequestsKnowTheirBase, KnowsItsBase, AtItsStage, Answer
<1> QED
  BY <1>1, <1>2, <1>5 DEF Inv

(* A request writes the row: whoever else knows the row knows it under a
   smaller version now. *)
LEMMA CommitInv ==
  ASSUME Inv, NEW c \in Client, Commit(c)
  PROVE  Inv'
<1> USE DEF Inv
<1>1. content' \in Content
  BY DEF TypeOK, Commit, Content, Request
<1>2. row' \in View
  BY <1>1 DEF TypeOK, Commit, View, row
<1>3. TypeOK'
  BY <1>1, <1>2, NoRequestType DEF TypeOK, Commit
<1>4. \A d \in Client : /\ req'[d] = IF d = c THEN NoRequest ELSE req[d]
                        /\ view'[d] = IF d = c THEN row' ELSE view[d]
  BY DEF TypeOK, Commit
<1>5. ver' = ver + 1 /\ life' = life /\ live' = live /\ ver \in Nat
  BY DEF Commit, TypeOK
<1>6. VersionIdentifiesContent'
  <2> SUFFICES ASSUME NEW d \in Client, view'[d].life = life'
               PROVE  view'[d].ver <= ver' /\ (view'[d].ver = ver' => view'[d].content = content')
    BY DEF VersionIdentifiesContent
  <2>1. CASE d = c
    BY <2>1, <1>4, <1>3 DEF row, TypeOK
  <2>2. CASE d # c
    <3>1. view[d].ver \in Nat
      BY DEF TypeOK, View
    <3> QED
      BY <2>2, <3>1, <1>4, <1>5 DEF VersionIdentifiesContent
  <2> QED
    BY <2>1, <2>2
<1>7. ASSUME NEW d \in Client PROVE view'[d].life <= life'
  BY <1>4, <1>5 DEF RequestsKnowTheirBase, row, TypeOK
<1>8. ASSUME NEW d \in Client PROVE KnowsItsBase(req[d])'
  <2>1. CASE d = c
    BY <2>1, <1>4, <1>3, NoRequestKnows DEF TypeOK, KnowsItsBase, NoRequest, AtItsStage
  <2>2. CASE d # c
    <3>1. req[d].base \in Nat
      BY DEF TypeOK, Request
    <3> QED
      BY <2>2, <3>1, <1>4, <1>5 DEF RequestsKnowTheirBase, KnowsItsBase, AtItsStage
  <2> QED
    BY <2>1, <2>2
<1>9. RequestsKnowTheirBase'
  BY <1>7, <1>8 DEF RequestsKnowTheirBase
<1> QED
  BY <1>3, <1>6, <1>9

-----------------------------------------------------------------------------
(* Every step keeps Inv: one step of the proof per action. *)

LEMMA NextInv == ASSUME Inv, [Next]_vars PROVE Inv'
<1> USE DEF Inv
<1>1. ASSUME NEW c \in Client, SendPatch(c) PROVE Inv'
  <2> DEFINE edited(body) == DiffFields(body, view[c].content)
             r(W, body) == [op |-> "patch", pc |-> "update", base |-> view[c].ver,
                            life |-> view[c].life, written |-> W, edited |-> edited(body),
                            body |-> body]
  <2>1. PICK W \in {Field, Column}, body \in Content :
               edited(body) \subseteq W /\ Send(c, r(W, body))
    BY <1>1 DEF SendPatch
  <2>2. view[c].ver \in Nat /\ view[c].life \in Nat /\ view[c].life <= life
    BY DEF TypeOK, View, RequestsKnowTheirBase
  <2>3. r(W, body) \in Request
    BY <2>1, <2>2 DEF Request, Op, Pc, Field
  <2>4. \A f \in Field \ edited(body) : body[f] = view[c].content[f]
    BY DEF DiffFields
  <2>5. KnowsItsBase(r(W, body))
    BY <2>2, <2>4 DEF VersionIdentifiesContent, KnowsItsBase, AtItsStage
  <2> HIDE DEF r
  <2> QED
    BY <2>1, <2>3, <2>5, SendInv
<1>2. ASSUME NEW c \in Client, NEW op \in {"part", "result"}, SendOnePart(c, op) PROVE Inv'
  <2> DEFINE r(p, v) == [op |-> op, pc |-> "select", base |-> view[c].ver,
                         life |-> view[c].life, written |-> Part, edited |-> {p},
                         body |-> [view[c].content EXCEPT ![p] = v]]
  <2>1. PICK p \in Part, v \in Value : Send(c, r(p, v))
    BY <1>2 DEF SendOnePart
  <2>2. /\ view[c].ver \in Nat /\ view[c].life \in Nat /\ view[c].life <= life
        /\ view[c].content \in Content
    BY DEF TypeOK, View, RequestsKnowTheirBase
  <2>3. r(p, v) \in Request
    BY <2>2 DEF Request, Op, Pc, Field, Content
  <2>4. \A f \in Field \ {p} : r(p, v).body[f] = view[c].content[f]
    BY <2>2 DEF Content
  <2>5. KnowsItsBase(r(p, v))
    BY <2>2, <2>4 DEF VersionIdentifiesContent, KnowsItsBase, AtItsStage
  <2> HIDE DEF r
  <2> QED
    BY <2>1, <2>3, <2>5, SendInv
<1>3. ASSUME NEW c \in Client, NEW op \in {"replace", "restore"}, SendImport(c, op) PROVE Inv'
  <2> DEFINE r(body) == [op |-> op, pc |-> "conflict", base |-> 0, life |-> 0,
                         written |-> Field, edited |-> Field, body |-> body]
  <2>1. PICK body \in Content : Send(c, r(body))
    BY <1>3 DEF SendImport
  <2>2. r(body) \in Request
    BY DEF Request, Op, Pc
  <2>3. KnowsItsBase(r(body))
    BY DEF TypeOK, KnowsItsBase, AtItsStage
  <2> HIDE DEF r
  <2> QED
    BY <2>1, <2>2, <2>3, SendInv
<1>4. ASSUME NEW c \in Client, Load(c) PROVE Inv'
  <2>1. row \in View
    BY DEF TypeOK, View, row
  <2>2. TypeOK'
    BY <1>4, <2>1 DEF TypeOK, Load
  <2>3. \A d \in Client : view'[d] = view[d] \/ view'[d] = row
    BY <1>4 DEF TypeOK, Load
  <2>4. VersionIdentifiesContent'
    BY <1>4, <2>3 DEF VersionIdentifiesContent, Load, row, TypeOK
  <2>5. \A d \in Client : view'[d].life <= life'
    BY <1>4, <2>3 DEF RequestsKnowTheirBase, Load, row, TypeOK
  <2>6. RequestsKnowTheirBase'
    BY <1>4, <2>5 DEF RequestsKnowTheirBase, KnowsItsBase, AtItsStage, Load
  <2> QED
    BY <2>2, <2>4, <2>6
<1>5. ASSUME NEW c \in Client, Select(c) PROVE Inv'
  <2> DEFINE body == [f \in Field |-> IF f \in req[c].edited THEN req[c].body[f] ELSE content[f]]
             r == [req[c] EXCEPT !.pc = IF req[c].op = "part" THEN "update" ELSE "write",
                                 !.body = body]
  <2>1. CASE Answer(c)
    BY <2>1, AnswerInv
  <2>2. CASE /\ live /\ ver = req[c].base
             /\ req' = [req EXCEPT ![c] = r]
             /\ UNCHANGED <<live, ver, life, content, view>>
    <3>1. req[c] \in Request /\ body \in Content
      BY DEF TypeOK, Request, Content
    <3>2. r \in Request
      BY <3>1 DEF Request, Pc
    <3>3. TypeOK'
      BY <2>2, <3>2 DEF TypeOK
    <3>4. VersionIdentifiesContent'
      BY <2>2 DEF VersionIdentifiesContent
    <3>5. req[c].op \in {"part", "result"}
      BY <1>5 DEF Select, InHandler, RequestsKnowTheirBase, KnowsItsBase, AtItsStage
    <3>6. /\ r.op = req[c].op /\ r.life = req[c].life /\ r.base = req[c].base
          /\ r.edited = req[c].edited /\ r.body = body
          /\ r.pc = IF req[c].op = "part" THEN "update" ELSE "write"
      BY <3>1 DEF Request
    <3>7. KnowsItsBase(r)
      <4> HIDE DEF r
      <4> QED
        BY <2>2, <3>5, <3>6 DEF RequestsKnowTheirBase, KnowsItsBase, AtItsStage
    <3>8. \A d \in Client : req'[d] = IF d = c THEN r ELSE req[d]
      BY <2>2 DEF TypeOK
    <3>9. RequestsKnowTheirBase'
      <4> HIDE DEF r
      <4> QED
        BY <2>2, <3>7, <3>8 DEF RequestsKnowTheirBase, KnowsItsBase, AtItsStage
    <3> QED
      BY <3>3, <3>4, <3>9
  <2> QED
    BY <1>5, <2>1, <2>2 DEF Select
<1>6. ASSUME NEW c \in Client, NEW pc \in {"check", "write"}, Goto(c, pc),
             UNCHANGED <<live, ver, life, content, view>>,
             AtItsStage([req[c] EXCEPT !.pc = pc]),
             pc = "check" => ~CasAccepts(c)
      PROVE  Inv'
  <2> DEFINE r == [req[c] EXCEPT !.pc = pc]
  <2>1. req[c] \in Request
    BY DEF TypeOK
  <2>2. r \in Request
    BY <2>1 DEF Request, Pc
  <2>3. /\ r.op = req[c].op /\ r.life = req[c].life /\ r.base = req[c].base
        /\ r.edited = req[c].edited /\ r.body = req[c].body /\ r.pc = pc
    BY <2>1 DEF Request
  <2>4. req' = [req EXCEPT ![c] = r]
    BY <1>6 DEF Goto
  <2>5. TypeOK'
    BY <1>6, <2>2, <2>4 DEF TypeOK
  <2>6. VersionIdentifiesContent'
    BY <1>6 DEF VersionIdentifiesContent
  <2>7. \A d \in Client : req'[d] = IF d = c THEN r ELSE req[d]
    BY <2>4 DEF TypeOK
  <2>8. req[c].base \in Nat /\ ver \in Nat
    BY <2>1 DEF Request, TypeOK
  <2>9. KnowsItsBase(r)
    <3>1. AtItsStage(r)
      BY <1>6
    <3> HIDE DEF r
    <3> QED
      BY <1>6, <2>3, <2>8, <3>1 DEF RequestsKnowTheirBase, KnowsItsBase, CasAccepts
  <2>10. RequestsKnowTheirBase'
    <3> HIDE DEF r
    <3> QED
      BY <1>6, <2>7, <2>9 DEF RequestsKnowTheirBase, KnowsItsBase, AtItsStage
  <2> QED
    BY <2>5, <2>6, <2>10
<1>7. ASSUME NEW c \in Client, UpdateIfVersion(c) PROVE Inv'
  <2>1. CASE Commit(c)
    BY <2>1, CommitInv
  <2>2. CASE /\ ~CasAccepts(c) /\ Goto(c, "check")
             /\ UNCHANGED <<live, ver, life, content, view>>
    <3>1. req[c] \in Request /\ req[c].op \in {"patch", "part"}
      BY <1>7 DEF TypeOK, UpdateIfVersion, InHandler, RequestsKnowTheirBase, KnowsItsBase, AtItsStage
    <3>2. AtItsStage([req[c] EXCEPT !.pc = "check"])
      BY <3>1 DEF AtItsStage, Request
    <3> QED
      BY <2>2, <3>2, <1>6
  <2> QED
    BY <1>7, <2>1, <2>2 DEF UpdateIfVersion
<1>8. ASSUME NEW c \in Client, FindConflict(c) PROVE Inv'
  <2>1. CASE Answer(c)
    BY <2>1, AnswerInv
  <2>2. CASE Goto(c, "write") /\ UNCHANGED <<live, ver, life, content, view>>
    <3>1. req[c] \in Request /\ req[c].op \in {"replace", "restore"}
      BY <1>8 DEF TypeOK, FindConflict, InHandler, RequestsKnowTheirBase, KnowsItsBase, AtItsStage
    <3>2. AtItsStage([req[c] EXCEPT !.pc = "write"])
      BY <3>1 DEF AtItsStage, Request
    <3> QED
      BY <2>2, <3>2, <1>6
  <2> QED
    BY <1>8, <2>1, <2>2 DEF FindConflict
<1>9. ASSUME NEW c \in Client, Check(c) \/ WriteResult(c) \/ WriteReplace(c) PROVE Inv'
  BY <1>9, AnswerInv, CommitInv DEF Check, WriteResult, WriteReplace
<1>10. ASSUME NEW c \in Client, WriteRestore(c) PROVE Inv'
  <2>1. CASE Answer(c)
    BY <2>1, AnswerInv
  <2>2. CASE /\ live' = TRUE /\ ver' = 1 /\ life' = life + 1 /\ content' = req[c].body
             /\ view' = [view EXCEPT ![c] = row'] /\ req' = [req EXCEPT ![c] = NoRequest]
    <3>1. content' \in Content
      BY <2>2 DEF TypeOK, Request
    <3>2. row' \in View
      BY <2>2, <3>1 DEF TypeOK, View, row
    <3>3. TypeOK'
      BY <2>2, <3>1, <3>2, NoRequestType DEF TypeOK
    <3>4. \A d \in Client : /\ req'[d] = IF d = c THEN NoRequest ELSE req[d]
                            /\ view'[d] = IF d = c THEN row' ELSE view[d]
      BY <2>2 DEF TypeOK
    <3>5. \A d \in Client : view[d].life <= life /\ view[d].life \in Nat /\ req[d].life \in Nat
      BY DEF TypeOK, View, Request, RequestsKnowTheirBase
    <3>6. VersionIdentifiesContent'
      BY <2>2, <3>3, <3>4, <3>5 DEF VersionIdentifiesContent, row, TypeOK
    <3>7. ASSUME NEW d \in Client PROVE KnowsItsBase(req[d])'
      <4>1. CASE d = c
        BY <4>1, <3>3, <3>4 DEF TypeOK, KnowsItsBase, NoRequest, AtItsStage
      <4>2. CASE d # c
        BY <4>2, <2>2, <3>4, <3>5 DEF TypeOK, RequestsKnowTheirBase, KnowsItsBase, AtItsStage
      <4> QED
        BY <4>1, <4>2
    <3>8. \A d \in Client : view'[d].life <= life'
      BY <2>2, <3>4, <3>5 DEF row, TypeOK
    <3>9. RequestsKnowTheirBase'
      BY <3>7, <3>8 DEF RequestsKnowTheirBase
    <3> QED
      BY <3>3, <3>6, <3>9
  <2> QED
    BY <1>10, <2>1, <2>2 DEF WriteRestore
<1>11. ASSUME Delete PROVE Inv'
  BY <1>11 DEF Delete, TypeOK, VersionIdentifiesContent, RequestsKnowTheirBase, KnowsItsBase, AtItsStage
<1>12. ASSUME UNCHANGED vars PROVE Inv'
  BY <1>12 DEF vars, TypeOK, VersionIdentifiesContent, RequestsKnowTheirBase, KnowsItsBase, AtItsStage
<1> QED
  BY <1>1, <1>2, <1>3, <1>4, <1>5, <1>7, <1>8, <1>9, <1>10, <1>11, <1>12
     DEF Next, CasStep, ResultStep, RestoreStep

(* The invariant holds whenever any of the handlers run. *)
LEMMA SpecInv == Spec => []Inv
BY InitInv, NextInv, PTL DEF Spec

-----------------------------------------------------------------------------

(* Every variable keeps its type, in every interleaving of the handlers. *)
THEOREM TypeCorrect == Spec => []TypeOK
BY SpecInv, PTL DEF Inv

(* A version number stands for one content of the row. *)
THEOREM VersionIsContent == Spec => []VersionIdentifiesContent
BY SpecInv, PTL DEF Inv

(* What a request in a handler knows of the row survives the other handlers. *)
THEOREM RequestsKnow == Spec => []RequestsKnowTheirBase
BY SpecInv, PTL DEF Inv

-----------------------------------------------------------------------------
(* Action properties, from the invariant. *)

(* The version counts the writes: +1 for each, 1 for a restored row. *)
THEOREM VersionCounts == Spec => VersionCountsWrites
<1>1. ASSUME Next, <<ver, content>>' # <<ver, content>>
      PROVE  \/ (life' = life) /\ (ver' = ver + 1)
             \/ (life' = life + 1) /\ (ver' = 1)
  BY <1>1 DEF Next, CasStep, ResultStep, RestoreStep, SendPatch, SendOnePart, SendImport, Send,
              Load, Select, UpdateIfVersion, Check, WriteResult, FindConflict, WriteReplace,
              WriteRestore, Delete, Answer, Commit
<1>2. ASSUME [Next]_vars
      PROVE  [ <<ver, content>>' # <<ver, content>> =>
                 \/ (life' = life) /\ (ver' = ver + 1)
                 \/ (life' = life + 1) /\ (ver' = 1) ]_vars
  BY <1>1, <1>2 DEF vars
<1> QED
  BY <1>2, PTL DEF Spec, VersionCountsWrites

(* A conditional save changes what its client edited and nothing else. *)
THEOREM CasLosesNothing == Spec => NoLostUpdate
<1>1. ASSUME Inv, [Next]_vars, NEW c \in Client, req[c].op \in {"patch", "part"},
             req[c].life = life, Writes(c)
      PROVE  DiffFields(content, content') \subseteq req[c].edited
  <2>1. req[c].pc \in {"update", "write"} /\ ver' # ver /\ req'[c] # req[c]
    BY <1>1 DEF Writes
  <2>2. req[c].pc = "update"
    BY <1>1, <2>1 DEF Inv, RequestsKnowTheirBase, KnowsItsBase, AtItsStage
  <2>3. UpdateIfVersion(c)
    <3>1. ASSUME NEW d \in Client, d # c PROVE Commit(d) => req'[c] = req[c]
      BY <3>1 DEF Commit, Inv, TypeOK
    <3>2. ASSUME NEW d \in Client, WriteRestore(d) PROVE req'[c] = req[c]
      <4>1. d # c
        BY <3>2, <1>1 DEF WriteRestore
      <4>2. req' = [req EXCEPT ![d] = NoRequest]
        BY <3>2 DEF WriteRestore, Answer
      <4> QED
        BY <4>1, <4>2 DEF Inv, TypeOK
    <3> QED
      BY <1>1, <2>1, <2>2, <3>1, <3>2
         DEF Next, vars, CasStep, ResultStep, RestoreStep, SendPatch, SendOnePart, SendImport,
             Send, Load, Select, UpdateIfVersion, Check, WriteResult, FindConflict, WriteReplace,
             Delete, Answer, InHandler
  <2>4. CasAccepts(c) /\ Commit(c)
    BY <2>1, <2>3 DEF UpdateIfVersion
  <2>5. \A f \in Field \ req[c].edited : req[c].body[f] = content[f]
    BY <1>1, <2>4 DEF Inv, RequestsKnowTheirBase, KnowsItsBase, CasAccepts
  <2>6. \A f \in Field \ req[c].edited : content'[f] = content[f]
    BY <2>4, <2>5 DEF Commit
  <2> QED
    BY <2>6 DEF DiffFields
<1>2. ASSUME Inv, [Next]_vars
      PROVE  [ \A c \in Client : req[c].op \in {"patch", "part"} /\ req[c].life = life
                 => ChangesOnlyItsEdits(c) ]_vars
  BY <1>1, <1>2 DEF ChangesOnlyItsEdits
<1> QED
  BY <1>2, SpecInv, PTL DEF Spec, NoLostUpdate

(* A 409 names a version the client did not have. *)
THEOREM ConflictsAreReal == Spec => ConflictIsReal
<1>1. ASSUME Inv, NEW c \in Client, req[c].pc = "check", live, req[c].life = life
      PROVE  ver > req[c].base
  <2>1. req[c].base < ver
    BY <1>1 DEF Inv, RequestsKnowTheirBase, KnowsItsBase, AtItsStage
  <2> QED
    BY <2>1 DEF Inv, TypeOK, Request
<1>2. ASSUME Inv, [Next]_vars
      PROVE  [ \A c \in Client :
                 req[c].pc = "check" /\ req'[c].pc = "idle" /\ live /\ req[c].life = life
                   => ver > req[c].base ]_vars
  BY <1>1, <1>2
<1> QED
  BY <1>2, SpecInv, PTL DEF Spec, ConflictIsReal

-----------------------------------------------------------------------------
(* The conditional handlers implement VersionedRow.  Beside Inv the proof
   needs that without restored rows there is one life, and what the edits of
   a request are. *)

CasRequest(r) == /\ r.op \in {"none", "patch", "part", "replace"}
                 /\ r.op = "none" => r.edited = {}
                 /\ r.op # "none" => r.edited # {} /\ r.edited \subseteq r.written
                 /\ r.op \in {"patch", "part"} => r.life = life
                 /\ r.op = "replace" => r.edited = Field

CasInv == \A c \in Client : view[c].life = life /\ CasRequest(req[c])

LEMMA CasInitInv == Init => CasInv
BY DEF Init, CasInv, CasRequest, NoRequest, row

LEMMA CasNextInv == ASSUME Inv, CasInv, [CasNext]_vars PROVE CasInv'
<1> USE DEF CasInv
<1>1. ASSUME NEW c \in Client, NEW r, CasRequest(r), Send(c, r) PROVE CasInv'
  BY <1>1 DEF Inv, TypeOK, Send, CasRequest
<1>2. ASSUME NEW c \in Client, Answer(c) PROVE CasInv'
  BY <1>2 DEF Inv, TypeOK, Answer, CasRequest, NoRequest
<1>3. ASSUME NEW c \in Client, Commit(c) PROVE CasInv'
  <2>1. \A d \in Client : /\ req'[d] = IF d = c THEN NoRequest ELSE req[d]
                          /\ view'[d] = IF d = c THEN row' ELSE view[d]
    BY <1>3 DEF Inv, TypeOK, Commit
  <2>2. life' = life /\ row'.life = life
    BY <1>3 DEF Commit, row
  <2> QED
    BY <2>1, <2>2 DEF CasRequest, NoRequest
<1>4. ASSUME NEW c \in Client, NEW r, UNCHANGED <<live, ver, life, content, view>>,
             req' = [req EXCEPT ![c] = r], r.op = req[c].op, r.edited = req[c].edited,
             r.written = req[c].written, r.life = req[c].life
      PROVE  CasInv'
  BY <1>4 DEF Inv, TypeOK, CasRequest
<1>5. ASSUME NEW c \in Client, SendPatch(c) PROVE CasInv'
  <2>1. PICK W \in {Field, Column}, body \in Content :
          LET edited == DiffFields(body, view[c].content) IN
          /\ edited # {} /\ edited \subseteq W
          /\ Send(c, [op |-> "patch", pc |-> "update", base |-> view[c].ver,
                      life |-> view[c].life, written |-> W, edited |-> edited, body |-> body])
    BY <1>5 DEF SendPatch
  <2> QED
    BY <2>1, <1>1 DEF CasRequest
<1>6. ASSUME NEW c \in Client, SendOnePart(c, "part") PROVE CasInv'
  <2>1. PICK p \in Part, v \in Value :
          Send(c, [op |-> "part", pc |-> "select", base |-> view[c].ver, life |-> view[c].life,
                   written |-> Part, edited |-> {p}, body |-> [view[c].content EXCEPT ![p] = v]])
    BY <1>6 DEF SendOnePart
  <2> QED
    BY <2>1, <1>1 DEF CasRequest
<1>7. ASSUME NEW c \in Client, SendImport(c, "replace") PROVE CasInv'
  <2>1. PICK body \in Content :
          Send(c, [op |-> "replace", pc |-> "conflict", base |-> 0, life |-> 0,
                   written |-> Field, edited |-> Field, body |-> body])
    BY <1>7 DEF SendImport
  <2> QED
    BY <2>1, <1>1, FieldAssumption DEF CasRequest, Field
<1>8. ASSUME NEW c \in Client, Load(c) PROVE CasInv'
  BY <1>8 DEF Load, row, CasRequest, Inv, TypeOK
<1>9. ASSUME NEW c \in Client, Select(c) PROVE CasInv'
  <2>1. req[c] \in Request
    BY DEF Inv, TypeOK
  <2> QED
    BY <1>9, <1>2, <1>4, <2>1 DEF Select, Request
<1>10. ASSUME NEW c \in Client, UpdateIfVersion(c) \/ FindConflict(c) PROVE CasInv'
  <2>1. req[c] \in Request
    BY DEF Inv, TypeOK
  <2> QED
    BY <1>10, <1>2, <1>3, <1>4, <2>1 DEF UpdateIfVersion, FindConflict, Goto, Request
<1>11. ASSUME NEW c \in Client, Check(c) \/ WriteReplace(c) PROVE CasInv'
  BY <1>11, <1>2, <1>3 DEF Check, WriteReplace
<1>12. ASSUME Delete PROVE CasInv'
  BY <1>12 DEF Delete, CasRequest
<1>13. ASSUME UNCHANGED vars PROVE CasInv'
  BY <1>13 DEF vars, CasRequest
<1> QED
  BY <1>5, <1>6, <1>7, <1>8, <1>9, <1>10, <1>11, <1>12, <1>13 DEF CasNext, CasStep

(* Initially nobody wants anything. *)
LEMMA RefinesInit == Init => Row!Init
BY DEF Init, Row!Init, want, WantOf, NoRequest, Row!NoEdit, Content

(* Every step of the handlers is a step of VersionedRow, or none. *)
LEMMA RefinesNext ==
  ASSUME Inv, CasInv, [CasNext]_vars
  PROVE  [Row!Next]_(Row!vars)
<1> USE DEF Inv, CasInv
<1>0. want \in [Client -> [Field -> Value \cup {Keep}]]
  BY DEF want, WantOf, TypeOK, Request, Content
<1>1. WantOf(NoRequest) = Row!NoEdit
  BY DEF WantOf, NoRequest, Row!NoEdit
<1>2. ASSUME NEW c \in Client, NEW r, req' = [req EXCEPT ![c] = r]
      PROVE  want' = [want EXCEPT ![c] = WantOf(r)]
  BY <1>2 DEF want, WantOf, TypeOK
<1>3. ASSUME NEW c \in Client, NEW r \in Request, Send(c, r) PROVE Row!Ask(c)
  <2>1. req[c].op = "none"
    BY <1>3 DEF Send, RequestsKnowTheirBase, KnowsItsBase, AtItsStage
  <2>2. want[c] = Row!NoEdit
    BY <2>1 DEF want, WantOf, CasRequest, Row!NoEdit
  <2>3. WantOf(r) \in Row!Edit
    BY DEF WantOf, Row!Edit, Request, Content
  <2>4. want' = [want EXCEPT ![c] = WantOf(r)]
    BY <1>2, <1>3 DEF Send
  <2> QED
    BY <1>3, <2>2, <2>3, <2>4 DEF Row!Ask, Send
<1>4. ASSUME NEW c \in Client, Answer(c) PROVE Row!Refuse(c)
  BY <1>1, <1>2, <1>4 DEF Answer, Row!Refuse
<1>5. ASSUME NEW c \in Client, Commit(c), live, req[c].op \in {"patch", "part"} => CasAccepts(c),
             req[c].op # "none"
      PROVE  Row!Apply(c)
  <2>1. req[c] \in Request /\ req[c].body \in Content
    BY DEF TypeOK, Request
  <2>2. \A f \in req[c].edited : req[c].body[f] # Keep
    BY <2>1, KeepIsNoValue DEF Content, Request
  <2>3. want[c] # Row!NoEdit
    <3>1. PICK f \in Field : f \in req[c].edited
      BY <1>5, <2>1 DEF CasRequest, Request
    <3>2. want[c][f] # Keep
      BY <3>1, <2>2 DEF want, WantOf
    <3> QED
      BY <3>2 DEF Row!NoEdit
  <2>4. content' = Row!Applied(content, want[c])
    <3>1. ASSUME NEW f \in Field
          PROVE  (IF f \in req[c].written THEN req[c].body[f] ELSE content[f])
                   = (IF want[c][f] = Keep THEN content[f] ELSE want[c][f])
      <4>1. CASE f \in req[c].edited
        BY <4>1, <2>2, <1>5 DEF want, WantOf, CasRequest
      <4>2. CASE f \notin req[c].edited
        <5>1. want[c][f] = Keep
          BY <4>2 DEF want, WantOf
        <5>2. f \in req[c].written => req[c].body[f] = content[f]
          BY <4>2, <1>5 DEF CasRequest, RequestsKnowTheirBase, KnowsItsBase, CasAccepts
        <5> QED
          BY <5>1, <5>2
      <4> QED
        BY <4>1, <4>2
    <3> QED
      BY <1>5, <3>1 DEF Commit, Row!Applied
  <2>5. want' = [want EXCEPT ![c] = Row!NoEdit]
    BY <1>1, <1>2, <1>5 DEF Commit
  <2> QED
    BY <1>5, <2>3, <2>4, <2>5 DEF Row!Apply, Commit
<1>6. ASSUME NEW c \in Client, NEW r, UNCHANGED <<live, ver, life, content, view>>,
             req' = [req EXCEPT ![c] = r], WantOf(r) = WantOf(req[c])
      PROVE  UNCHANGED Row!vars
  <2>1. want' = [want EXCEPT ![c] = want[c]]
    BY <1>2, <1>6 DEF want
  <2>2. want' = want
    BY <2>1, <1>0
  <2> QED
    BY <1>6, <2>2 DEF Row!vars
<1>7. ASSUME NEW c \in Client, NEW pc, Goto(c, pc), UNCHANGED <<live, ver, life, content, view>>
      PROVE  UNCHANGED Row!vars
  <2>1. WantOf([req[c] EXCEPT !.pc = pc]) = WantOf(req[c])
    BY DEF WantOf, TypeOK, Request
  <2> QED
    BY <1>6, <1>7, <2>1 DEF Goto
<1>8. ASSUME NEW c \in Client, SendPatch(c) \/ SendOnePart(c, "part") \/ SendImport(c, "replace")
      PROVE  Row!Ask(c)
  <2>1. view[c] \in View
    BY DEF TypeOK
  <2>2. CASE SendPatch(c)
    <3>1. PICK W \in {Field, Column}, body \in Content :
            Send(c, [op |-> "patch", pc |-> "update", base |-> view[c].ver,
                     life |-> view[c].life, written |-> W,
                     edited |-> DiffFields(body, view[c].content), body |-> body])
      BY <2>2 DEF SendPatch
    <3>2. DiffFields(body, view[c].content) \subseteq Field
      BY DEF DiffFields
    <3> QED
      BY <3>1, <3>2, <2>1, <1>3 DEF Request, View, Op, Pc, Field
  <2>3. CASE SendOnePart(c, "part")
    <3>1. PICK p \in Part, v \in Value :
            Send(c, [op |-> "part", pc |-> "select", base |-> view[c].ver, life |-> view[c].life,
                     written |-> Part, edited |-> {p},
                     body |-> [view[c].content EXCEPT ![p] = v]])
      BY <2>3 DEF SendOnePart
    <3>2. [view[c].content EXCEPT ![p] = v] \in Content
      BY <2>1 DEF View, Content, Field
    <3> QED
      BY <3>1, <3>2, <2>1, <1>3 DEF Request, View, Op, Pc, Field
  <2>4. CASE SendImport(c, "replace")
    BY <2>4, <1>3 DEF SendImport, Request, Op, Pc
  <2> QED
    BY <1>8, <2>2, <2>3, <2>4
<1>9. ASSUME NEW c \in Client, Select(c) PROVE Row!Refuse(c) \/ UNCHANGED Row!vars
  <2> DEFINE body == [f \in Field |-> IF f \in req[c].edited THEN req[c].body[f] ELSE content[f]]
             r == [req[c] EXCEPT !.pc = IF req[c].op = "part" THEN "update" ELSE "write",
                                 !.body = body]
  <2>1. CASE Answer(c)
    BY <2>1, <1>4
  <2>2. CASE req' = [req EXCEPT ![c] = r] /\ UNCHANGED <<live, ver, life, content, view>>
    <3>1. WantOf(r) = WantOf(req[c])
      BY DEF WantOf, TypeOK, Request
    <3> QED
      BY <2>2, <3>1, <1>6
  <2> QED
    BY <1>9, <2>1, <2>2 DEF Select
<1>10. ASSUME NEW c \in Client, UpdateIfVersion(c) PROVE Row!Apply(c) \/ UNCHANGED Row!vars
  <2>1. req[c].op # "none"
    BY <1>10 DEF UpdateIfVersion, InHandler, RequestsKnowTheirBase, KnowsItsBase, AtItsStage
  <2> QED
    BY <1>10, <2>1, <1>5, <1>7 DEF UpdateIfVersion, CasAccepts
<1>11. ASSUME NEW c \in Client, FindConflict(c) PROVE Row!Refuse(c) \/ UNCHANGED Row!vars
  BY <1>11, <1>4, <1>7 DEF FindConflict
<1>12. ASSUME NEW c \in Client, WriteReplace(c) PROVE Row!Apply(c) \/ Row!Refuse(c)
  BY <1>12, <1>4, <1>5 DEF WriteReplace
<1>13. ASSUME NEW c \in Client, Check(c) PROVE Row!Refuse(c)
  BY <1>13, <1>4 DEF Check
<1>14. ASSUME NEW c \in Client, Load(c) PROVE UNCHANGED Row!vars
  BY <1>14 DEF Load, Row!vars, want
<1>15. ASSUME Delete PROVE Row!Remove
  BY <1>15 DEF Delete, Row!Remove, want
<1>16. ASSUME UNCHANGED vars PROVE UNCHANGED Row!vars
  BY <1>16 DEF vars, Row!vars, want
<1> QED
  BY <1>8, <1>9, <1>10, <1>11, <1>12, <1>13, <1>14, <1>15, <1>16 DEF CasNext, CasStep, Row!Next

(* The conditional handlers do what VersionedRow promises: every behaviour of
   theirs is one in which saves are single steps on the current row. *)
THEOREM CasImplementsVersionedRow == CasSpec => ImplementsVersionedRow
<1>1. CasNext => Next
  BY DEF CasNext, Next
<1>2. [CasNext]_vars => [Next]_vars
  BY <1>1
<1>3. Inv /\ [CasNext]_vars => Inv'
  BY <1>2, NextInv
<1>4. CasInv /\ Inv /\ [CasNext]_vars => CasInv'
  BY CasNextInv
<1>5. CasSpec => [](Inv /\ CasInv)
  BY InitInv, CasInitInv, <1>3, <1>4, PTL DEF CasSpec
<1>6. Inv /\ CasInv /\ [CasNext]_vars => [Row!Next]_(Row!vars)
  BY RefinesNext
<1> QED
  BY <1>5, <1>6, RefinesInit, PTL DEF CasSpec, ImplementsVersionedRow, Row!Spec
=============================================================================
