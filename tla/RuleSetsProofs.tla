--------------------------- MODULE RuleSetsProofs ---------------------------
(***************************************************************************)
(* Proofs about RuleSets: what is published comes from a draft, and what a *)
(* handler or a client has read stands for its version.                    *)
(***************************************************************************)
EXTENDS RuleSets, TLAPS

USE NoRuleAssumption, NoContentAssumption, NoRowAssumption

(* The handlers' guards in one fact: a request in flight is a record. *)
LEMMA InFlight == ASSUME TypeOK, NEW q \in Request, req[q] # NoRequest PROVE req[q] \in Asked
  BY DEF TypeOK

LEMMA Living == ASSUME TypeOK, NEW r \in Lives PROVE rows[r] \in Row /\ r \in Rule
  BY DEF TypeOK, Lives

LEMMA RowStep ==
    ASSUME NEW row \in Row, NEW c \in Nat, NEW p \in Nat \cup {NoContent}
    PROVE  /\ [row EXCEPT !.content = c, !.ver = @ + 1] \in Row
           /\ [row EXCEPT !.pub = p, !.ver = @ + 1] \in Row
           /\ [row EXCEPT !.content = c, !.pub = p, !.ver = @ + 1] \in Row
<1>1. row.ver + 1 \in Nat
  BY DEF Row
<1>2. \A v \in Nat : /\ [row EXCEPT !.content = c, !.ver = v] \in Row
                     /\ [row EXCEPT !.pub = p, !.ver = v] \in Row
                     /\ [row EXCEPT !.content = c, !.pub = p, !.ver = v] \in Row
  BY DEF Row
<1>. QED
  BY <1>1, <1>2

-----------------------------------------------------------------------------
LEMMA InitTypes == Init => TypeOK
  BY DEF Init, TypeOK, Row, Asked, NoRequest

LEMMA WriteTypes ==
    ASSUME TypeOK, NEW r \in Lives, NEW c \in Nat, Write(r, c)
    PROVE  rows' \in [Rule -> Row \cup {NoRow}] /\ drafts' \in [Rule -> SUBSET Nat]
<1>1. rows[r] \in Row /\ r \in Rule
  BY Living
<1>2. [rows[r] EXCEPT !.content = c, !.ver = @ + 1] \in Row
  BY <1>1, RowStep
<1>. QED
  BY <1>1, <1>2 DEF Write, TypeOK

LEMMA InsertTypes ==
    ASSUME TypeOK, NEW row \in Row, Insert(row)
    PROVE  rows' \in [Rule -> Row \cup {NoRow}] /\ drafts' \in [Rule -> SUBSET Nat]
<1>1. row.content \in Nat
  BY DEF Row
<1>. QED
  BY <1>1 DEF Insert, TypeOK, Fresh

LEMMA RequestTypes ==
    ASSUME TypeOK, NEW q \in Request
    PROVE  /\ Done(q) => req' \in [Request -> Asked \cup {NoRequest}]
           /\ \A at \in At : req[q] # NoRequest /\ Goto(q, at) => req' \in [Request -> Asked \cup {NoRequest}]
           /\ \A new \in Asked : Send(q, new) => req' \in [Request -> Asked \cup {NoRequest}]
<1>1. \A at \in At : req[q] # NoRequest => [req[q] EXCEPT !.at = at] \in Asked
  BY InFlight DEF Asked
<1>. QED
  BY <1>1 DEF Done, Goto, Send, TypeOK

LEMMA RefuseTypes == ASSUME TypeOK, NEW q \in Request, Refuse(q), UNCHANGED now PROVE TypeOK'
  BY RequestTypes DEF Refuse, TypeOK

LEMMA AskTypes ==
    ASSUME TypeOK, NEW q \in Request, NEW r \in Lives, NEW op \in Op, NEW at \in At, NEW new \in Nat,
           Ask(q, op, at, r, new)
    PROVE  req' \in [Request -> Asked \cup {NoRequest}]
<1>1. rows[r].ver \in Nat /\ rows[r].content \in Nat /\ r \in Rule
  BY Living DEF Row
<1>. DEFINE a == [new |-> new, rule |-> r, ver |-> rows[r].ver, op |-> op, at |-> at,
                   read |-> rows[r].content, target |-> NoRule]
<1>2. a \in Asked
  BY <1>1 DEF Asked
<1>. QED
  BY <1>2, RequestTypes DEF Ask

LEMMA NextTypes == TypeOK /\ [Next]_vars => TypeOK'
<1>. SUFFICES ASSUME TypeOK, [Next]_vars PROVE TypeOK'
  OBVIOUS
<1>1. CASE UNCHANGED vars
  BY <1>1 DEF vars, TypeOK
<1>2. ASSUME NEW q \in Request, Create(q) PROVE TypeOK'
  <2>1. now' \in Nat /\ UNCHANGED <<rows, drafts>>
    BY <1>2 DEF Create, TypeOK
  <2>. DEFINE a == [new |-> now', rule |-> NoRule, ver |-> 1, op |-> "create", at |-> "insert",
                      read |-> now', target |-> NoRule]
  <2>2. a \in Asked
    BY <2>1 DEF Asked, Op, At
  <2>3. req' \in [Request -> Asked \cup {NoRequest}]
    BY <1>2, <2>2, RequestTypes DEF Create
  <2>. QED
    BY <2>1, <2>3 DEF TypeOK
<1>3. ASSUME NEW q \in Request, NEW r \in Lives, Save(q, r) PROVE TypeOK'
  <2>1. now' \in Nat /\ UNCHANGED <<rows, drafts>>
    BY <1>3 DEF Save, TypeOK
  <2>2. req' \in [Request -> Asked \cup {NoRequest}]
    BY <1>3, <2>1, AskTypes DEF Save, Op, At
  <2>. QED
    BY <2>1, <2>2 DEF TypeOK
<1>4. ASSUME NEW q \in Request, NEW r \in Lives, Press(q, r) PROVE TypeOK'
  <2>1. req' \in [Request -> Asked \cup {NoRequest}]
    BY <1>4, AskTypes DEF Press, Op, At
  <2>. QED
    BY <1>4, <2>1 DEF Press, TypeOK
<1>5. ASSUME NEW q \in Request, ServePut(q) \/ ServePatch(q) PROVE TypeOK'
  <2>1. req[q] # NoRequest /\ UNCHANGED now
    BY <1>5 DEF ServePut, ServePatch, In
  <2>2. CASE Refuse(q)
    BY <2>1, <2>2, RefuseTypes
  <2>3. CASE req[q].rule \in Lives /\ Write(req[q].rule, req[q].new) /\ Done(q)
    <3>1. req[q].new \in Nat
      BY <2>1, InFlight DEF Asked
    <3>. QED
      BY <2>1, <2>3, <3>1, WriteTypes, RequestTypes DEF TypeOK
  <2>. QED
    BY <1>5, <2>2, <2>3 DEF ServePut, ServePatch
<1>6. ASSUME NEW q \in Request, PublishSelect(q) \/ CopyCheck(q) \/ DeleteSelect(q) PROVE TypeOK'
  <2>1. req[q] # NoRequest /\ UNCHANGED now
    BY <1>6 DEF PublishSelect, CopyCheck, DeleteSelect, In
  <2>2. CASE Refuse(q)
    BY <2>1, <2>2, RefuseTypes
  <2>3. ASSUME NEW at \in At, Goto(q, at), UNCHANGED <<rows, drafts>> PROVE TypeOK'
    BY <2>1, <2>3, RequestTypes DEF TypeOK
  <2>. QED
    BY <1>6, <2>2, <2>3 DEF PublishSelect, CopyCheck, DeleteSelect, At
<1>7. ASSUME NEW q \in Request, PublishUpdate(q) PROVE TypeOK'
  <2>. DEFINE r == req[q].rule
  <2>1. req[q] # NoRequest /\ UNCHANGED now
    BY <1>7 DEF PublishUpdate, In
  <2>2. CASE Refuse(q)
    BY <2>1, <2>2, RefuseTypes
  <2>3. CASE r \in Lives /\ ~Refuse(q)
    <3>1. rows[r] \in Row /\ r \in Rule
      BY <2>3, Living
    <3>2. [rows[r] EXCEPT !.pub = rows[r].content, !.ver = @ + 1] \in Row
      <4>. HIDE DEF r
      <4>1. rows[r].content \in Nat
        BY <3>1 DEF Row
      <4>. QED
        BY <3>1, <4>1, RowStep
    <3>3. rows' = [rows EXCEPT ![r].pub = rows[r].content, ![r].ver = @ + 1] /\ Done(q) /\ UNCHANGED drafts
      BY <1>7, <2>3 DEF PublishUpdate
    <3>4. rows' \in [Rule -> Row \cup {NoRow}]
      BY <3>1, <3>2, <3>3 DEF TypeOK
    <3>. QED
      BY <2>1, <3>3, <3>4, RequestTypes DEF TypeOK
  <2>. QED
    BY <1>7, <2>2, <2>3 DEF PublishUpdate
<1>8. ASSUME NEW q \in Request, CopySelect(q) PROVE TypeOK'
  <2>. DEFINE r == req[q].rule
  <2>1. req[q] \in Asked /\ UNCHANGED now
    BY <1>8, InFlight DEF CopySelect, In
  <2>2. CASE Refuse(q)
    BY <2>1, <2>2, RefuseTypes
  <2>3. CASE r \in Lives /\ ~Refuse(q)
    <3>1. rows[r] \in Row /\ r \in Rule
      BY <2>3, Living
    <3>2. [req[q] EXCEPT !.at = "check", !.ver = rows[r].ver, !.read = rows[r].content,
             !.new = IF rows[r].pub # NoContent THEN rows[r].pub ELSE rows[r].content] \in Asked
      BY <2>1, <3>1 DEF Row, Asked, At
    <3>3. /\ req' = [req EXCEPT ![q].at = "check", ![q].ver = rows[r].ver, ![q].read = rows[r].content,
                     ![q].new = IF rows[r].pub # NoContent THEN rows[r].pub ELSE rows[r].content]
          /\ UNCHANGED <<rows, drafts>>
      BY <1>8, <2>3 DEF CopySelect
    <3>4. req' \in [Request -> Asked \cup {NoRequest}]
      BY <3>2, <3>3 DEF TypeOK
    <3>. QED
      BY <2>1, <3>3, <3>4 DEF TypeOK
  <2>. QED
    BY <1>8, <2>2, <2>3 DEF CopySelect
<1>9. ASSUME NEW q \in Request, CopyInsert(q) PROVE TypeOK'
  <2>1. req[q] \in Asked /\ UNCHANGED now
    BY <1>9, InFlight DEF CopyInsert, In
  <2>2. CASE Refuse(q)
    BY <2>1, <2>2, RefuseTypes
  <2>3. CASE req[q].rule \in Lives /\ ~Refuse(q)
    <3>. DEFINE new == [content |-> req[q].new, pub |-> NoContent, ver |-> req[q].ver, base |-> req[q].rule]
    <3>1. new \in Row
      BY <2>1, <2>3, Living DEF Row, Asked
    <3>2. Insert(new) /\ Done(q)
      BY <1>9, <2>3 DEF CopyInsert
    <3>. QED
      BY <2>1, <3>1, <3>2, InsertTypes, RequestTypes DEF TypeOK
  <2>. QED
    BY <1>9, <2>2, <2>3 DEF CopyInsert
<1>10. ASSUME NEW q \in Request, CreateInsert(q) PROVE TypeOK'
  <2>. DEFINE new == [content |-> req[q].new, pub |-> NoContent, ver |-> 1, base |-> NoRule]
  <2>1. req[q] \in Asked
    BY <1>10, InFlight DEF CreateInsert, In
  <2>2. new \in Row
    BY <2>1 DEF Row, Asked
  <2>. QED
    BY <1>10, <2>2, InsertTypes, RequestTypes DEF CreateInsert, TypeOK
<1>11. ASSUME NEW q \in Request, PromoteSelect(q) PROVE TypeOK'
  <2>. DEFINE r == req[q].rule
  <2>1. req[q] \in Asked /\ UNCHANGED now
    BY <1>11, InFlight DEF PromoteSelect, In
  <2>2. CASE Refuse(q)
    BY <2>1, <2>2, RefuseTypes
  <2>3. CASE r \in Lives /\ ~Refuse(q)
    <3>1. rows[r] \in Row /\ r \in Rule
      BY <2>3, Living
    <3>2. [req[q] EXCEPT !.at = "update", !.ver = rows[r].ver, !.read = rows[r].content,
             !.new = rows[r].content, !.target = rows[r].base] \in Asked
      BY <2>1, <3>1 DEF Row, Asked, At
    <3>3. /\ req' = [req EXCEPT ![q].at = "update", ![q].ver = rows[r].ver, ![q].read = rows[r].content,
                     ![q].new = rows[r].content, ![q].target = rows[r].base]
          /\ UNCHANGED <<rows, drafts>>
      BY <1>11, <2>3 DEF PromoteSelect
    <3>4. req' \in [Request -> Asked \cup {NoRequest}]
      BY <3>2, <3>3 DEF TypeOK
    <3>. QED
      BY <2>1, <3>3, <3>4 DEF TypeOK
  <2>. QED
    BY <1>11, <2>2, <2>3 DEF PromoteSelect
<1>12. ASSUME NEW q \in Request, PromoteUpdate(q) PROVE TypeOK'
  <2>. DEFINE b == req[q].target
  <2>1. req[q] \in Asked /\ req[q] # NoRequest /\ UNCHANGED now
    BY <1>12, InFlight DEF PromoteUpdate, In
  <2>2. CASE Refuse(q)
    BY <2>1, <2>2, RefuseTypes
  <2>3. CASE b \in Lives /\ ~Refuse(q)
    <3>1. rows[b] \in Row /\ b \in Rule /\ req[q].new \in Nat
      BY <2>1, <2>3, Living DEF Asked
    <3>2. [rows[b] EXCEPT !.content = req[q].new, !.pub = req[q].new, !.ver = @ + 1] \in Row
      BY <3>1, RowStep
    <3>3. /\ rows' = [rows EXCEPT ![b].content = req[q].new, ![b].pub = req[q].new, ![b].ver = @ + 1]
          /\ drafts' = [x \in Rule |-> IF x = rows[b].base THEN drafts[x] \cup {req[q].new} ELSE drafts[x]]
          /\ Goto(q, "remove")
      BY <1>12, <2>3 DEF PromoteUpdate
    <3>4. rows' \in [Rule -> Row \cup {NoRow}]
      BY <3>1, <3>2, <3>3 DEF TypeOK
    <3>5. drafts' \in [Rule -> SUBSET Nat]
      BY <3>1, <3>3 DEF TypeOK
    <3>. QED
      BY <2>1, <3>3, <3>4, <3>5, RequestTypes DEF TypeOK, At
  <2>. QED
    BY <1>12, <2>2, <2>3 DEF PromoteUpdate
<1>13. ASSUME NEW q \in Request, DeleteClear(q) PROVE TypeOK'
  <2>1. \A x \in Copies(req[q].rule) : [rows[x] EXCEPT !.base = NoRule] \in Row
    BY Living DEF Copies, Row
  <2>2. rows' \in [Rule -> Row \cup {NoRow}]
    BY <1>13, <2>1 DEF DeleteClear, TypeOK
  <2>. QED
    BY <1>13, <2>2, RequestTypes DEF DeleteClear, In, At, TypeOK
<1>14. ASSUME NEW q \in Request, Remove(q) PROVE TypeOK'
  <2>1. rows' \in [Rule -> Row \cup {NoRow}]
    BY <1>14 DEF Remove, TypeOK
  <2>. QED
    BY <1>14, <2>1, RequestTypes DEF Remove, TypeOK
<1>. QED
  BY <1>1, <1>2, <1>3, <1>4, <1>5, <1>6, <1>7, <1>8, <1>9, <1>10, <1>11, <1>12, <1>13, <1>14 DEF Next, Serve

(* Every reachable state of rule_sets and of its handlers has its types. *)
THEOREM TypeCorrect == Spec => []TypeOK
  BY InitTypes, NextTypes, PTL DEF Spec

-----------------------------------------------------------------------------
(* The inductive invariant.  Of the rows: what a row holds is a draft of its
   own and of its base.  Of a request: what it carries to another row is a
   draft of that row, and what it has read stands for its version. *)
RowsInv ==
    /\ \A r \in Lives : rows[r].content \in drafts[r]
    /\ \A r \in Lives : rows[r].base # NoRule => rows[r].content \in drafts[rows[r].base]
    /\ PublishedComesFromDraft

Carries(q) ==
    /\ In(q, "copy", "check") \/ In(q, "copy", "insert") =>
           req[q].rule \in Rule /\ req[q].new \in drafts[req[q].rule]
    /\ In(q, "promote", "update") =>
           req[q].target \in Rule /\ req[q].new \in drafts[req[q].target]

Knows(q) ==
    req[q] # NoRequest /\ req[q].rule # NoRule =>
        /\ drafts[req[q].rule] # {}
        /\ req[q].rule \in Lives =>
               /\ req[q].ver <= rows[req[q].rule].ver
               /\ req[q].ver = rows[req[q].rule].ver => req[q].read = rows[req[q].rule].content

IInv == TypeOK /\ RowsInv /\ \A q \in Request : Carries(q) /\ Knows(q)

(* What every step does to rows that have been there: drafts stay, nothing comes
   back, and the content changes with the version only. *)
Onward ==
    /\ \A r \in Rule : drafts[r] \subseteq drafts'[r]
    /\ \A r \in Rule : drafts[r] # {} /\ r \in Lives' =>
           /\ r \in Lives
           /\ rows[r].ver <= rows'[r].ver
           /\ rows[r].ver = rows'[r].ver => rows[r].content = rows'[r].content

LEMMA InitInv == Init => IInv
<1>. SUFFICES ASSUME Init PROVE IInv
  OBVIOUS
<1>1. TypeOK
  BY InitTypes
<1>2. PICK r \in Rule :
        /\ rows = [x \in Rule |-> IF x = r THEN [content |-> 0, pub |-> 0, ver |-> 1, base |-> NoRule]
                                  ELSE NoRow]
        /\ drafts = [x \in Rule |-> IF x = r THEN {0} ELSE {}]
  BY DEF Init
<1>3. \A x \in Lives : x = r
  BY <1>2 DEF Lives
<1>4. RowsInv
  BY <1>2, <1>3 DEF RowsInv, PublishedComesFromDraft
<1>5. \A q \in Request : Carries(q) /\ Knows(q)
  BY DEF Init, Carries, Knows, In
<1>. QED
  BY <1>1, <1>4, <1>5 DEF IInv

(* A request that is left alone, answered, or only goes on to its next statement. *)
LEMMA KnowsStays ==
    ASSUME TypeOK, TypeOK', NEW q \in Request, Knows(q), Onward,
           req'[q] # NoRequest =>
               req[q] # NoRequest /\ req'[q].rule = req[q].rule /\ req'[q].ver = req[q].ver
                                  /\ req'[q].read = req[q].read
    PROVE  Knows(q)'
<1>. SUFFICES ASSUME req'[q] # NoRequest, req'[q].rule # NoRule PROVE Knows(q)'
  BY DEF Knows
<1>. DEFINE r == req[q].rule
<1>1. req[q] \in Asked /\ req[q] # NoRequest /\ r \in Rule /\ drafts[r] # {} /\ req[q].ver \in Nat
  BY InFlight DEF Knows, Asked
<1>2. drafts'[r] # {}
  BY <1>1 DEF Onward
<1>3. ASSUME r \in Lives'
      PROVE  /\ req[q].ver <= rows'[r].ver
             /\ req[q].ver = rows'[r].ver => req[q].read = rows'[r].content
  <2>1. /\ r \in Lives /\ rows[r].ver <= rows'[r].ver
        /\ rows[r].ver = rows'[r].ver => rows[r].content = rows'[r].content
    BY <1>1, <1>3 DEF Onward
  <2>2. rows[r].ver \in Nat /\ rows'[r].ver \in Nat
    BY <1>3, <2>1 DEF TypeOK, Lives, Row
  <2>3. /\ req[q].ver <= rows[r].ver
        /\ req[q].ver = rows[r].ver => req[q].read = rows[r].content
    BY <1>1, <2>1 DEF Knows
  <2>. QED
    BY <1>1, <2>1, <2>2, <2>3
<1>. QED
  BY <1>1, <1>2, <1>3 DEF Knows

LEMMA CarriesStays ==
    ASSUME NEW q \in Request, Carries(q), Onward, req'[q] = req[q]
    PROVE  Carries(q)'
  BY DEF Carries, In, Onward

LEMMA Step ==
    ASSUME IInv, TypeOK', Onward, RowsInv', NEW q \in Request,
           \A p \in Request : p # q => req'[p] = req[p],
           Carries(q)', Knows(q)'
    PROVE  IInv'
<1>1. ASSUME NEW p \in Request, p # q PROVE Carries(p)' /\ Knows(p)'
  <2>1. Carries(p) /\ Knows(p) /\ req'[p] = req[p] /\ TypeOK
    BY <1>1 DEF IInv
  <2>. QED
    BY <2>1, CarriesStays, KnowsStays
<1>. QED
  BY <1>1 DEF IInv

LEMMA Still == ASSUME IInv, UNCHANGED <<rows, drafts>> PROVE Onward /\ RowsInv'
<1>1. Onward
  <2>1. \A r \in Lives : rows[r].ver \in Nat
    BY Living DEF IInv, Row
  <2>2. Lives' = Lives
    BY DEF Lives
  <2>. QED
    BY <2>1, <2>2 DEF Onward
<1>2. RowsInv'
  BY DEF IInv, RowsInv, PublishedComesFromDraft, Lives
<1>. QED
  BY <1>1, <1>2

LEMMA Answered ==
    ASSUME IInv, TypeOK', Onward, RowsInv', NEW q \in Request, Done(q)
    PROVE  IInv'
<1>1. req'[q] = NoRequest /\ \A p \in Request : p # q => req'[p] = req[p]
  BY DEF Done, IInv, TypeOK
<1>2. Carries(q)' /\ Knows(q)'
  BY <1>1 DEF Carries, Knows, In, NoRequest
<1>. QED
  BY <1>1, <1>2, Step

LEMMA Refused == ASSUME IInv, TypeOK', NEW q \in Request, Refuse(q) PROVE IInv'
  BY Still, Answered DEF Refuse

LEMMA GoesOn ==
    ASSUME IInv, TypeOK', Onward, RowsInv', NEW q \in Request, NEW at \in At, req[q] # NoRequest,
           Goto(q, at),
           ~(req[q].op = "copy" /\ at \in {"check", "insert"}) \/ In(q, "copy", "check"),
           ~(req[q].op = "promote" /\ at = "update")
    PROVE  IInv'
<1>1. req[q] \in Asked /\ Carries(q) /\ Knows(q) /\ TypeOK
  BY InFlight DEF IInv
<1>2. /\ req'[q] = [req[q] EXCEPT !.at = at]
      /\ \A p \in Request : p # q => req'[p] = req[p]
  BY <1>1 DEF Goto, TypeOK
<1>3. /\ req'[q].op = req[q].op /\ req'[q].at = at /\ req'[q].rule = req[q].rule
      /\ req'[q].ver = req[q].ver /\ req'[q].read = req[q].read /\ req'[q].new = req[q].new
      /\ req'[q].target = req[q].target
  BY <1>1, <1>2 DEF Asked
<1>4. Knows(q)'
  BY <1>1, <1>3, KnowsStays
<1>5. Carries(q)'
  BY <1>1, <1>3 DEF Carries, In, Onward
<1>. QED
  BY <1>2, <1>4, <1>5, Step

(* A request that begins, or has just read the row it is about. *)
LEMMA Reads ==
    ASSUME IInv, TypeOK', NEW q \in Request, NEW r \in Lives, UNCHANGED <<rows, drafts>>,
           req'[q] \in Asked, \A p \in Request : p # q => req'[p] = req[p],
           req'[q].rule = r, req'[q].ver = rows[r].ver, req'[q].read = rows[r].content,
           Carries(q)'
    PROVE  IInv'
<1>1. Onward /\ RowsInv'
  BY Still
<1>2. r \in Rule /\ rows[r].ver \in Nat /\ drafts[r] # {}
  BY Living DEF IInv, RowsInv, Row
<1>3. Knows(q)'
  BY <1>2 DEF Knows, Lives
<1>. QED
  BY <1>1, <1>3, Step

LEMMA AskInv ==
    ASSUME IInv, TypeOK', NEW q \in Request, NEW r \in Lives, NEW op \in Op, NEW at \in At, NEW new \in Nat,
           ~(op = "copy" /\ at \in {"check", "insert"}), ~(op = "promote" /\ at = "update"),
           Ask(q, op, at, r, new), UNCHANGED <<rows, drafts>>
    PROVE  IInv'
<1>. DEFINE a == [new |-> new, rule |-> r, ver |-> rows[r].ver, op |-> op, at |-> at,
                   read |-> rows[r].content, target |-> NoRule]
<1>1. req'[q] = a /\ \A p \in Request : p # q => req'[p] = req[p]
  BY DEF Ask, Send, IInv, TypeOK
<1>2. a \in Asked
  BY Living DEF IInv, Row, Asked
<1>3. Carries(q)'
  BY <1>1 DEF Carries, In
<1>. QED
  BY <1>1, <1>2, <1>3, Reads

-----------------------------------------------------------------------------
(* The writing statements. *)
LEMMA WriteInv == ASSUME IInv, TypeOK', NEW r \in Lives, NEW c \in Nat, Write(r, c) PROVE Onward /\ RowsInv'
<1>1. TypeOK /\ RowsInv /\ r \in Rule /\ rows[r] \in Row
  BY Living DEF IInv
<1>2. /\ rows' = [rows EXCEPT ![r] = [rows[r] EXCEPT !.content = c, !.ver = @ + 1]]
      /\ drafts' = [x \in Rule |-> IF x \in {r, rows[r].base} THEN drafts[x] \cup {c} ELSE drafts[x]]
  BY <1>1 DEF Write, TypeOK
<1>3. \A x \in Rule : x # r => rows'[x] = rows[x]
  BY <1>1, <1>2 DEF TypeOK
<1>4. /\ rows'[r].content = c /\ rows'[r].ver = rows[r].ver + 1
      /\ rows'[r].pub = rows[r].pub /\ rows'[r].base = rows[r].base
  BY <1>1, <1>2 DEF TypeOK, Row
<1>5. Lives' = Lives
  <2>1. rows'[r] # NoRow
    <3>1. rows'[r] = [rows[r] EXCEPT !.content = c, !.ver = @ + 1]
      BY <1>1, <1>2 DEF TypeOK
    <3>2. [rows[r] EXCEPT !.content = c, !.ver = @ + 1] \in Row
      BY <1>1, RowStep
    <3>. QED
      BY <3>1, <3>2
  <2>. QED
    BY <1>3, <2>1 DEF Lives
<1>6. \A x \in Lives : rows[x].ver \in Nat /\ rows[x].base \in Rule \cup {NoRule}
  BY <1>1, Living DEF Row
<1>7. \A x \in Rule : drafts[x] \subseteq drafts'[x]
  BY <1>2
<1>8. Onward
  BY <1>3, <1>4, <1>5, <1>6, <1>7 DEF Onward, Lives
<1>9. RowsInv'
  <2>1. \A x \in Lives : rows'[x].content \in drafts'[x]
    <3>1. ASSUME NEW x \in Lives, x # r PROVE rows'[x].content \in drafts'[x]
      BY <1>1, <1>3, <1>7, <3>1 DEF RowsInv, Lives
    <3>2. c \in drafts'[r]
      BY <1>1, <1>2
    <3>. QED
      BY <1>4, <3>1, <3>2
  <2>2. \A x \in Lives : rows'[x].base # NoRule => rows'[x].content \in drafts'[rows'[x].base]
    <3>1. ASSUME NEW x \in Lives, x # r, rows[x].base # NoRule
          PROVE  rows'[x].content \in drafts'[rows'[x].base]
      BY <1>1, <1>3, <1>6, <1>7, <3>1 DEF RowsInv, Lives
    <3>2. rows[r].base # NoRule => rows'[r].content \in drafts'[rows'[r].base]
      BY <1>2, <1>4, <1>6
    <3>. QED
      BY <1>3, <1>4, <3>1, <3>2 DEF Lives
  <2>3. \A x \in Lives : rows'[x].pub # NoContent => rows'[x].pub \in drafts'[x]
    BY <1>1, <1>3, <1>4, <1>7 DEF RowsInv, PublishedComesFromDraft, Lives
  <2>. QED
    BY <1>5, <2>1, <2>2, <2>3 DEF RowsInv, PublishedComesFromDraft
<1>. QED
  BY <1>8, <1>9

LEMMA InsertInv ==
    ASSUME IInv, TypeOK', NEW row \in Row, Insert(row),
           row.pub = NoContent,
           row.base # NoRule => row.content \in drafts[row.base]
    PROVE  Onward /\ RowsInv'
<1>1. TypeOK /\ RowsInv
  BY DEF IInv
<1>2. PICK r \in Fresh : /\ rows' = [rows EXCEPT ![r] = row]
                         /\ drafts' = [drafts EXCEPT ![r] = {row.content}]
  BY DEF Insert
<1>3. r \in Rule /\ drafts[r] = {} /\ r \notin Lives
  BY <1>1, <1>2 DEF Fresh, RowsInv
<1>4. /\ rows'[r] = row /\ drafts'[r] = {row.content}
      /\ \A x \in Rule : x # r => rows'[x] = rows[x] /\ drafts'[x] = drafts[x]
  BY <1>1, <1>2, <1>3 DEF TypeOK
<1>5. Lives' = Lives \cup {r}
  BY <1>3, <1>4 DEF Lives
<1>6. \A x \in Lives : x \in Rule /\ x # r /\ rows[x].ver \in Nat /\ rows[x].base \in Rule \cup {NoRule}
  BY <1>1, <1>3, Living DEF Row
<1>7. Onward
  BY <1>3, <1>4, <1>5, <1>6 DEF Onward
<1>8. RowsInv'
  <2>1. \A x \in Lives' : rows'[x].content \in drafts'[x]
    BY <1>1, <1>4, <1>5, <1>6 DEF RowsInv
  <2>2. \A x \in Lives' : rows'[x].base # NoRule => rows'[x].content \in drafts'[rows'[x].base]
    <3>1. ASSUME NEW x \in Lives, rows[x].base # NoRule PROVE rows'[x].content \in drafts'[rows'[x].base]
      <4>1. rows[x].content \in drafts[rows[x].base] /\ rows[x].base \in Rule
        BY <1>1, <1>6, <3>1 DEF RowsInv
      <4>2. rows[x].base # r
        BY <1>3, <4>1
      <4>. QED
        BY <1>4, <1>6, <4>1, <4>2
    <3>2. ASSUME row.base # NoRule PROVE row.content \in drafts'[row.base]
      <4>1. row.base \in Rule /\ row.base # r
        BY <1>3, <3>2 DEF Row
      <4>. QED
        BY <1>4, <3>2, <4>1
    <3>. QED
      BY <1>4, <1>5, <1>6, <3>1, <3>2
  <2>3. \A x \in Lives' : rows'[x].pub # NoContent => rows'[x].pub \in drafts'[x]
    BY <1>1, <1>4, <1>5, <1>6 DEF RowsInv, PublishedComesFromDraft
  <2>. QED
    BY <2>1, <2>2, <2>3 DEF RowsInv, PublishedComesFromDraft
<1>. QED
  BY <1>7, <1>8

LEMMA PublishInv ==
    ASSUME IInv, TypeOK', NEW r \in Lives, UNCHANGED drafts,
           rows' = [rows EXCEPT ![r].pub = rows[r].content, ![r].ver = @ + 1]
    PROVE  Onward /\ RowsInv'
<1>1. TypeOK /\ RowsInv /\ r \in Rule /\ rows[r] \in Row
  BY Living DEF IInv
<1>2. rows' = [rows EXCEPT ![r] = [rows[r] EXCEPT !.pub = rows[r].content, !.ver = @ + 1]]
  BY <1>1 DEF TypeOK
<1>3. \A x \in Rule : x # r => rows'[x] = rows[x]
  BY <1>1, <1>2 DEF TypeOK
<1>4. /\ rows'[r].content = rows[r].content /\ rows'[r].ver = rows[r].ver + 1
      /\ rows'[r].pub = rows[r].content /\ rows'[r].base = rows[r].base
  BY <1>1, <1>2 DEF TypeOK, Row
<1>5. Lives' = Lives
  <2>1. rows[r].content \in Nat
    BY <1>1 DEF Row
  <2>2. rows'[r] # NoRow
    <3>1. rows'[r] = [rows[r] EXCEPT !.pub = rows[r].content, !.ver = @ + 1]
      BY <1>1, <1>2 DEF TypeOK
    <3>2. [rows[r] EXCEPT !.pub = rows[r].content, !.ver = @ + 1] \in Row
      BY <1>1, <2>1, RowStep
    <3>. QED
      BY <3>1, <3>2
  <2>. QED
    BY <1>3, <2>2 DEF Lives
<1>6. \A x \in Lives : x \in Rule /\ rows[x].ver \in Nat
  BY <1>1, Living DEF Row
<1>7. Onward
  <2>1. ASSUME NEW x \in Lives
        PROVE  /\ rows[x].ver <= rows'[x].ver
               /\ rows[x].ver = rows'[x].ver => rows[x].content = rows'[x].content
    <3>1. CASE x = r
      BY <1>4, <1>6, <3>1
    <3>2. CASE x # r
      <4>1. rows'[x] = rows[x] /\ rows[x].ver \in Nat
        BY <1>3, <1>6, <3>2
      <4>. QED
        BY <4>1
    <3>. QED
      BY <3>1, <3>2
  <2>. QED
    BY <1>5, <2>1 DEF Onward
<1>8. \A x \in Lives : rows'[x].content = rows[x].content /\ rows'[x].base = rows[x].base
  BY <1>3, <1>4, <1>6
<1>9. \A x \in Lives : rows'[x].pub # NoContent => rows'[x].pub \in drafts[x]
  BY <1>1, <1>3, <1>4, <1>6 DEF RowsInv, PublishedComesFromDraft
<1>. QED
  BY <1>1, <1>5, <1>7, <1>8, <1>9 DEF RowsInv, PublishedComesFromDraft

LEMMA PromoteInv ==
    ASSUME IInv, TypeOK', NEW b \in Lives, NEW c \in Nat, c \in drafts[b],
           rows' = [rows EXCEPT ![b].content = c, ![b].pub = c, ![b].ver = @ + 1],
           drafts' = [x \in Rule |-> IF x = rows[b].base THEN drafts[x] \cup {c} ELSE drafts[x]]
    PROVE  Onward /\ RowsInv'
<1>1. TypeOK /\ RowsInv /\ b \in Rule /\ rows[b] \in Row
  BY Living DEF IInv
<1>2. rows' = [rows EXCEPT ![b] = [rows[b] EXCEPT !.content = c, !.pub = c, !.ver = @ + 1]]
  BY <1>1 DEF TypeOK
<1>3. \A x \in Rule : x # b => rows'[x] = rows[x]
  BY <1>1, <1>2 DEF TypeOK
<1>4. /\ rows'[b].content = c /\ rows'[b].ver = rows[b].ver + 1
      /\ rows'[b].pub = c /\ rows'[b].base = rows[b].base
  BY <1>1, <1>2 DEF TypeOK, Row
<1>5. Lives' = Lives
  <2>1. rows'[b] # NoRow
    <3>1. rows'[b] = [rows[b] EXCEPT !.content = c, !.pub = c, !.ver = @ + 1]
      BY <1>1, <1>2 DEF TypeOK
    <3>2. [rows[b] EXCEPT !.content = c, !.pub = c, !.ver = @ + 1] \in Row
      BY <1>1, RowStep
    <3>. QED
      BY <3>1, <3>2
  <2>. QED
    BY <1>3, <2>1 DEF Lives
<1>6. \A x \in Lives : x \in Rule /\ rows[x].ver \in Nat /\ rows[x].base \in Rule \cup {NoRule}
  BY <1>1, Living DEF Row
<1>7. \A x \in Rule : drafts[x] \subseteq drafts'[x]
  OBVIOUS
<1>8. Onward
  <2>1. ASSUME NEW x \in Lives
        PROVE  /\ rows[x].ver <= rows'[x].ver
               /\ rows[x].ver = rows'[x].ver => rows[x].content = rows'[x].content
    <3>1. CASE x = b
      BY <1>4, <1>6, <3>1
    <3>2. CASE x # b
      <4>1. rows'[x] = rows[x] /\ rows[x].ver \in Nat
        BY <1>3, <1>6, <3>2
      <4>. QED
        BY <4>1
    <3>. QED
      BY <3>1, <3>2
  <2>. QED
    BY <1>5, <2>1, <1>7 DEF Onward
<1>9. RowsInv'
  <2>1. \A x \in Lives : rows'[x].content \in drafts'[x]
    <3>1. ASSUME NEW x \in Lives, x # b PROVE rows'[x].content \in drafts'[x]
      BY <1>1, <1>3, <1>6, <1>7, <3>1 DEF RowsInv
    <3>2. rows'[b].content \in drafts'[b]
      BY <1>1, <1>4, <1>7
    <3>. QED
      BY <3>1, <3>2
  <2>2. \A x \in Lives : rows'[x].base # NoRule => rows'[x].content \in drafts'[rows'[x].base]
    <3>1. ASSUME NEW x \in Lives, x # b, rows[x].base # NoRule
          PROVE  rows'[x].content \in drafts'[rows'[x].base]
      BY <1>1, <1>3, <1>6, <1>7, <3>1 DEF RowsInv
    <3>2. rows[b].base # NoRule => rows'[b].content \in drafts'[rows'[b].base]
      BY <1>4, <1>6
    <3>. QED
      BY <1>3, <1>4, <1>6, <3>1, <3>2
  <2>3. \A x \in Lives : rows'[x].pub # NoContent => rows'[x].pub \in drafts'[x]
    <3>1. ASSUME NEW x \in Lives, x # b, rows[x].pub # NoContent PROVE rows'[x].pub \in drafts'[x]
      BY <1>1, <1>3, <1>6, <1>7, <3>1 DEF RowsInv, PublishedComesFromDraft
    <3>2. rows'[b].pub \in drafts'[b]
      BY <1>1, <1>4, <1>7
    <3>. QED
      BY <1>3, <1>6, <3>1, <3>2
  <2>. QED
    BY <1>5, <2>1, <2>2, <2>3 DEF RowsInv, PublishedComesFromDraft
<1>. QED
  BY <1>8, <1>9

LEMMA ClearInv ==
    ASSUME IInv, TypeOK', NEW S \in SUBSET Lives, UNCHANGED drafts,
           rows' = [x \in Rule |-> IF x \in S THEN [rows[x] EXCEPT !.base = NoRule] ELSE rows[x]]
    PROVE  Onward /\ RowsInv'
<1>1. TypeOK /\ RowsInv
  BY DEF IInv
<1>2. \A x \in Lives : x \in Rule /\ rows[x] \in Row
  BY <1>1, Living
<1>3. \A x \in Lives : /\ rows'[x] \in Row /\ rows'[x].content = rows[x].content
                       /\ rows'[x].ver = rows[x].ver /\ rows'[x].pub = rows[x].pub
                       /\ rows'[x].base \in {rows[x].base, NoRule}
  BY <1>2 DEF Row
<1>4. Lives' = Lives
  <2>1. \A x \in Lives : rows'[x] # NoRow
    BY <1>3
  <2>. QED
    BY <1>2, <2>1 DEF Lives
<1>5. Onward
  <2>1. \A x \in Lives : rows[x].ver \in Nat
    BY <1>2 DEF Row
  <2>. QED
    BY <1>3, <1>4, <2>1 DEF Onward
<1>. QED
  BY <1>1, <1>3, <1>4, <1>5 DEF RowsInv, PublishedComesFromDraft

LEMMA RemoveInv ==
    ASSUME IInv, TypeOK', NEW r, UNCHANGED drafts, rows' = [rows EXCEPT ![r] = NoRow]
    PROVE  Onward /\ RowsInv'
<1>1. TypeOK /\ RowsInv
  BY DEF IInv
<1>2. \A x \in Lives' : x \in Lives /\ rows'[x] = rows[x]
  BY <1>1 DEF TypeOK, Lives
<1>3. \A x \in Lives : rows[x].ver \in Nat
  BY <1>1, Living DEF Row
<1>. QED
  BY <1>1, <1>2, <1>3 DEF Onward, RowsInv, PublishedComesFromDraft

-----------------------------------------------------------------------------
LEMMA ServeInv == ASSUME IInv, TypeOK', NEW q \in Request, Serve(q) PROVE IInv'
<1>1. CASE Refuse(q)
  BY <1>1, Refused
<1>2. ASSUME ServePut(q) \/ ServePatch(q), ~Refuse(q) PROVE IInv'
  <2>1. req[q] \in Asked
    BY <1>2, InFlight DEF ServePut, ServePatch, In, IInv
  <2>2. req[q].rule \in Lives /\ req[q].new \in Nat /\ Write(req[q].rule, req[q].new) /\ Done(q)
    BY <1>2, <2>1 DEF ServePut, ServePatch, Asked
  <2>. QED
    BY <2>2, WriteInv, Answered
<1>3. ASSUME PublishSelect(q), ~Refuse(q) PROVE IInv'
  <2>1. req[q] # NoRequest /\ req[q].op = "publish" /\ Goto(q, "update") /\ UNCHANGED <<rows, drafts>>
    BY <1>3 DEF PublishSelect, In
  <2>. QED
    BY <2>1, Still, GoesOn DEF At
<1>4. ASSUME PublishUpdate(q), ~Refuse(q) PROVE IInv'
  BY <1>4, PublishInv, Answered DEF PublishUpdate
<1>5. ASSUME CopySelect(q), ~Refuse(q) PROVE IInv'
  <2>. DEFINE r == req[q].rule
              new == IF rows[r].pub # NoContent THEN rows[r].pub ELSE rows[r].content
  <2>1. /\ req[q] \in Asked /\ r \in Lives /\ UNCHANGED <<rows, drafts>> /\ req[q].op = "copy"
        /\ req' = [req EXCEPT ![q].at = "check", ![q].ver = rows[r].ver, ![q].read = rows[r].content,
                              ![q].new = new]
    BY <1>5, InFlight DEF CopySelect, In, IInv
  <2>2. rows[r] \in Row /\ r \in Rule
    BY <2>1, Living DEF IInv
  <2>3. \A p \in Request : p # q => req'[p] = req[p]
    BY <2>1 DEF IInv, TypeOK
  <2>4. /\ req'[q].rule = r /\ req'[q].ver = rows[r].ver /\ req'[q].read = rows[r].content
        /\ req'[q].new = new /\ req'[q].op = "copy" /\ req'[q].at = "check"
    BY <2>1 DEF IInv, TypeOK, Asked
  <2>5. req'[q] \in Asked
    <3>1. req'[q] # NoRequest
      BY <2>4 DEF NoRequest
    <3>. QED
      BY <3>1 DEF TypeOK
  <2>6. new \in drafts[r]
    BY <2>1 DEF IInv, RowsInv, PublishedComesFromDraft
  <2>7. Carries(q)'
    BY <2>1, <2>2, <2>4, <2>6 DEF Carries, In
  <2>. HIDE DEF r, new
  <2>. QED
    BY <2>1, <2>3, <2>4, <2>5, <2>7, Reads
<1>6. ASSUME CopyCheck(q), ~Refuse(q) PROVE IInv'
  <2>1. In(q, "copy", "check") /\ Goto(q, "insert") /\ UNCHANGED <<rows, drafts>>
    BY <1>6 DEF CopyCheck
  <2>. QED
    BY <2>1, Still, GoesOn DEF At, In
<1>7. ASSUME CopyInsert(q), ~Refuse(q) PROVE IInv'
  <2>. DEFINE row == [content |-> req[q].new, pub |-> NoContent, ver |-> req[q].ver, base |-> req[q].rule]
  <2>1. req[q] \in Asked /\ req[q].rule \in Rule /\ req[q].new \in drafts[req[q].rule]
    BY <1>7, InFlight DEF CopyInsert, In, IInv, Carries
  <2>2. Insert(row) /\ Done(q)
    BY <1>7 DEF CopyInsert
  <2>3. row \in Row
    BY <2>1 DEF Row, Asked
  <2>4. row.pub = NoContent /\ row.base = req[q].rule /\ row.content = req[q].new
    OBVIOUS
  <2>. HIDE DEF row
  <2>. QED
    BY <2>1, <2>2, <2>3, <2>4, InsertInv, Answered
<1>8. ASSUME CreateInsert(q) PROVE IInv'
  <2>. DEFINE row == [content |-> req[q].new, pub |-> NoContent, ver |-> 1, base |-> NoRule]
  <2>1. req[q] \in Asked
    BY <1>8, InFlight DEF CreateInsert, In, IInv
  <2>2. Insert(row) /\ Done(q)
    BY <1>8 DEF CreateInsert
  <2>3. row \in Row
    BY <2>1 DEF Row, Asked
  <2>4. row.pub = NoContent /\ row.base = NoRule
    OBVIOUS
  <2>. HIDE DEF row
  <2>. QED
    BY <2>2, <2>3, <2>4, InsertInv, Answered
<1>9. ASSUME PromoteSelect(q), ~Refuse(q) PROVE IInv'
  <2>. DEFINE r == req[q].rule
  <2>1. /\ req[q] \in Asked /\ r \in Lives /\ rows[r].base # NoRule /\ UNCHANGED <<rows, drafts>>
        /\ req[q].op = "promote"
        /\ req' = [req EXCEPT ![q].at = "update", ![q].ver = rows[r].ver, ![q].read = rows[r].content,
                              ![q].new = rows[r].content, ![q].target = rows[r].base]
    BY <1>9, InFlight DEF PromoteSelect, In, IInv
  <2>2. rows[r] \in Row /\ rows[r].base \in Rule
    BY <2>1, Living DEF IInv, Row
  <2>3. \A p \in Request : p # q => req'[p] = req[p]
    BY <2>1 DEF IInv, TypeOK
  <2>4. /\ req'[q].rule = r /\ req'[q].ver = rows[r].ver /\ req'[q].read = rows[r].content
        /\ req'[q].new = rows[r].content /\ req'[q].target = rows[r].base
        /\ req'[q].op = "promote" /\ req'[q].at = "update"
    BY <2>1 DEF IInv, TypeOK, Asked
  <2>5. req'[q] \in Asked
    <3>1. req'[q] # NoRequest
      BY <2>4 DEF NoRequest
    <3>. QED
      BY <3>1 DEF TypeOK
  <2>6. rows[r].content \in drafts[rows[r].base]
    BY <2>1 DEF IInv, RowsInv
  <2>7. Carries(q)'
    BY <2>1, <2>2, <2>4, <2>6 DEF Carries, In
  <2>. HIDE DEF r
  <2>. QED
    BY <2>1, <2>3, <2>4, <2>5, <2>7, Reads
<1>10. ASSUME PromoteUpdate(q), ~Refuse(q) PROVE IInv'
  <2>. DEFINE b == req[q].target  c == req[q].new
  <2>1. /\ req[q] \in Asked /\ req[q] # NoRequest /\ c \in Nat /\ c \in drafts[b] /\ b \in Lives
    BY <1>10, InFlight DEF PromoteUpdate, In, IInv, Carries, Asked
  <2>2. /\ rows' = [rows EXCEPT ![b].content = c, ![b].pub = c, ![b].ver = @ + 1]
        /\ drafts' = [x \in Rule |-> IF x = rows[b].base THEN drafts[x] \cup {c} ELSE drafts[x]]
        /\ Goto(q, "remove")
    BY <1>10 DEF PromoteUpdate
  <2>3. Onward /\ RowsInv'
    <3>. HIDE DEF b, c
    <3>. QED
      BY <2>1, <2>2, PromoteInv
  <2>. QED
    BY <2>1, <2>2, <2>3, GoesOn DEF At
<1>11. ASSUME DeleteSelect(q), ~Refuse(q) PROVE IInv'
  <2>1. /\ req[q] # NoRequest /\ req[q].op = "delete" /\ UNCHANGED <<rows, drafts>>
        /\ Goto(q, "clear") \/ Goto(q, "remove")
    BY <1>11 DEF DeleteSelect, In
  <2>. QED
    BY <2>1, Still, GoesOn DEF At
<1>12. ASSUME DeleteClear(q) PROVE IInv'
  <2>1. Copies(req[q].rule) \in SUBSET Lives
    BY DEF Copies
  <2>2. Onward /\ RowsInv'
    BY <1>12, <2>1, ClearInv DEF DeleteClear
  <2>3. req[q] # NoRequest /\ req[q].op = "delete" /\ Goto(q, "remove")
    BY <1>12 DEF DeleteClear, In
  <2>. QED
    BY <2>2, <2>3, GoesOn DEF At
<1>13. ASSUME Remove(q) PROVE IInv'
  <2>1. Onward /\ RowsInv'
    BY <1>13, RemoveInv, Still DEF Remove
  <2>. QED
    BY <1>13, <2>1, Answered DEF Remove
<1>. QED
  BY <1>1, <1>2, <1>3, <1>4, <1>5, <1>6, <1>7, <1>8, <1>9, <1>10, <1>11, <1>12, <1>13 DEF Serve

LEMMA NextInv == IInv /\ [Next]_vars => IInv'
<1>. SUFFICES ASSUME IInv, [Next]_vars PROVE IInv'
  OBVIOUS
<1>1. TypeOK'
  BY NextTypes DEF IInv
<1>2. CASE UNCHANGED vars
  BY <1>2 DEF vars, IInv, TypeOK, RowsInv, PublishedComesFromDraft, Carries, Knows, In, Lives
<1>3. ASSUME NEW q \in Request, Create(q) PROVE IInv'
  <2>1. UNCHANGED <<rows, drafts>> /\ req'[q].op = "create" /\ req'[q].rule = NoRule
        /\ \A p \in Request : p # q => req'[p] = req[p]
    BY <1>3 DEF Create, Send, IInv, TypeOK
  <2>2. Carries(q)' /\ Knows(q)'
    BY <2>1 DEF Carries, Knows, In
  <2>. QED
    BY <1>1, <2>1, <2>2, Still, Step
<1>4. ASSUME NEW q \in Request, NEW r \in Lives, Save(q, r) PROVE IInv'
  <2>1. now' \in Nat
    BY <1>1 DEF TypeOK
  <2>. QED
    BY <1>1, <1>4, <2>1, AskInv DEF Save, Op, At
<1>5. ASSUME NEW q \in Request, NEW r \in Lives, Press(q, r) PROVE IInv'
  BY <1>1, <1>5, AskInv DEF Press, Op, At
<1>. QED
  BY <1>1, <1>2, <1>3, <1>4, <1>5, ServeInv DEF Next

LEMMA Inductive == Spec => []IInv
  BY InitInv, NextInv, PTL DEF Spec

(* What is published under a rule was its own draft or that of a working copy of it. *)
THEOREM PublishedDrafts == Spec => []PublishedComesFromDraft
<1>1. IInv => PublishedComesFromDraft
  BY DEF IInv, RowsInv
<1>. QED
  BY <1>1, Inductive, PTL

(* A version stands for the content that was read with it. *)
LEMMA ReadInv == IInv => ReadIsOfItsVersion
  BY NoRuleAssumption DEF IInv, Knows, ReadIsOfItsVersion, Lives

THEOREM ReadsHold == Spec => []ReadIsOfItsVersion
  BY ReadInv, Inductive, PTL

(* The conditional save of a part loses nothing. *)
THEOREM PatchSafe == Spec => PatchLosesNothing
<1>1. ASSUME IInv, [Next]_vars, NEW q \in Request,
             In(q, "patch", "update"), req'[q] = NoRequest, rows' # rows
      PROVE  rows[req[q].rule].content = req[q].read
  <2>1. ReadIsOfItsVersion /\ req[q] # NoRequest
    BY <1>1, ReadInv DEF In
  <2>2. ServePatch(q)
    <3>1. PICK p \in Request : \/ Create(p) \/ Serve(p) \/ \E r \in Lives : Save(p, r) \/ Press(p, r)
      BY <1>1 DEF Next, vars
    <3>2. Serve(p)
      BY <1>1, <3>1 DEF Create, Save, Press
    <3>3. p = q
      BY <1>1, <2>1, <3>2 DEF IInv, TypeOK, Serve, ServePut, ServePatch, PublishSelect, PublishUpdate,
           CopySelect, CopyCheck, CopyInsert, CreateInsert, PromoteSelect, PromoteUpdate,
           DeleteSelect, DeleteClear, Remove, Refuse, Done, Goto
    <3>. QED
      BY <1>1, <3>2, <3>3 DEF In, Serve, ServePut, ServePatch, PublishSelect, PublishUpdate,
           CopySelect, CopyCheck, CopyInsert, CreateInsert, PromoteSelect, PromoteUpdate,
           DeleteSelect, DeleteClear, Remove
  <2>3. req[q].rule \in Lives /\ rows[req[q].rule].ver = req[q].ver
    BY <1>1, <2>2 DEF ServePatch, Refuse
  <2>. QED
    BY <2>1, <2>3 DEF ReadIsOfItsVersion
<1>2. IInv /\ [Next]_vars
        => [\A q \in Request :
               In(q, "patch", "update") /\ req'[q] = NoRequest /\ rows' # rows
                   => rows[req[q].rule].content = req[q].read]_vars
  BY <1>1
<1>. QED
  BY <1>2, Inductive, PTL DEF Spec, PatchLosesNothing
=============================================================================
