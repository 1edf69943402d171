------------------------- MODULE AuditResultsProofs -------------------------
(***************************************************************************)
(* Proofs about AuditResults, for every history of a rule file and every   *)
(* number of presses: types, that statuses follow the marks, that no       *)
(* result is left without its requirement, and that an assessment that is  *)
(* not marked for review was made of the requirement as it reads now.      *)
(***************************************************************************)
EXTENDS AuditResults, FiniteSetTheorems, WellFoundedInduction, TLAPS

Mark == {"not_audited", "passed", "failed"}

IsEntry(e) ==
    /\ e = [overall |-> e.overall, status |-> e.status, pcs |-> e.pcs]
    /\ e.overall \in {"not_audited", "passed", "not_applicable"}
    /\ e.status \in Status
    /\ e.pcs \in [DOMAIN e.pcs -> Mark]

IsChecks(m) == m = [d \in DOMAIN m |-> m[d]] /\ \A d \in DOMAIN m : IsEntry(m[d])

(* What an assessment can have been judged on. *)
Readings == Requirements \cup {Unread}

IsResult(x) ==
    /\ x = [checks |-> x.checks, status |-> x.status, review |-> x.review, on |-> x.on]
    /\ IsChecks(x.checks)
    /\ x.status \in Status /\ x.review \in BOOLEAN /\ x.on \in Readings

(* x is a result of requirement k of version f, settled and as somebody judged it. *)
Follows(f, k, x) == x.status = ReqStatus(Req(f, k), x)
Good(f, k, x)    == IsResult(x) /\ Follows(f, k, x) /\ x.on = Req(f, k)

AllKeys == UNION {Keys(f) : f \in DOMAIN File}

Shape ==
    /\ at \in DOMAIN File
    /\ acts \in 0..MaxActs
    /\ \A k \in DOMAIN res : k \in AllKeys /\ IsResult(res[k])

(* A report compares two versions; a waiting confirmation carries a result
   that was judged as it read at the click. *)
ReportOk == report = NoReport \/ \E f, n \in DOMAIN File : f < n /\ report = Report(f, n)

ClickOk ==
    \/ click = NoClick
    \/ \E f \in DOMAIN File : \E k \in Keys(f) : \E x :
          /\ click = [key |-> k, of |-> f, result |-> x]
          /\ IsResult(x) /\ x.on = Req(f, k)

Results == Shape /\ StatusFollowsMarks /\ ResultsHaveRequirements /\ JudgedAsItReads
Inv     == Results /\ ReportOk /\ ClickOk

LEMMA Requirement ==
    ASSUME NEW f \in DOMAIN File, NEW k \in Keys(f)
    PROVE  \E i \in DOMAIN File[f] :
             /\ Req(f, k) = File[f][i] /\ File[f][i].key = k
             /\ \A j \in DOMAIN File[f] : File[f][j].key = k => j = i
<1>1. PICK j \in DOMAIN File[f] : File[f][j].key = k
  BY DEF Keys
<1> DEFINE i == CHOOSE l \in DOMAIN File[f] : File[f][l].key = k
<1>2. i \in DOMAIN File[f] /\ File[f][i].key = k
  BY <1>1
<1>3. Req(f, k) = File[f][i]
  BY DEF Req
<1>4. \A l \in DOMAIN File[f] : File[f][l].key = k => l = i
  BY <1>2, FileAssumption
<1> HIDE DEF i
<1>. QED
  BY <1>2, <1>3, <1>4

LEMMA Definition ==
    ASSUME NEW s, NEW d \in Ids(s)
    PROVE  \E i \in DOMAIN s : Def(s, d) = s[i] /\ s[i].id = d
  BY DEF Ids, Def

LEMMA RequirementType ==
    ASSUME NEW f \in DOMAIN File, NEW k \in Keys(f)
    PROVE  Req(f, k) \in Requirements /\ Req(f, k) \in Readings
<1>1. PICK i \in DOMAIN File[f] : Req(f, k) = File[f][i]
  BY Requirement
<1>2. Req(f, k) \in ToSet(File[f])
  BY <1>1 DEF ToSet
<1>. QED
  BY <1>2 DEF Requirements, Readings

LEMMA KeyType ==
    ASSUME NEW f \in DOMAIN File, NEW k \in Keys(f)
    PROVE  k \in AllKeys
  BY DEF AllKeys

LEMMA FileIsSeq ==
    /\ 1 \in DOMAIN File
    /\ \A f \in DOMAIN File : f \in Nat /\ DOMAIN File[f] \subseteq Nat
<1>1. File \in Seq(ToSet(File)) /\ File # <<>>
  BY FileShape DEF IsSeq
<1>2. Len(File) \in Nat /\ DOMAIN File = 1..Len(File) /\ Len(File) # 0
  BY <1>1
<1>3. ASSUME NEW f \in DOMAIN File
      PROVE  DOMAIN File[f] \subseteq Nat
  <2>1. File[f] \in Seq(ToSet(File[f]))
    BY FileShape DEF IsSeq
  <2>2. Len(File[f]) \in Nat /\ DOMAIN File[f] = 1..Len(File[f])
    BY <2>1
  <2>. QED
    BY <2>2
<1>. QED
  BY <1>2, <1>3

(* What is known of the checks of a requirement. *)
LEMMA ChecksAreSeq ==
    ASSUME NEW f \in DOMAIN File, NEW k \in Keys(f)
    PROVE  LET r == Req(f, k) IN
           /\ DOMAIN r.checks \subseteq Nat
           /\ r.checks # <<>> => 1 \in DOMAIN r.checks
           /\ IdsDiffer(r.checks)
           /\ \A d \in Ids(r.checks) : DOMAIN Def(r.checks, d).pcs \subseteq Nat
                                       /\ IdsDiffer(Def(r.checks, d).pcs)
<1> DEFINE r == Req(f, k)
<1>1. r \in ToSet(File[f])
  BY Requirement DEF ToSet
<1>2. /\ r.checks \in Seq(ToSet(r.checks)) /\ IdsDiffer(r.checks)
      /\ \A c \in ToSet(r.checks) : c.pcs \in Seq(ToSet(c.pcs)) /\ IdsDiffer(c.pcs)
  BY <1>1, FileShape DEF IsSeq
<1> HIDE DEF r
<1>3. DOMAIN r.checks = 1..Len(r.checks) /\ Len(r.checks) \in Nat
      /\ (r.checks # <<>> => Len(r.checks) # 0)
  BY <1>2
<1>4. ASSUME NEW d \in Ids(r.checks)
      PROVE  /\ DOMAIN Def(r.checks, d).pcs \subseteq Nat
             /\ IdsDiffer(Def(r.checks, d).pcs)
  <2> DEFINE c == Def(r.checks, d)
  <2>1. c \in ToSet(r.checks)
    BY <1>4, Definition DEF ToSet
  <2>2. c.pcs \in Seq(ToSet(c.pcs)) /\ IdsDiffer(c.pcs)
    BY <2>1, <1>2
  <2> HIDE DEF c
  <2>3. DOMAIN c.pcs = 1..Len(c.pcs) /\ Len(c.pcs) \in Nat
    BY <2>2
  <2>. QED
    BY <2>2, <2>3 DEF c
<1>. QED
  BY <1>2, <1>3, <1>4 DEF r

-----------------------------------------------------------------------------
(* Statuses. *)

LEMMA AggregateType == ASSUME NEW S PROVE Aggregate(S) \in Status
  BY DEF Aggregate, Status

LEMMA CheckStatusType == ASSUME NEW check, NEW c PROVE CheckStatus(check, c) \in Status
<1>1. \A S : Aggregate(S) \in Status
  BY AggregateType
<1>2. {"passed", "not_audited", "partially_audited"} \subseteq Status
  BY DEF Status
<1>. QED
  BY <1>1, <1>2 DEF CheckStatus

LEMMA ReqStatusType == ASSUME NEW r, NEW x, x.status \in Status PROVE ReqStatus(r, x) \in Status
<1>1. \A S : Aggregate(S) \in Status
  BY AggregateType
<1>. QED
  BY <1>1 DEF ReqStatus

(* A status follows from the checks, and from nothing else if there are any. *)
LEMMA StatusReads ==
    ASSUME NEW r, NEW x, NEW y, x.checks = y.checks, x.status = y.status
    PROVE  ReqStatus(r, x) = ReqStatus(r, y)
  BY DEF ReqStatus

LEMMA StatusSettles ==
    ASSUME NEW r, NEW x, NEW y, y.checks = x.checks, y.status = ReqStatus(r, x)
    PROVE  ReqStatus(r, y) = y.status
<1>1. CASE r.checks = <<>>
  BY <1>1 DEF ReqStatus
<1>2. CASE r.checks # <<>>
  BY <1>2 DEF ReqStatus
<1>. QED
  BY <1>1, <1>2

LEMMA EntryFields ==
    ASSUME NEW e, IsEntry(e)
    PROVE  /\ \A s \in Status : LET z == [e EXCEPT !.status = s] IN
                IsEntry(z) /\ z.status = s /\ z.overall = e.overall /\ z.pcs = e.pcs
           /\ \A v \in {"not_audited", "passed", "not_applicable"} : LET z == [e EXCEPT !.overall = v] IN
                IsEntry(z) /\ z.overall = v /\ z.status = e.status /\ z.pcs = e.pcs
           /\ \A m : m \in [DOMAIN m -> Mark] => LET z == [e EXCEPT !.pcs = m] IN
                IsEntry(z) /\ z.pcs = m /\ z.overall = e.overall /\ z.status = e.status
<1> DEFINE E(o, s, m) == [overall |-> o, status |-> s, pcs |-> m]
<1>1. e = E(e.overall, e.status, e.pcs)
  BY DEF IsEntry
<1>2. \A s : [e EXCEPT !.status = s] = E(e.overall, s, e.pcs)
  BY <1>1
<1>3. \A v : [e EXCEPT !.overall = v] = E(v, e.status, e.pcs)
  BY <1>1
<1>4. \A m : [e EXCEPT !.pcs = m] = E(e.overall, e.status, m)
  BY <1>1
<1>5. \A o, s, m : /\ E(o, s, m).overall = o /\ E(o, s, m).status = s /\ E(o, s, m).pcs = m
                   /\ E(o, s, m) = E(E(o, s, m).overall, E(o, s, m).status, E(o, s, m).pcs)
  OBVIOUS
<1>6. /\ e.overall \in {"not_audited", "passed", "not_applicable"}
      /\ e.status \in Status /\ e.pcs \in [DOMAIN e.pcs -> Mark]
  BY DEF IsEntry
<1> HIDE DEF E
<1>7. \A o \in {"not_audited", "passed", "not_applicable"}, s \in Status : \A m :
         m \in [DOMAIN m -> Mark] => IsEntry(E(o, s, m))
  <2> SUFFICES ASSUME NEW o \in {"not_audited", "passed", "not_applicable"}, NEW s \in Status,
                      NEW m, m \in [DOMAIN m -> Mark]
               PROVE  IsEntry(E(o, s, m))
    OBVIOUS
  <2>2. E(o, s, m) = [overall |-> E(o, s, m).overall, status |-> E(o, s, m).status, pcs |-> E(o, s, m).pcs]
    BY DEF E
  <2>. QED
    BY <2>2, <1>5 DEF IsEntry
<1>8. \A s \in Status : LET z == [e EXCEPT !.status = s] IN
         IsEntry(z) /\ z.status = s /\ z.overall = e.overall /\ z.pcs = e.pcs
  BY <1>2, <1>5, <1>6, <1>7
<1>9. \A v \in {"not_audited", "passed", "not_applicable"} : LET z == [e EXCEPT !.overall = v] IN
         IsEntry(z) /\ z.overall = v /\ z.status = e.status /\ z.pcs = e.pcs
  BY <1>3, <1>5, <1>6, <1>7
<1>10. \A m : m \in [DOMAIN m -> Mark] => LET z == [e EXCEPT !.pcs = m] IN
          IsEntry(z) /\ z.pcs = m /\ z.overall = e.overall /\ z.status = e.status
  BY <1>4, <1>5, <1>6, <1>7
<1>. QED
  BY <1>8, <1>9, <1>10

LEMMA PcsChanged ==
    ASSUME NEW e, IsEntry(e), NEW m, m \in [DOMAIN m -> Mark]
    PROVE  LET z == [e EXCEPT !.pcs = m] IN
           IsEntry(z) /\ z.pcs = m /\ z.overall = e.overall /\ z.status = e.status
<1> DEFINE z == [e EXCEPT !.pcs = m]
<1>1. z = [overall |-> e.overall, status |-> e.status, pcs |-> m]
  BY DEF IsEntry
<1>2. z.pcs = m /\ z.overall = e.overall /\ z.status = e.status
  BY <1>1
<1>3. z = [overall |-> z.overall, status |-> z.status, pcs |-> z.pcs]
  BY <1>1, <1>2
<1>4. /\ e.overall \in {"not_audited", "passed", "not_applicable"}
      /\ e.status \in Status
  BY DEF IsEntry
<1> HIDE DEF z
<1>5. IsEntry(z)
  BY <1>2, <1>3, <1>4 DEF IsEntry
<1>. QED
  BY <1>2, <1>5 DEF z

LEMMA ResultFields ==
    ASSUME NEW x, IsResult(x)
    PROVE  /\ \A m : LET z == [x EXCEPT !.checks = m] IN
                /\ IsChecks(m) => IsResult(z)
                /\ z.checks = m /\ z.status = x.status /\ z.review = x.review /\ z.on = x.on
           /\ \A s : LET z == [x EXCEPT !.status = s] IN
                /\ s \in Status => IsResult(z)
                /\ z.checks = x.checks /\ z.status = s /\ z.review = x.review /\ z.on = x.on
           /\ \A b : LET z == [x EXCEPT !.review = b] IN
                /\ b \in BOOLEAN => IsResult(z)
                /\ z.checks = x.checks /\ z.status = x.status /\ z.review = b /\ z.on = x.on
           /\ \A b : LET z == [x EXCEPT !.on = b] IN
                /\ b \in Readings => IsResult(z)
                /\ z.checks = x.checks /\ z.status = x.status /\ z.review = x.review /\ z.on = b
<1> DEFINE R(m, s, b, o) == [checks |-> m, status |-> s, review |-> b, on |-> o]
<1>1. x = R(x.checks, x.status, x.review, x.on)
  BY DEF IsResult
<1>2. \A m : [x EXCEPT !.checks = m] = R(m, x.status, x.review, x.on)
  BY <1>1
<1>3. \A s : [x EXCEPT !.status = s] = R(x.checks, s, x.review, x.on)
  BY <1>1
<1>4. \A b : [x EXCEPT !.review = b] = R(x.checks, x.status, b, x.on)
  BY <1>1
<1>5. \A o : [x EXCEPT !.on = o] = R(x.checks, x.status, x.review, o)
  BY <1>1
<1>6. \A m, s, b, o : /\ R(m, s, b, o).checks = m /\ R(m, s, b, o).status = s
                      /\ R(m, s, b, o).review = b /\ R(m, s, b, o).on = o
  OBVIOUS
<1>7. /\ IsChecks(x.checks) /\ x.status \in Status /\ x.review \in BOOLEAN /\ x.on \in Readings
  BY DEF IsResult
<1>8. \A m, s, b, o : IsChecks(m) /\ s \in Status /\ b \in BOOLEAN /\ o \in Readings => IsResult(R(m, s, b, o))
  BY <1>6 DEF IsResult
<1> HIDE DEF R
<1>9. \A m : LET z == [x EXCEPT !.checks = m] IN
                /\ IsChecks(m) => IsResult(z)
                /\ z.checks = m /\ z.status = x.status /\ z.review = x.review /\ z.on = x.on
  BY <1>2, <1>6, <1>7, <1>8
<1>10. \A s : LET z == [x EXCEPT !.status = s] IN
                /\ s \in Status => IsResult(z)
                /\ z.checks = x.checks /\ z.status = s /\ z.review = x.review /\ z.on = x.on
  BY <1>3, <1>6, <1>7, <1>8
<1>11. \A b : LET z == [x EXCEPT !.review = b] IN
                /\ b \in BOOLEAN => IsResult(z)
                /\ z.checks = x.checks /\ z.status = x.status /\ z.review = b /\ z.on = x.on
  BY <1>4, <1>6, <1>7, <1>8
<1>12. \A b : LET z == [x EXCEPT !.on = b] IN
                /\ b \in Readings => IsResult(z)
                /\ z.checks = x.checks /\ z.status = x.status /\ z.review = x.review /\ z.on = b
  BY <1>5, <1>6, <1>7, <1>8
<1>. QED
  BY <1>9, <1>10, <1>11, <1>12

LEMMA SettledFacts ==
    ASSUME NEW r, NEW x, IsResult(x)
    PROVE  LET y == Settled(r, x) IN
           /\ IsResult(y) /\ y.status = ReqStatus(r, y)
           /\ y.review = x.review /\ y.on = x.on
           /\ r.checks = <<>> => y.status = x.status
           /\ DOMAIN y.checks = DOMAIN x.checks
           /\ \A d \in DOMAIN x.checks : /\ y.checks[d].overall = x.checks[d].overall
                                         /\ y.checks[d].pcs = x.checks[d].pcs
<1> DEFINE entry(d) == IF d \in Ids(r.checks)
                       THEN [x.checks[d] EXCEPT !.status = CheckStatus(Def(r.checks, d), x.checks[d])]
                       ELSE x.checks[d]
           m == [d \in DOMAIN x.checks |-> entry(d)]
           y == [x EXCEPT !.checks = m]
           z == [y EXCEPT !.status = ReqStatus(r, y)]
<1>1. Settled(r, x) = z
  BY DEF Settled
<1>2. ASSUME NEW d \in DOMAIN x.checks
      PROVE  IsEntry(entry(d)) /\ entry(d).overall = x.checks[d].overall /\ entry(d).pcs = x.checks[d].pcs
  <2>1. IsEntry(x.checks[d])
    BY DEF IsResult, IsChecks
  <2>2. CheckStatus(Def(r.checks, d), x.checks[d]) \in Status
    BY CheckStatusType
  <2> DEFINE e == x.checks[d]
             s == CheckStatus(Def(r.checks, d), x.checks[d])
  <2>3. CASE d \in Ids(r.checks)
    <3>1. entry(d) = [e EXCEPT !.status = s]
      BY <2>3
    <3>2. IsEntry(e) /\ s \in Status
      BY <2>1, <2>2
    <3> HIDE DEF e, s
    <3> DEFINE w == [e EXCEPT !.status = s]
    <3>3. IsEntry(w) /\ w.overall = e.overall /\ w.pcs = e.pcs
      BY <3>2, EntryFields
    <3> HIDE DEF w
    <3>4. entry(d) = w
      BY <3>1 DEF w
    <3> HIDE DEF entry
    <3>5. IsEntry(entry(d)) /\ entry(d).overall = e.overall /\ entry(d).pcs = e.pcs
      BY <3>3, <3>4
    <3>. QED
      BY <3>5 DEF e
  <2>4. CASE d \notin Ids(r.checks)
    BY <2>1, <2>4
  <2>. QED
    BY <2>3, <2>4
<1> HIDE DEF entry
<1>3. DOMAIN m = DOMAIN x.checks /\ \A d \in DOMAIN m : m[d] = entry(d)
  OBVIOUS
<1>4. IsChecks(m)
  <2>1. m = [d \in DOMAIN m |-> m[d]]
    OBVIOUS
  <2>. QED
    BY <1>2, <1>3, <2>1 DEF IsChecks
<1> HIDE DEF m
<1>5. IsResult(y) /\ y.checks = m /\ y.status = x.status /\ y.review = x.review /\ y.on = x.on
  BY <1>4, ResultFields
<1>9. r.checks = <<>> => ReqStatus(r, y) = x.status
  BY <1>5 DEF ReqStatus
<1>6. ReqStatus(r, y) \in Status
  BY <1>5, ReqStatusType DEF IsResult
<1> HIDE DEF y
<1>7. IsResult(z) /\ z.checks = m /\ z.status = ReqStatus(r, y) /\ z.review = x.review /\ z.on = x.on
  BY <1>5, <1>6, ResultFields
<1> HIDE DEF z
<1>8. z.status = ReqStatus(r, z)
  BY <1>5, <1>7, StatusSettles
<1>. QED
  BY <1>1, <1>2, <1>3, <1>7, <1>8, <1>9

-----------------------------------------------------------------------------
(* The requirement view. *)

LEMMA StatusOfType ==
    ASSUME NEW m, m \in [DOMAIN m -> Mark], NEW d
    PROVE  StatusOf(m, d) \in Mark
  BY DEF StatusOf, Mark

LEMMA FreshEntry ==
    /\ Empty \in [DOMAIN Empty -> Mark]
    /\ IsEntry([overall |-> "not_audited", status |-> "not_audited", pcs |-> Empty])
<1>1. Empty \in [DOMAIN Empty -> Mark]
  BY DEF Empty, Mark
<1>. QED
  BY <1>1 DEF IsEntry, Status

LEMMA BlankType == IsResult(Blank)
<1>1. IsChecks(Empty)
  BY DEF IsChecks, Empty
<1>2. /\ Blank.checks = Empty /\ Blank.status = "not_audited" /\ Blank.review = FALSE /\ Blank.on = Unread
      /\ Blank = [checks |-> Empty, status |-> "not_audited", review |-> FALSE, on |-> Unread]
  BY DEF Blank
<1>4. Unread \in Readings
  BY DEF Readings
<1>. QED
  BY <1>1, <1>2, <1>4 DEF IsResult, Status

LEMMA StoredType ==
    ASSUME NEW k, \A j \in DOMAIN res : IsResult(res[j])
    PROVE  IsResult(Stored(k))
  BY BlankType DEF Stored

LEMMA OpenedFacts ==
    ASSUME NEW k, \A j \in DOMAIN res : IsResult(res[j])
    PROVE  LET r == Req(at, k)
               y == Opened(k)
           IN  /\ IsResult(y)
               /\ Ids(r.checks) \subseteq DOMAIN y.checks
               /\ \A d \in Ids(r.checks) : Ids(Def(r.checks, d).pcs) \subseteq DOMAIN y.checks[d].pcs
<1> DEFINE r == Req(at, k)
           x == Stored(k)
           fresh == [overall |-> "not_audited", status |-> "not_audited", pcs |-> Empty]
           entry(d) == IF d \in DOMAIN x.checks THEN x.checks[d] ELSE fresh
           pids(d) == Ids(Def(r.checks, d).pcs)
           pcs(d) == [p \in DOMAIN entry(d).pcs \cup pids(d) |-> StatusOf(entry(d).pcs, p)]
           all(d) == IF d \in Ids(r.checks) THEN [entry(d) EXCEPT !.pcs = pcs(d)] ELSE entry(d)
           D == DOMAIN x.checks \cup Ids(r.checks)
           m == [d \in D |-> all(d)]
           z == [x EXCEPT !.checks = m]
<1>1. Opened(k) = Settled(r, z)
  BY DEF Opened
<1>2. IsResult(x)
  BY StoredType
<1>3. \A d : IsEntry(entry(d))
  BY <1>2, FreshEntry DEF IsResult, IsChecks
<1> HIDE DEF x, entry, pids
<1>4. \A d : IsEntry(all(d)) /\ (d \in Ids(r.checks) => pids(d) \subseteq DOMAIN all(d).pcs)
  <2> SUFFICES ASSUME NEW d
               PROVE  IsEntry(all(d)) /\ (d \in Ids(r.checks) => pids(d) \subseteq DOMAIN all(d).pcs)
    OBVIOUS
  <2>1. CASE d \notin Ids(r.checks)
    BY <1>3, <2>1
  <2>2. CASE d \in Ids(r.checks)
    <3> DEFINE e == entry(d)
               q == pcs(d)
               y == [e EXCEPT !.pcs = q]
    <3>1. IsEntry(e) /\ e.pcs \in [DOMAIN e.pcs -> Mark]
      BY <1>3 DEF IsEntry
    <3>2. \A p : StatusOf(e.pcs, p) \in Mark
      BY <3>1, StatusOfType
    <3>3. q \in [DOMAIN q -> Mark] /\ DOMAIN q = DOMAIN e.pcs \cup pids(d)
      BY <3>2
    <3>4. all(d) = y
      BY <2>2
    <3> HIDE DEF e, q
    <3>5. IsEntry(y) /\ y.pcs = q
      BY <3>1, <3>3, PcsChanged
    <3> HIDE DEF y
    <3>6. pids(d) \subseteq DOMAIN q
      BY <3>3
    <3> HIDE DEF all
    <3>. QED
      BY <3>4, <3>5, <3>6
  <2>. QED
    BY <2>1, <2>2
<1> HIDE DEF all
<1>5. IsChecks(m) /\ DOMAIN m = D /\ \A d \in D : m[d] = all(d)
  <2>1. DOMAIN m = D /\ (\A d \in D : m[d] = all(d)) /\ m = [d \in DOMAIN m |-> m[d]]
    OBVIOUS
  <2> HIDE DEF m
  <2>2. IsChecks(m)
    BY <1>4, <2>1 DEF IsChecks
  <2>. QED
    BY <2>1, <2>2
<1> HIDE DEF m
<1>6. IsResult(z) /\ z.checks = m
  BY <1>2, <1>5, ResultFields
<1> HIDE DEF z
<1> DEFINE y == Settled(r, z)
<1>7. /\ IsResult(y) /\ DOMAIN y.checks = DOMAIN m
      /\ \A d \in DOMAIN m : y.checks[d].pcs = m[d].pcs
  BY <1>6, SettledFacts
<1> HIDE DEF y
<1>8. Opened(k) = y
  BY <1>1 DEF y
<1>9. Ids(r.checks) \subseteq DOMAIN y.checks
  BY <1>5, <1>7
<1>10. \A d \in Ids(r.checks) : pids(d) \subseteq DOMAIN y.checks[d].pcs
  BY <1>4, <1>5, <1>7
<1>. QED
  BY <1>7, <1>8, <1>9, <1>10 DEF pids

LEMMA ChangedCheck ==
    ASSUME NEW x, IsResult(x), NEW c \in DOMAIN x.checks, NEW e, IsEntry(e)
    PROVE  IsResult([x EXCEPT !.checks = [x.checks EXCEPT ![c] = e]])
<1> DEFINE m == [x.checks EXCEPT ![c] = e]
<1>1. IsChecks(x.checks)
  BY DEF IsResult
<1>2. IsChecks(m)
  BY <1>1 DEF IsChecks
<1> HIDE DEF m
<1> DEFINE z == [x EXCEPT !.checks = m]
<1>3. IsResult(z)
  BY <1>2, ResultFields
<1>. QED
  BY <1>3 DEF m

LEMMA PressedType ==
    ASSUME NEW x, IsResult(x), NEW c \in DOMAIN x.checks
    PROVE  /\ \A v \in {"passed", "not_applicable"} :
                IsResult([x EXCEPT !.checks[c].overall = Toggle(@, v)])
           /\ \A v \in {"passed", "failed"} : \A p \in DOMAIN x.checks[c].pcs :
                IsResult([x EXCEPT !.checks[c].pcs[p] = Toggle(@, v)])
<1> DEFINE e == x.checks[c]
<1>1. IsEntry(e) /\ e.pcs \in [DOMAIN e.pcs -> Mark]
  BY DEF IsResult, IsChecks, IsEntry
<1>2. ASSUME NEW v \in {"passed", "not_applicable"}
      PROVE  IsResult([x EXCEPT !.checks[c].overall = Toggle(@, v)])
  <2> DEFINE t == Toggle(e.overall, v)
             f == [e EXCEPT !.overall = t]
             y == [x EXCEPT !.checks = [x.checks EXCEPT ![c] = f]]
  <2>1. t \in {"not_audited", "passed", "not_applicable"}
    BY DEF Toggle
  <2>2. [x EXCEPT !.checks[c].overall = Toggle(@, v)] = y
    OBVIOUS
  <2> HIDE DEF t, e
  <2>3. IsEntry(f)
    BY <1>1, <2>1, EntryFields
  <2> HIDE DEF f
  <2>4. IsResult(y)
    BY <2>3, ChangedCheck
  <2>. QED
    BY <2>2, <2>4
<1>3. ASSUME NEW v \in {"passed", "failed"}, NEW p \in DOMAIN e.pcs
      PROVE  IsResult([x EXCEPT !.checks[c].pcs[p] = Toggle(@, v)])
  <2> DEFINE t == Toggle(e.pcs[p], v)
             q == [e.pcs EXCEPT ![p] = t]
             f == [e EXCEPT !.pcs = q]
             y == [x EXCEPT !.checks = [x.checks EXCEPT ![c] = f]]
  <2>1. t \in Mark
    BY DEF Toggle, Mark
  <2>2. [x EXCEPT !.checks[c].pcs[p] = Toggle(@, v)] = y
    OBVIOUS
  <2> HIDE DEF t, e
  <2>3. q \in [DOMAIN q -> Mark]
    BY <1>1, <2>1
  <2> HIDE DEF q
  <2>4. IsEntry(f)
    BY <1>1, <2>3, EntryFields
  <2> HIDE DEF f
  <2>5. IsResult(y)
    BY <2>4, ChangedCheck
  <2>. QED
    BY <2>2, <2>5
<1>. QED
  BY <1>2, <1>3

(* A result that has been settled, marked as read and freed from its mark. *)
LEMMA SettledIsGood ==
    ASSUME NEW f \in DOMAIN File, NEW k \in Keys(f), NEW x, IsResult(x), Follows(f, k, x)
    PROVE  LET y == [x EXCEPT !.review = FALSE, !.on = Req(f, k)] IN Good(f, k, y)
<1> DEFINE b == Req(f, k)
           y == [x EXCEPT !.review = FALSE]
           z == [y EXCEPT !.on = b]
<1>1. b \in Readings
  BY RequirementType
<1>2. [x EXCEPT !.review = FALSE, !.on = b] = z
  OBVIOUS
<1> HIDE DEF b
<1>3. IsResult(y) /\ y.checks = x.checks /\ y.status = x.status
  <2> DEFINE v == FALSE
  <2>1. v \in BOOLEAN
    OBVIOUS
  <2> HIDE DEF v
  <2>2. LET u == [x EXCEPT !.review = v] IN
        IsResult(u) /\ u.checks = x.checks /\ u.status = x.status
    BY <2>1, ResultFields
  <2>. QED
    BY <2>2 DEF v
<1> HIDE DEF y
<1>4. IsResult(z) /\ z.checks = y.checks /\ z.status = y.status /\ z.on = b
  BY <1>1, <1>3, ResultFields
<1> HIDE DEF z
<1>5. ReqStatus(Req(f, k), z) = ReqStatus(Req(f, k), x)
  BY <1>3, <1>4, StatusReads
<1>6. Good(f, k, z)
  BY <1>3, <1>4, <1>5 DEF Good, Follows, b
<1>. QED
  BY <1>2, <1>6 DEF b

LEMMA JudgedIsGood ==
    ASSUME at \in DOMAIN File, NEW k \in Keys(at), NEW x, IsResult(x)
    PROVE  Good(at, k, Judged(k, x))
<1>1. IsResult(Settled(Req(at, k), x)) /\ Follows(at, k, Settled(Req(at, k), x))
  BY SettledFacts DEF Follows
<1>. QED
  BY <1>1, SettledIsGood DEF Judged

-----------------------------------------------------------------------------
(* "No remarks" for what is not done. *)

LEMMA BlankStatus == ASSUME NEW r PROVE ReqStatus(r, Blank) = "not_audited"
<1>1. DOMAIN Blank.checks = {} /\ Blank.status = "not_audited"
  BY DEF Blank, Empty
<1> DEFINE S == {IF d \in DOMAIN Blank.checks THEN CheckStatus(Def(r.checks, d), Blank.checks[d])
                 ELSE "not_audited" : d \in Ids(r.checks)}
<1>2. S \subseteq {"not_audited"}
  BY <1>1
<1>3. ReqStatus(r, Blank) = IF r.checks = <<>> THEN Blank.status ELSE Aggregate(S)
  BY DEF ReqStatus
<1> HIDE DEF S
<1>. QED
  BY <1>1, <1>2, <1>3 DEF Aggregate

LEMMA InapplicableIsGood ==
    ASSUME NEW f \in DOMAIN File, NEW k \in Keys(f)
    PROVE  Good(f, k, Inapplicable(Req(f, k)))
<1> DEFINE r == Req(f, k)
           b == r
           I == Ids(r.checks)
           e(d) == [overall |-> "not_applicable", status |-> "passed",
                    pcs |-> [p \in Ids(Def(r.checks, d).pcs) |-> "passed"]]
           m == [d \in I |-> e(d)]
           x == [checks |-> m, status |-> "passed", review |-> FALSE, on |-> b]
<1>1. Inapplicable(r) = x
  BY DEF Inapplicable
<1>2. \A d : IsEntry(e(d)) /\ e(d).overall = "not_applicable"
  <2> SUFFICES ASSUME NEW d PROVE IsEntry(e(d)) /\ e(d).overall = "not_applicable"
    OBVIOUS
  <2> DEFINE q == [p \in Ids(Def(r.checks, d).pcs) |-> "passed"]
  <2>1. q \in [DOMAIN q -> Mark]
    BY DEF Mark
  <2>2. e(d) = [overall |-> "not_applicable", status |-> "passed", pcs |-> q]
    OBVIOUS
  <2> HIDE DEF q, e
  <2>. QED
    BY <2>1, <2>2 DEF IsEntry, Status
<1>3. b \in Readings
  BY RequirementType
<1>4. r.checks # <<>> => I # {}
  <2>1. r.checks # <<>> => 1 \in DOMAIN r.checks
    BY ChecksAreSeq
  <2>. QED
    BY <2>1 DEF Ids
<1> HIDE DEF r, b, e, I
<1>5. DOMAIN m = I /\ (\A d \in I : m[d] = e(d)) /\ m = [d \in DOMAIN m |-> m[d]]
  OBVIOUS
<1> HIDE DEF m
<1>6. IsChecks(m)
  BY <1>2, <1>5 DEF IsChecks
<1>7. /\ x.checks = m /\ x.status = "passed" /\ x.review = FALSE /\ x.on = b
      /\ x = [checks |-> x.checks, status |-> x.status, review |-> x.review, on |-> x.on]
  OBVIOUS
<1> HIDE DEF x
<1>8. IsResult(x)
  BY <1>3, <1>6, <1>7 DEF IsResult, Status
<1>9. ReqStatus(r, x) = "passed"
  <2> DEFINE S == {IF d \in DOMAIN x.checks THEN CheckStatus(Def(r.checks, d), x.checks[d])
                   ELSE "not_audited" : d \in I}
  <2>1. ReqStatus(r, x) = IF r.checks = <<>> THEN x.status ELSE Aggregate(S)
    BY DEF ReqStatus, I
  <2>2. \A d \in I : CheckStatus(Def(r.checks, d), x.checks[d]) = "passed"
    BY <1>2, <1>5, <1>7 DEF CheckStatus
  <2>3. S \subseteq {"passed"} /\ (I # {} => S = {"passed"})
    BY <1>5, <1>7, <2>2
  <2> HIDE DEF S
  <2>4. Aggregate({"passed"}) = "passed"
    BY DEF Aggregate
  <2>. QED
    BY <1>4, <1>7, <2>1, <2>3, <2>4
<1>10. Good(f, k, x)
  BY <1>7, <1>8, <1>9 DEF Good, Follows, r, b
<1>. QED
  BY <1>1, <1>10 DEF r

LEMMA FilledIsGood ==
    ASSUME NEW f \in DOMAIN File, NEW k \in Keys(f), NEW x, IsResult(x)
    PROVE  Good(f, k, Filled(Req(f, k), x))
<1> DEFINE r == Req(f, k)
           b == r
           fresh == [overall |-> "not_audited", status |-> "not_audited", pcs |-> Empty]
           entry(d) == IF d \in DOMAIN x.checks THEN x.checks[d] ELSE fresh
           pids(d) == Ids(Def(r.checks, d).pcs)
           pcs(d, c) == [p \in DOMAIN c.pcs \cup pids(d) |->
                            IF p \in pids(d) /\ StatusOf(c.pcs, p) = "not_audited"
                            THEN "passed" ELSE StatusOf(c.pcs, p)]
           fill(d, e) ==
             IF d \notin Ids(r.checks) THEN e
             ELSE IF e.overall = "not_audited" THEN [e EXCEPT !.overall = "not_applicable"]
             ELSE IF e.overall = "passed" THEN [e EXCEPT !.pcs = pcs(d, e)]
             ELSE e
           D == DOMAIN x.checks \cup Ids(r.checks)
           m == [d \in D |-> fill(d, entry(d))]
           y == [x EXCEPT !.checks = m, !.review = FALSE, !.on = b]
           z == [y EXCEPT !.status = ReqStatus(r, y)]
<1>1. Filled(r, x) = z
  BY DEF Filled
<1>2. \A d : IsEntry(entry(d))
  BY FreshEntry DEF IsResult, IsChecks
<1>3. \A d, e : IsEntry(e) => IsEntry(fill(d, e))
  <2> SUFFICES ASSUME NEW d, NEW e, IsEntry(e) PROVE IsEntry(fill(d, e))
    OBVIOUS
  <2>1. IsEntry([e EXCEPT !.overall = "not_applicable"])
    BY EntryFields
  <2> DEFINE q == pcs(d, e)
  <2>2. e.pcs \in [DOMAIN e.pcs -> Mark]
    BY DEF IsEntry
  <2>3. \A p : StatusOf(e.pcs, p) \in Mark
    BY <2>2, StatusOfType
  <2>4. q \in [DOMAIN q -> Mark]
    BY <2>3 DEF Mark
  <2> HIDE DEF q
  <2>5. IsEntry([e EXCEPT !.pcs = q])
    BY <2>4, PcsChanged
  <2>. QED
    BY <2>1, <2>5 DEF q
<1>4. b \in Readings
  BY RequirementType
<1> HIDE DEF r, b, entry, fill
<1>5. DOMAIN m = D /\ (\A d \in D : m[d] = fill(d, entry(d))) /\ m = [d \in DOMAIN m |-> m[d]]
  OBVIOUS
<1> HIDE DEF m
<1>6. IsChecks(m)
  BY <1>2, <1>3, <1>5 DEF IsChecks
<1> DEFINE x1 == [x EXCEPT !.checks = m]
           x2 == [x1 EXCEPT !.review = FALSE]
           x3 == [x2 EXCEPT !.on = b]
<1>7. y = x3
  OBVIOUS
<1>8. IsResult(x1)
  BY <1>6, ResultFields
<1> HIDE DEF x1
<1>9. IsResult(x2)
  BY <1>8, ResultFields
<1> HIDE DEF x2
<1>10. IsResult(x3) /\ x3.on = b
  BY <1>4, <1>9, ResultFields
<1> HIDE DEF x3, y
<1>11. IsResult(y) /\ y.on = b
  BY <1>7, <1>10
<1>12. ReqStatus(r, y) \in Status
  BY <1>11, ReqStatusType DEF IsResult
<1>13. IsResult(z) /\ z.checks = y.checks /\ z.status = ReqStatus(r, y) /\ z.on = b
  BY <1>11, <1>12, ResultFields
<1> HIDE DEF z
<1>14. ReqStatus(r, z) = z.status
  BY <1>13, StatusSettles
<1>15. Good(f, k, z)
  BY <1>13, <1>14 DEF Good, Follows, r, b
<1>. QED
  BY <1>1, <1>15 DEF r

-----------------------------------------------------------------------------
(* The update of the rule file: where the marks go. *)

LEMMA NthGrows ==
    ASSUME NEW s, NEW i \in Nat, NEW j \in Nat, i < j, s[i].text = s[j].text
    PROVE  Nth(s, i) < Nth(s, j)
<1> DEFINE A == {l \in 1..i : s[l].text = s[i].text}
           B == {l \in 1..j : s[l].text = s[j].text}
<1>1. A \subseteq B /\ j \in B /\ j \notin A
  OBVIOUS
<1>2. IsFiniteSet(1..j)
  BY FS_Interval
<1>3. B \in SUBSET (1..j)
  OBVIOUS
<1>4. Nth(s, i) = Cardinality(A) /\ Nth(s, j) = Cardinality(B)
  BY DEF Nth
<1> HIDE DEF A, B
<1>5. IsFiniteSet(B)
  BY <1>2, <1>3, FS_Subset
<1>6. A \in SUBSET B
  BY <1>1
<1>7. /\ IsFiniteSet(A)
      /\ Cardinality(A) <= Cardinality(B)
      /\ Cardinality(B) = Cardinality(A) => B = A
  BY <1>5, <1>6, FS_Subset
<1>8. Cardinality(A) \in Nat /\ Cardinality(B) \in Nat
  BY <1>5, <1>7, FS_CardinalityType
<1>9. Cardinality(A) # Cardinality(B)
  BY <1>1, <1>7
<1>. QED
  BY <1>4, <1>7, <1>8, <1>9

(* Nothing new is paired twice. *)
LEMMA PairedOnce ==
    ASSUME NEW old, NEW new, DOMAIN old \subseteq Nat,
           NEW p \in Paired(old, new), NEW q \in Paired(old, new), p[2] = q[2]
    PROVE  p = q
<1>1. /\ p = <<p[1], p[2]>> /\ q = <<q[1], q[2]>>
      /\ p[1] \in Nat /\ q[1] \in Nat
      /\ old[p[1]].text = old[q[1]].text
      /\ Nth(old, p[1]) = Nth(old, q[1])
  BY DEF Paired
<1>2. \A i, j \in Nat : old[i].text = old[j].text /\ i < j => Nth(old, i) < Nth(old, j)
  BY NthGrows
<1>3. \A i, j \in Nat : old[i].text = old[j].text /\ i < j => Nth(old, i) # Nth(old, j)
  <2> SUFFICES ASSUME NEW i \in Nat, NEW j \in Nat, old[i].text = old[j].text, i < j,
                      Nth(old, i) = Nth(old, j)
               PROVE  FALSE
    OBVIOUS
  <2> DEFINE B == {l \in 1..j : old[l].text = old[j].text}
  <2>1. IsFiniteSet(1..j) /\ B \in SUBSET (1..j) /\ Nth(old, j) = Cardinality(B)
    BY FS_Interval DEF Nth
  <2> HIDE DEF B
  <2>2. IsFiniteSet(B)
    BY <2>1, FS_Subset
  <2>3. Nth(old, j) \in Nat
    BY <2>1, <2>2, FS_CardinalityType
  <2>4. Nth(old, i) < Nth(old, j)
    BY <1>2
  <2>. QED
    BY <2>3, <2>4
<1>4. p[1] = q[1]
  BY <1>1, <1>3
<1>. QED
  BY <1>1, <1>4

(* The ids of what is paired. *)
PairIds(old, new) == {<<old[q[1]].id, new[q[2]].id>> : q \in Paired(old, new)}

LEMMA PairedIds ==
    ASSUME NEW old, NEW new, DOMAIN old \subseteq Nat, IdsDiffer(new),
           NEW p \in PairIds(old, new), NEW q \in PairIds(old, new), p[2] = q[2]
    PROVE  p = q
<1>1. PICK a \in Paired(old, new) : p = <<old[a[1]].id, new[a[2]].id>>
  BY DEF PairIds
<1>2. PICK b \in Paired(old, new) : q = <<old[b[1]].id, new[b[2]].id>>
  BY DEF PairIds
<1>3. a[2] \in DOMAIN new /\ b[2] \in DOMAIN new
  BY DEF Paired
<1>4. new[a[2]].id = new[b[2]].id
  BY <1>1, <1>2
<1>5. a[2] = b[2]
  BY <1>3, <1>4 DEF IdsDiffer
<1>6. a = b
  BY <1>5, PairedOnce
<1>. QED
  BY <1>1, <1>2, <1>6

LEMMA MovedFacts ==
    ASSUME NEW old, NEW new, NEW m, DOMAIN old \subseteq Nat, IdsDiffer(new)
    PROVE  LET y == Moved(old, new, m) IN
           /\ y = [d \in DOMAIN y |-> y[d]]
           /\ \A d \in DOMAIN y : d \in Ids(new)
                /\ \E c \in Ids(old) : c \in DOMAIN m /\ y[d] = <<c, m[c]>>
<1> DEFINE ids == PairIds(old, new)
           from(d) == (CHOOSE q \in ids : q[2] = d)[1]
           D == {q[2] : q \in {z \in ids : z[1] \in DOMAIN m}}
           y == [d \in D |-> <<from(d), m[from(d)]>>]
<1>1. Moved(old, new, m) = y
  BY DEF Moved, PairIds
<1>2. ASSUME NEW p \in ids, NEW q \in ids, p[2] = q[2]
      PROVE  p = q
  BY <1>2, PairedIds
<1>3. ASSUME NEW q \in ids
      PROVE  q[1] \in Ids(old) /\ q[2] \in Ids(new)
  <2>1. PICK a \in Paired(old, new) : q = <<old[a[1]].id, new[a[2]].id>>
    BY DEF PairIds
  <2>2. a[1] \in DOMAIN old /\ a[2] \in DOMAIN new
    BY DEF Paired
  <2>. QED
    BY <2>1, <2>2 DEF Ids
<1> HIDE DEF ids
<1>4. ASSUME NEW d \in D
      PROVE  d \in Ids(new) /\ from(d) \in Ids(old) /\ from(d) \in DOMAIN m
  <2>1. PICK z \in ids : z[1] \in DOMAIN m /\ z[2] = d
    OBVIOUS
  <2> DEFINE p == CHOOSE q \in ids : q[2] = d
  <2>2. p \in ids /\ p[2] = d
    BY <2>1
  <2>3. from(d) = p[1]
    OBVIOUS
  <2> HIDE DEF p, from
  <2>4. p = z
    BY <1>2, <2>1, <2>2
  <2>. QED
    BY <1>3, <2>1, <2>3, <2>4
<1> HIDE DEF D, from
<1>5. DOMAIN y = D /\ (\A d \in D : y[d] = <<from(d), m[from(d)]>>) /\ y = [d \in DOMAIN y |-> y[d]]
  OBVIOUS
<1> HIDE DEF y
<1>. QED
  BY <1>1, <1>4, <1>5

LEMMA MovedMarks ==
    ASSUME NEW old, NEW new, NEW m, DOMAIN old \subseteq Nat, IdsDiffer(new), m \in [DOMAIN m -> Mark]
    PROVE  LET p == Moved(old, new, m) IN
           \A z : z = [q \in DOMAIN p |-> p[q][2]] => z \in [DOMAIN z -> Mark]
<1> DEFINE p == Moved(old, new, m)
<1>1. \A d \in DOMAIN p : \E c \in Ids(old) : c \in DOMAIN m /\ p[d] = <<c, m[c]>>
  BY MovedFacts
<1> HIDE DEF p
<1>2. \A d \in DOMAIN p : p[d][2] \in Mark
  BY <1>1
<1>3. \A z : z = [q \in DOMAIN p |-> p[q][2]] => z \in [DOMAIN z -> Mark]
  BY <1>2
<1>. QED
  BY <1>3 DEF p

LEMMA RemappedFacts ==
    ASSUME NEW f \in DOMAIN File, NEW k \in Keys(f), NEW n \in DOMAIN File, NEW h \in Keys(n),
           NEW checks, IsChecks(checks)
    PROVE  LET y == Remapped(Req(f, k), Req(n, h), checks) IN
           /\ IsChecks(y)
           /\ \A d \in DOMAIN y : \E c \in Ids(Req(f, k).checks) :
                c \in DOMAIN checks /\ y[d].overall = checks[c].overall
<1> DEFINE old == Req(f, k)
           new == Req(n, h)
           moved == Moved(old.checks, new.checks, checks)
           p(d) == Moved(Def(old.checks, moved[d][1]).pcs, Def(new.checks, d).pcs, moved[d][2].pcs)
           pcs(d) == [q \in DOMAIN p(d) |-> p(d)[q][2]]
           e(d) == [moved[d][2] EXCEPT !.pcs = pcs(d)]
           y == [d \in DOMAIN moved |-> e(d)]
<1>1. Remapped(old, new, checks) = y
  BY DEF Remapped
<1>2. /\ DOMAIN old.checks \subseteq Nat
      /\ \A d \in Ids(old.checks) : DOMAIN Def(old.checks, d).pcs \subseteq Nat
  BY ChecksAreSeq
<1>3. /\ IdsDiffer(new.checks)
      /\ \A d \in Ids(new.checks) : IdsDiffer(Def(new.checks, d).pcs)
  BY ChecksAreSeq
<1> HIDE DEF old, new
<1>4. \A d \in DOMAIN moved : d \in Ids(new.checks)
         /\ \E c \in Ids(old.checks) : c \in DOMAIN checks /\ moved[d] = <<c, checks[c]>>
  BY <1>2, <1>3, MovedFacts
<1> HIDE DEF moved
<1>5. ASSUME NEW d \in DOMAIN moved
      PROVE  IsEntry(e(d)) /\ \E c \in Ids(old.checks) : c \in DOMAIN checks /\ e(d).overall = checks[c].overall
  <2>1. PICK c \in Ids(old.checks) : c \in DOMAIN checks /\ moved[d] = <<c, checks[c]>>
    BY <1>4
  <2>2. d \in Ids(new.checks)
    BY <1>4
  <2> DEFINE s == Def(old.checks, c).pcs
             t == Def(new.checks, d).pcs
             g == checks[c]
             pp == Moved(s, t, g.pcs)
             z == [q \in DOMAIN pp |-> pp[q][2]]
  <2>3. IsEntry(g) /\ g.pcs \in [DOMAIN g.pcs -> Mark]
    BY <2>1 DEF IsChecks, IsEntry
  <2>4. moved[d][1] = c /\ moved[d][2] = g
    BY <2>1
  <2>5. e(d) = [g EXCEPT !.pcs = z]
    BY <2>4
  <2>6. DOMAIN s \subseteq Nat /\ IdsDiffer(t)
    BY <1>2, <1>3, <2>2
  <2> HIDE DEF s, t, g
  <2> DEFINE gm == g.pcs
  <2>10. gm \in [DOMAIN gm -> Mark]
    BY <2>3
  <2> HIDE DEF gm
  <2>11. \A w : w = [q \in DOMAIN Moved(s, t, gm) |-> Moved(s, t, gm)[q][2]] => w \in [DOMAIN w -> Mark]
    BY <2>6, <2>10, MovedMarks
  <2>7. z \in [DOMAIN z -> Mark]
    BY <2>11 DEF gm
  <2> HIDE DEF z
  <2> DEFINE v == [g EXCEPT !.pcs = z]
  <2>8. IsEntry(v) /\ v.overall = g.overall
    BY <2>3, <2>7, PcsChanged
  <2>9. e(d) = v
    BY <2>5
  <2> HIDE DEF e, v
  <2>. QED
    BY <2>1, <2>8, <2>9 DEF g
<1> HIDE DEF e
<1>6. DOMAIN y = DOMAIN moved /\ (\A d \in DOMAIN y : y[d] = e(d)) /\ y = [d \in DOMAIN y |-> y[d]]
  OBVIOUS
<1> HIDE DEF y
<1>7. IsChecks(y)
  BY <1>5, <1>6 DEF IsChecks
<1>. QED
  BY <1>1, <1>5, <1>6, <1>7 DEF old, new

(* A requirement each of whose checks needs somebody's judgement. *)
NeedsJudging(r) == \A i \in DOMAIN r.checks : r.checks[i].pcs # <<>>

(* A requirement that is not audited has no check that is judged ... *)
LEMMA NothingJudged ==
    ASSUME NEW r, NEW x, ReqStatus(r, x) = "not_audited", IsChecks(x.checks),
           NEW c \in Ids(r.checks), c \in DOMAIN x.checks
    PROVE  x.checks[c].overall = "not_audited"
<1> DEFINE S == {IF d \in DOMAIN x.checks THEN CheckStatus(Def(r.checks, d), x.checks[d])
                 ELSE "not_audited" : d \in Ids(r.checks)}
           e == x.checks[c]
<1>1. r.checks # <<>>
  BY DEF Ids
<1>2. Aggregate(S) = "not_audited"
  BY <1>1 DEF ReqStatus
<1>3. CheckStatus(Def(r.checks, c), e) \in S
  OBVIOUS
<1> HIDE DEF S
<1>4. S \subseteq {"not_audited"}
  BY <1>2 DEF Aggregate
<1>5. CheckStatus(Def(r.checks, c), e) = "not_audited"
  BY <1>3, <1>4
<1> HIDE DEF e
<1>6. e.overall = "not_audited"
  BY <1>5 DEF CheckStatus
<1>. QED
  BY <1>6 DEF e

(* ... and the other way round, if each check needs judging. *)
LEMMA NothingFollows ==
    ASSUME NEW r, NEW x, NeedsJudging(r), r.checks = <<>> => x.status = "not_audited",
           \A d \in DOMAIN x.checks : x.checks[d].overall = "not_audited"
    PROVE  ReqStatus(r, x) = "not_audited"
<1> DEFINE S == {IF d \in DOMAIN x.checks THEN CheckStatus(Def(r.checks, d), x.checks[d])
                 ELSE "not_audited" : d \in Ids(r.checks)}
<1>1. \A d \in Ids(r.checks) : d \in DOMAIN x.checks => CheckStatus(Def(r.checks, d), x.checks[d]) = "not_audited"
  <2> SUFFICES ASSUME NEW d \in Ids(r.checks), d \in DOMAIN x.checks
               PROVE  CheckStatus(Def(r.checks, d), x.checks[d]) = "not_audited"
    OBVIOUS
  <2>1. Def(r.checks, d).pcs # <<>>
    BY Definition DEF NeedsJudging
  <2>2. x.checks[d].overall = "not_audited"
    OBVIOUS
  <2>. QED
    BY <2>1, <2>2 DEF CheckStatus
<1>2. S \subseteq {"not_audited"}
  BY <1>1
<1>3. ReqStatus(r, x) = IF r.checks = <<>> THEN x.status ELSE Aggregate(S)
  BY DEF ReqStatus
<1> HIDE DEF S
<1>. QED
  BY <1>2, <1>3 DEF Aggregate

(* The review flag an update leaves. *)
Flag(rep, k) == res[k].review \/ (k \in rep.updated /\ res[k].status # "not_audited")

(* The marks of m are those of w. *)
Marked(m, w) == DOMAIN m = DOMAIN w /\ \A d \in DOMAIN w : m[d].overall = w[d].overall /\ m[d].pcs = w[d].pcs

LEMMA CarriedFacts ==
    ASSUME at \in DOMAIN File, NEW k \in DOMAIN res, IsResult(res[k]),
           NEW rep, rep.to \in DOMAIN File, NEW h
    PROVE  LET y == Carried(rep, k, h) IN
           /\ IsResult(y) /\ y.on = res[k].on /\ y.review = Flag(rep, k)
           /\ h \in Keys(rep.to) =>
                /\ Follows(rep.to, h, y)
                /\ Req(rep.to, h).checks = <<>> => y.status = res[k].status
                /\ k \in Keys(at) => \A d \in DOMAIN y.checks : \E c \in Ids(Req(at, k).checks) :
                     c \in DOMAIN res[k].checks /\ y.checks[d].overall = res[k].checks[c].overall
                /\ k \in Keys(at) => Marked(y.checks, Remapped(Req(at, k), Req(rep.to, h), res[k].checks))
<1> DEFINE n == rep.to
           w == res[k]
           M == Remapped(Req(at, k), Req(n, h), w.checks)
           x1 == [w EXCEPT !.checks = M]
           x == IF k \in Keys(at) /\ h \in Keys(n) THEN x1 ELSE w
           F == x.review \/ (k \in rep.updated /\ x.status # "not_audited")
           z == [x EXCEPT !.review = F]
           y == Recalculated(n, h, z)
<1>1. Carried(rep, k, h) = y
  BY DEF Carried
<1>2. IsResult(w) /\ IsChecks(w.checks) /\ n \in DOMAIN File
  BY DEF IsResult
<1>3. k \in Keys(at) /\ h \in Keys(n) =>
        /\ IsChecks(M)
        /\ \A d \in DOMAIN M : \E c \in Ids(Req(at, k).checks) :
             c \in DOMAIN w.checks /\ M[d].overall = w.checks[c].overall
  BY <1>2, RemappedFacts
<1> HIDE DEF M
<1>4. w = res[k] /\ n = rep.to
  OBVIOUS
<1> HIDE DEF w, n
<1>5. /\ IsChecks(M) => IsResult(x1)
      /\ x1.checks = M /\ x1.status = w.status /\ x1.review = w.review /\ x1.on = w.on
  BY <1>2, ResultFields
<1> HIDE DEF x1
<1>6. /\ IsResult(x) /\ x.status = w.status /\ x.review = w.review /\ x.on = w.on
      /\ k \in Keys(at) /\ h \in Keys(n) => x.checks = M
  BY <1>2, <1>3, <1>5
<1> HIDE DEF x
<1>7. F \in BOOLEAN
  BY <1>6 DEF IsResult
<1>8. F = Flag(rep, k)
  BY <1>4, <1>6 DEF Flag
<1> HIDE DEF F
<1>9. IsResult(z) /\ z.checks = x.checks /\ z.status = x.status /\ z.review = F /\ z.on = x.on
  BY <1>6, <1>7, ResultFields
<1> HIDE DEF z
<1>10. CASE h \notin Keys(n)
  <2>1. y = z
    BY <1>10 DEF Recalculated
  <2> HIDE DEF y
  <2>. QED
    BY <1>1, <1>4, <1>6, <1>8, <1>9, <1>10, <2>1
<1>11. CASE h \in Keys(n)
  <2> DEFINE r == Req(n, h)
  <2>1. y = Settled(r, z)
    BY <1>11 DEF Recalculated
  <2> HIDE DEF y, r
  <2>2. /\ IsResult(y) /\ y.status = ReqStatus(r, y)
        /\ y.review = z.review /\ y.on = z.on
        /\ r.checks = <<>> => y.status = z.status
        /\ DOMAIN y.checks = DOMAIN z.checks
        /\ \A d \in DOMAIN z.checks : /\ y.checks[d].overall = z.checks[d].overall
                                      /\ y.checks[d].pcs = z.checks[d].pcs
    BY <1>9, <2>1, SettledFacts
  <2>3. Follows(n, h, y)
    BY <2>2 DEF Follows, r
  <2>4. k \in Keys(at) => \A d \in DOMAIN y.checks : \E c \in Ids(Req(at, k).checks) :
          c \in DOMAIN w.checks /\ y.checks[d].overall = w.checks[c].overall
    BY <1>3, <1>6, <1>9, <1>11, <2>2
  <2>5. IsResult(y) /\ y.on = w.on /\ y.review = F /\ (r.checks = <<>> => y.status = w.status)
    BY <1>6, <1>9, <2>2
  <2>6. k \in Keys(at) => Marked(y.checks, M)
    BY <1>6, <1>9, <1>11, <2>2 DEF Marked
  <2>7. k \in Keys(at) => Marked(y.checks, Remapped(Req(at, k), Req(rep.to, h), res[k].checks))
    BY <2>6 DEF M, n, w
  <2>. QED
    BY <1>1, <1>4, <1>8, <2>3, <2>4, <2>5, <2>7 DEF r
<1>. QED
  BY <1>10, <1>11

(* What nobody had judged is not judged after an update. *)
LEMMA CarriedUnjudged ==
    ASSUME at \in DOMAIN File, NEW k \in DOMAIN res, IsResult(res[k]), k \in Keys(at),
           Follows(at, k, res[k]), res[k].status = "not_audited",
           NEW rep, rep.to \in DOMAIN File, NEW h \in Keys(rep.to), NeedsJudging(Req(rep.to, h))
    PROVE  Carried(rep, k, h).status = "not_audited"
<1> DEFINE y == Carried(rep, k, h)
           r == Req(rep.to, h)
<1>1. /\ y.status = ReqStatus(r, y)
      /\ r.checks = <<>> => y.status = "not_audited"
      /\ \A d \in DOMAIN y.checks : \E c \in Ids(Req(at, k).checks) :
           c \in DOMAIN res[k].checks /\ y.checks[d].overall = res[k].checks[c].overall
  BY CarriedFacts DEF Follows
<1>2. ReqStatus(Req(at, k), res[k]) = "not_audited" /\ IsChecks(res[k].checks)
  BY DEF Follows, IsResult
<1>3. \A c \in Ids(Req(at, k).checks) : c \in DOMAIN res[k].checks => res[k].checks[c].overall = "not_audited"
  BY <1>2, NothingJudged
<1> HIDE DEF y
<1>4. \A d \in DOMAIN y.checks : y.checks[d].overall = "not_audited"
  BY <1>1, <1>3
<1>5. NeedsJudging(r)
  OBVIOUS
<1> HIDE DEF r
<1>6. ReqStatus(r, y) = "not_audited"
  BY <1>1, <1>4, <1>5, NothingFollows
<1>. QED
  BY <1>1, <1>6 DEF y

-----------------------------------------------------------------------------
(* The update of the rule file: where the requirements go. *)

LEMMA NamedOnce ==
    ASSUME NEW f, NEW n \in DOMAIN File, NEW i, NEW j \in Named(f, n, i), NEW l \in Named(f, n, i)
    PROVE  j = l
<1>1. j \in Nat /\ l \in Nat /\ j \in DOMAIN File[n] /\ l \in DOMAIN File[n]
  BY FileIsSeq DEF Named
<1>2. j <= l /\ l <= j
  BY <1>1 DEF Named
<1>. QED
  BY <1>1, <1>2

LEMMA HomeType ==
    ASSUME NEW f \in DOMAIN File, NEW n \in DOMAIN File, NEW k \in AllKeys
    PROVE  Home(f, n, k) \in AllKeys
<1> DEFINE i == CHOOSE j \in DOMAIN File[f] : File[f][j].key = k
           j == CHOOSE l \in Named(f, n, i) : TRUE
<1>1. Home(f, n, k) = k \/ (Named(f, n, i) # {} /\ Home(f, n, k) = File[n][j].key)
  BY DEF Home
<1>2. Named(f, n, i) # {} => j \in DOMAIN File[n]
  BY DEF Named
<1> HIDE DEF i, j
<1>3. j \in DOMAIN File[n] => File[n][j].key \in Keys(n)
  BY DEF Keys
<1>. QED
  BY <1>1, <1>2, <1>3, KeyType

LEMMA HomeMatches ==
    ASSUME NEW f \in DOMAIN File, NEW n \in DOMAIN File, NEW i \in DOMAIN File[f], Match(f, n, i) # {}
    PROVE  Home(f, n, File[f][i].key) \in Match(f, n, i) /\ Home(f, n, File[f][i].key) \in Keys(n)
<1> DEFINE k == File[f][i].key
<1>1. CASE k \in Keys(n)
  BY <1>1 DEF Home, Match
<1>2. CASE k \notin Keys(n)
  <2>1. \A m \in Match(f, n, i) : \E j \in Named(f, n, i) : m = File[n][j].key
    BY <1>2 DEF Match
  <2>2. PICK m \in Match(f, n, i) : TRUE
    OBVIOUS
  <2>3. PICK j \in Named(f, n, i) : m = File[n][j].key
    BY <2>1, <2>2
  <2> DEFINE l == CHOOSE z \in Named(f, n, i) : TRUE
             g == CHOOSE z \in DOMAIN File[f] : File[f][z].key = k
  <2>4. l \in Named(f, n, i)
    BY <2>3
  <2> HIDE DEF l
  <2>5. l = j
    BY <2>4, NamedOnce
  <2>6. g \in DOMAIN File[f] /\ File[f][g].key = k
    OBVIOUS
  <2> HIDE DEF g
  <2>7. g = i
    BY <2>6, FileAssumption
  <2>8. k \in Keys(f)
    BY DEF Keys
  <2>9. Home(f, n, k) = File[n][l].key
    BY <1>2, <2>3, <2>7, <2>8 DEF Home, g, l
  <2>10. j \in DOMAIN File[n]
    BY DEF Named
  <2>. QED
    BY <2>2, <2>3, <2>5, <2>9, <2>10 DEF Keys
<1>. QED
  BY <1>1, <1>2

LEMMA ReportFacts ==
    ASSUME NEW f \in DOMAIN File, NEW n \in DOMAIN File, NEW k \in Keys(f)
    PROVE  LET rep == Report(f, n) IN
           /\ rep.of = f /\ rep.to = n
           /\ k \notin rep.removed =>
                /\ Home(f, n, k) \in Keys(n)
                /\ k \notin rep.updated => Compared(Req(n, Home(f, n, k))) = Compared(Req(f, k))
<1> DEFINE rem == {File[f][i].key : i \in {j \in DOMAIN File[f] : Match(f, n, j) = {}}}
           upd == {File[f][i].key : i \in {j \in DOMAIN File[f] :
                     \E m \in Match(f, n, j) : Compared(Req(n, m)) # Compared(File[f][j])}}
           rep == Report(f, n)
<1>1. rep.of = f /\ rep.to = n /\ rep.removed = rem /\ rep.updated = upd
  BY DEF Report
<1>2. PICK i \in DOMAIN File[f] : Req(f, k) = File[f][i] /\ File[f][i].key = k
  BY Requirement
<1>3. k \notin rem => Match(f, n, i) # {}
  BY <1>2
<1>4. k \notin upd => \A m \in Match(f, n, i) : Compared(Req(n, m)) = Compared(Req(f, k))
  BY <1>2
<1> HIDE DEF rem, upd, rep
<1>5. k \notin rem => Home(f, n, k) \in Match(f, n, i) /\ Home(f, n, k) \in Keys(n)
  BY <1>2, <1>3, HomeMatches
<1>. QED
  BY <1>1, <1>4, <1>5 DEF rep

-----------------------------------------------------------------------------
(* The steps. *)

(* What is judged or confirmed replaces results of requirements there are. *)
LEMMA JudgingKeepsResults ==
    ASSUME Results, at' = at, stale => stale', acts' \in 0..MaxActs,
           NEW K, K \subseteq DOMAIN res \cup Keys(at), DOMAIN res' = DOMAIN res \cup K,
           \A k \in K : IsResult(res'[k]) /\ (k \in Keys(at) => Good(at, k, res'[k])),
           \A k \in DOMAIN res \ K : res'[k] = res[k]
    PROVE  Results'
<1>1. at' \in DOMAIN File
  BY DEF Results, Shape
<1>2. ASSUME NEW k \in DOMAIN res'
      PROVE  k \in AllKeys /\ IsResult(res'[k])
  <2>1. k \in Keys(at) => k \in AllKeys
    BY <1>1, KeyType
  <2>. QED
    BY <2>1 DEF Results, Shape
<1>3. ASSUME NEW k \in DOMAIN res' \cap Keys(at)
      PROVE  \/ Good(at, k, res'[k])
             \/ k \in DOMAIN res /\ res'[k] = res[k]
  OBVIOUS
<1>4. Shape'
  BY <1>1, <1>2 DEF Shape
<1>5. StatusFollowsMarks'
  BY <1>3 DEF Results, StatusFollowsMarks, Good, Follows
<1>6. ResultsHaveRequirements'
  BY DEF Results, ResultsHaveRequirements
<1>7. JudgedAsItReads'
  BY <1>1, <1>3, RequirementType DEF Results, JudgedAsItReads, Good
<1>. QED
  BY <1>4, <1>5, <1>6, <1>7 DEF Results

LEMMA NothingKeepsResults ==
    ASSUME Results, at' = at, res' = res, stale => stale', acts' \in 0..MaxActs
    PROVE  Results'
<1> DEFINE K == {}
<1>1. K \subseteq DOMAIN res \cup Keys(at) /\ DOMAIN res' = DOMAIN res \cup K
  OBVIOUS
<1>2. \A k \in K : IsResult(res'[k]) /\ (k \in Keys(at) => Good(at, k, res'[k]))
  OBVIOUS
<1>3. \A k \in DOMAIN res \ K : res'[k] = res[k]
  OBVIOUS
<1> HIDE DEF K
<1>. QED
  BY <1>1, <1>2, <1>3, JudgingKeepsResults

LEMMA SameCompared ==
    ASSUME NEW r, NEW q, Compared(r) = Compared(q), NeedsJudging(r)
    PROVE  NeedsJudging(q)
<1>1. ToSet(r.checks) = ToSet(q.checks)
  BY DEF Compared
<1>2. \A c \in ToSet(r.checks) : c.pcs # <<>>
  BY DEF NeedsJudging, ToSet
<1>3. \A i \in DOMAIN q.checks : q.checks[i] \in ToSet(q.checks)
  BY DEF ToSet
<1>. QED
  BY <1>1, <1>2, <1>3 DEF NeedsJudging

LEMMA AppliedKeepsResults ==
    ASSUME Results, NEW rep, rep.to \in DOMAIN File, Apply(rep), acts' \in 0..MaxActs,
           stale => stale', ~stale' => rep = Report(at, rep.to)
    PROVE  Results'
<1> DEFINE n == rep.to
           kept == DOMAIN res \ rep.removed
           home == [k \in kept |-> Home(at, n, k)]
<1>1. PICK last \in [{home[k] : k \in kept} -> kept] :
         /\ \A h \in DOMAIN last : home[last[h]] = h
         /\ res' = [h \in DOMAIN last |-> Carried(rep, last[h], h)]
  BY DEF Apply
<1>2. at' = n
  BY DEF Apply
<1>3. at \in DOMAIN File /\ \A k \in DOMAIN res : k \in AllKeys /\ IsResult(res[k])
  BY DEF Results, Shape
<1>4. ASSUME NEW h \in DOMAIN res'
      PROVE  /\ last[h] \in DOMAIN res /\ last[h] \notin rep.removed
             /\ h = Home(at, n, last[h]) /\ res'[h] = Carried(rep, last[h], h)
  BY <1>1
<1>5. ASSUME NEW h \in DOMAIN res'
      PROVE  LET k == last[h] IN
             /\ k \in DOMAIN res /\ k \notin rep.removed /\ h = Home(at, n, k)
             /\ res'[h] = Carried(rep, k, h)
             /\ IsResult(res'[h])
             /\ res'[h].on = res[k].on /\ res'[h].review = Flag(rep, k)
             /\ h \in Keys(n) => Follows(n, h, res'[h])
  <2> DEFINE k == last[h]
             y == Carried(rep, k, h)
  <2>1. k \in DOMAIN res /\ k \notin rep.removed /\ h = Home(at, n, k) /\ res'[h] = y
    BY <1>4
  <2> HIDE DEF k
  <2>2. IsResult(y) /\ y.on = res[k].on /\ y.review = Flag(rep, k) /\ (h \in Keys(n) => Follows(n, h, y))
    BY <1>3, <2>1, CarriedFacts
  <2> HIDE DEF y
  <2>3. /\ IsResult(res'[h]) /\ res'[h].on = res[k].on /\ res'[h].review = Flag(rep, k)
        /\ h \in Keys(n) => Follows(n, h, res'[h])
    BY <2>1, <2>2
  <2>. QED
    BY <2>1, <2>3 DEF k, y
<1>6. Shape'
  <2>1. ASSUME NEW h \in DOMAIN res' PROVE h \in AllKeys
    <3> DEFINE k == last[h]
    <3>1. k \in DOMAIN res /\ h = Home(at, n, k)
      BY <1>4
    <3> HIDE DEF k, n
    <3>2. k \in AllKeys /\ at \in DOMAIN File
      BY <1>3, <3>1
    <3>. QED
      BY <3>1, <3>2, HomeType DEF n
  <2>2. \A h \in DOMAIN res' : IsResult(res'[h])
    BY <1>5
  <2>3. at' \in DOMAIN File /\ acts' \in 0..MaxActs
    BY <1>2
  <2>. QED
    BY <2>1, <2>2, <2>3 DEF Shape
<1>7. StatusFollowsMarks'
  BY <1>2, <1>5 DEF StatusFollowsMarks, Follows
<1>8. ASSUME ~stale', NEW h \in DOMAIN res'
      PROVE  LET k == last[h] IN
             /\ k \in Keys(at) /\ h \in Keys(n)
             /\ k \notin rep.updated => Compared(Req(n, h)) = Compared(Req(at, k))
  <2> DEFINE k == last[h]
  <2>1. k \in DOMAIN res /\ k \notin rep.removed /\ h = Home(at, n, k)
    BY <1>4
  <2> HIDE DEF k
  <2>2. k \in Keys(at)
    BY <1>8, <2>1 DEF Results, ResultsHaveRequirements
  <2>3. rep = Report(at, n)
    BY <1>8
  <2>4. h \in Keys(n) /\ (k \notin rep.updated => Compared(Req(n, h)) = Compared(Req(at, k)))
    BY <1>3, <2>1, <2>2, <2>3, ReportFacts
  <2>. QED
    BY <2>2, <2>4 DEF k
<1>9. ResultsHaveRequirements'
  BY <1>2, <1>8 DEF ResultsHaveRequirements
<1>10. JudgedAsItReads'
  <2> SUFFICES ASSUME ~stale', NEW h \in DOMAIN res', h \in Keys(n), NeedsJudging(Req(n, h)),
                      res'[h].status # "not_audited", ~res'[h].review
               PROVE  res'[h].on \in {r \in Requirements : Compared(r) = Compared(Req(n, h))}
    BY <1>2 DEF JudgedAsItReads, NeedsJudging
  <2> DEFINE k == last[h]
  <2>1. /\ k \in DOMAIN res /\ res'[h] = Carried(rep, k, h)
        /\ res'[h].on = res[k].on /\ res'[h].review = Flag(rep, k)
    BY <1>5
  <2>2. k \in Keys(at) /\ (k \notin rep.updated => Compared(Req(n, h)) = Compared(Req(at, k)))
    BY <1>8
  <2> HIDE DEF k
  <2>3. IsResult(res[k]) /\ Follows(at, k, res[k])
    BY <1>3, <2>1, <2>2 DEF Results, StatusFollowsMarks, Follows
  <2>4. res[k].status # "not_audited"
    BY <1>3, <2>1, <2>2, <2>3, CarriedUnjudged
  <2>5. ~res[k].review /\ k \notin rep.updated
    BY <2>1, <2>4 DEF Flag
  <2>6. NeedsJudging(Req(at, k))
    BY <2>2, <2>5, SameCompared
  <2>7. res[k].on \in {r \in Requirements : Compared(r) = Compared(Req(at, k))}
    BY <2>1, <2>2, <2>4, <2>5, <2>6 DEF Results, JudgedAsItReads, NeedsJudging
  <2>. QED
    BY <2>1, <2>2, <2>5, <2>7
<1>. QED
  BY <1>6, <1>7, <1>9, <1>10 DEF Results

LEMMA ActType == ASSUME acts \in 0..MaxActs, Act PROVE acts' \in 0..MaxActs
  BY BoundAssumption DEF Act

LEMMA PutKeepsResults ==
    ASSUME Results, at' = at, stale => stale', acts' \in 0..MaxActs,
           NEW k \in Keys(at), NEW x, Good(at, k, x), res' = Put(k, x)
    PROVE  Results'
<1>1. DOMAIN res' = DOMAIN res \cup {k} /\ res'[k] = x /\ \A j \in DOMAIN res \ {k} : res'[j] = res[j]
  BY DEF Put
<1>2. IsResult(x)
  BY DEF Good
<1> DEFINE K == {k}
<1>3. K \subseteq DOMAIN res \cup Keys(at) /\ DOMAIN res' = DOMAIN res \cup K
  BY <1>1
<1>4. \A j \in K : IsResult(res'[j]) /\ (j \in Keys(at) => Good(at, j, res'[j]))
  BY <1>1, <1>2
<1>5. \A j \in DOMAIN res \ K : res'[j] = res[j]
  BY <1>1
<1> HIDE DEF K
<1>. QED
  BY <1>3, <1>4, <1>5, JudgingKeepsResults

LEMMA PressKeepsResults ==
    ASSUME Results, NEW k \in Keys(at), Judge(k)
    PROVE  Results'
<1>1. at \in DOMAIN File /\ acts \in 0..MaxActs /\ \A j \in DOMAIN res : IsResult(res[j])
  BY DEF Results, Shape
<1>2. PICK c \in Ids(Req(at, k).checks) :
        \/ \E v \in {"passed", "not_applicable"} : Press(k, c, v)
        \/ \E p \in Ids(Def(Req(at, k).checks, c).pcs), v \in {"passed", "failed"} : PressCriterion(k, c, p, v)
  BY DEF Judge
<1> DEFINE y == Opened(k)
<1>3. IsResult(y) /\ c \in DOMAIN y.checks /\ Ids(Def(Req(at, k).checks, c).pcs) \subseteq DOMAIN y.checks[c].pcs
  BY <1>1, OpenedFacts
<1>4. CASE \E v \in {"passed", "not_applicable"} : Press(k, c, v)
  <2>1. PICK v \in {"passed", "not_applicable"} : Press(k, c, v)
    BY <1>4
  <2> DEFINE z == [y EXCEPT !.checks[c].overall = Toggle(@, v)]
  <2>2. res' = Put(k, Judged(k, z)) /\ at' = at /\ stale' = stale /\ Act
    BY <2>1 DEF Press
  <2> HIDE DEF y
  <2>3. IsResult(z)
    BY <1>3, PressedType
  <2> HIDE DEF z
  <2>4. Good(at, k, Judged(k, z))
    BY <1>1, <2>3, JudgedIsGood
  <2>. QED
    BY <1>1, <2>2, <2>4, ActType, PutKeepsResults
<1>5. CASE \E p \in Ids(Def(Req(at, k).checks, c).pcs), v \in {"passed", "failed"} : PressCriterion(k, c, p, v)
  <2>1. PICK p \in Ids(Def(Req(at, k).checks, c).pcs), v \in {"passed", "failed"} : PressCriterion(k, c, p, v)
    BY <1>5
  <2> DEFINE z == [y EXCEPT !.checks[c].pcs[p] = Toggle(@, v)]
  <2>2. res' = Put(k, Judged(k, z)) /\ at' = at /\ stale' = stale /\ Act
    BY <2>1 DEF PressCriterion
  <2> HIDE DEF y
  <2>3. IsResult(z)
    BY <1>3, PressedType
  <2> HIDE DEF z
  <2>4. Good(at, k, Judged(k, z))
    BY <1>1, <2>3, JudgedIsGood
  <2>. QED
    BY <1>1, <2>2, <2>4, ActType, PutKeepsResults
<1>. QED
  BY <1>2, <1>4, <1>5

LEMMA BulkPassKeepsResults ==
    ASSUME Results, NEW K, K \subseteq Keys(at), BulkPass(K)
    PROVE  Results'
<1>1. at \in DOMAIN File /\ acts \in 0..MaxActs /\ \A j \in DOMAIN res : IsResult(res[j])
  BY DEF Results, Shape
<1> DEFINE open == {k \in K : ReqStatus(Req(at, k), Stored(k)) \in {"not_audited", "partially_audited"}}
           passed(k) == IF ReqStatus(Req(at, k), Stored(k)) = "not_audited" THEN Inapplicable(Req(at, k))
                        ELSE Filled(Req(at, k), res[k])
<1>2. /\ Act /\ at' = at /\ stale' = stale
      /\ res' = [k \in DOMAIN res \cup open |-> IF k \in open THEN passed(k) ELSE res[k]]
  BY DEF BulkPass
<1>3. ASSUME NEW k \in open
      PROVE  Good(at, k, passed(k))
  <2>1. CASE ReqStatus(Req(at, k), Stored(k)) = "not_audited"
    BY <1>1, <2>1, InapplicableIsGood
  <2>2. CASE ReqStatus(Req(at, k), Stored(k)) # "not_audited"
    <3>1. k \in DOMAIN res
      BY <2>2, BlankStatus DEF Stored
    <3>2. Good(at, k, Filled(Req(at, k), res[k]))
      BY <1>1, <3>1, FilledIsGood
    <3>. QED
      BY <2>2, <3>2
  <2>. QED
    BY <2>1, <2>2
<1> HIDE DEF passed
<1>4. open \subseteq Keys(at)
  OBVIOUS
<1> HIDE DEF open
<1>5. /\ DOMAIN res' = DOMAIN res \cup open
      /\ \A k \in open : res'[k] = passed(k)
      /\ \A k \in DOMAIN res \ open : res'[k] = res[k]
  BY <1>2
<1>6. \A k \in open : IsResult(res'[k]) /\ Good(at, k, res'[k])
  BY <1>3, <1>5 DEF Good
<1>. QED
  BY <1>1, <1>2, <1>4, <1>5, <1>6, ActType, JudgingKeepsResults

LEMMA ConfirmKeepsResults ==
    ASSUME Results, NEW K, K \subseteq DOMAIN res, Confirm(K)
    PROVE  Results'
<1>1. /\ at \in DOMAIN File /\ acts \in 0..MaxActs
      /\ \A j \in DOMAIN res : IsResult(res[j]) /\ (j \in Keys(at) => Follows(at, j, res[j]))
  BY DEF Results, Shape, StatusFollowsMarks, Follows
<1> DEFINE L == {k \in K : res[k].review}
<1>2. /\ Act /\ at' = at /\ stale' = stale
      /\ res' = [k \in DOMAIN res |-> IF k \in L THEN Confirmed(k) ELSE res[k]]
  BY DEF Confirm
<1>3. ASSUME NEW k \in L
      PROVE  IsResult(Confirmed(k)) /\ (k \in Keys(at) => Good(at, k, Confirmed(k)))
  <2>1. CASE k \in Keys(at)
    <3>1. Good(at, k, Confirmed(k))
      BY <1>1, <2>1, SettledIsGood DEF Confirmed
    <3>. QED
      BY <3>1 DEF Good
  <2>2. CASE k \notin Keys(at)
    <3> DEFINE x == res[k]
    <3>1. Confirmed(k) = [x EXCEPT !.review = FALSE]
      BY <2>2 DEF Confirmed
    <3>2. IsResult(x)
      BY <1>1
    <3> HIDE DEF x
    <3> DEFINE z == [x EXCEPT !.review = FALSE]
    <3>3. IsResult(z)
      BY <3>2, ResultFields
    <3>. QED
      BY <2>2, <3>1, <3>3
  <2>. QED
    BY <2>1, <2>2
<1>4. L \subseteq DOMAIN res
  OBVIOUS
<1> HIDE DEF L
<1>5. /\ DOMAIN res' = DOMAIN res \cup L
      /\ \A k \in L : res'[k] = Confirmed(k)
      /\ \A k \in DOMAIN res \ L : res'[k] = res[k]
  BY <1>2, <1>4
<1>6. \A k \in L : IsResult(res'[k]) /\ (k \in Keys(at) => Good(at, k, res'[k]))
  BY <1>3, <1>5
<1>. QED
  BY <1>1, <1>2, <1>4, <1>5, <1>6, ActType, JudgingKeepsResults

LEMMA FireKeepsResults ==
    ASSUME Results, ClickOk, Fire
    PROVE  Results'
<1>1. at \in DOMAIN File /\ acts \in 0..MaxActs
  BY DEF Results, Shape
<1>8. PICK f \in DOMAIN File : \E k \in Keys(f) : \E y :
        click = [key |-> k, of |-> f, result |-> y] /\ IsResult(y) /\ y.on = Req(f, k)
  BY DEF Fire, ClickOk
<1>9. PICK k \in Keys(f) : \E y :
        click = [key |-> k, of |-> f, result |-> y] /\ IsResult(y) /\ y.on = Req(f, k)
  BY <1>8
<1>2. PICK y :
        click = [key |-> k, of |-> f, result |-> y] /\ IsResult(y) /\ y.on = Req(f, k)
  BY <1>9
<1>3. click.key = k /\ click.of = f /\ click.result = y
  BY <1>2
<1> DEFINE x == IF k \in Keys(at) THEN Settled(Req(at, k), y) ELSE y
           same == k \in DOMAIN res /\ Said(x) = Said(res[k])
<1>4. /\ res' = IF same \/ k \notin Keys(at) THEN res ELSE Put(k, x)
      /\ stale' = (stale \/ (~same /\ f # at))
      /\ at' = at /\ acts' = acts
  BY <1>3 DEF Fire
<1>5. x.on = y.on /\ IsResult(x) /\ (k \in Keys(at) => Follows(at, k, x))
  BY <1>2, SettledFacts DEF Follows
<1> HIDE DEF x, same
<1>6. CASE same \/ k \notin Keys(at)
  <2>1. res' = res /\ (stale => stale')
    BY <1>4, <1>6
  <2>. QED
    BY <1>1, <1>4, <2>1, NothingKeepsResults
<1>7. CASE ~same /\ k \in Keys(at)
  <2>1. res' = Put(k, x)
    BY <1>4, <1>7
  <2>2. CASE f = at
    <3>1. Good(at, k, x)
      BY <1>2, <1>5, <1>7, <2>2 DEF Good
    <3>. QED
      BY <1>1, <1>4, <1>7, <2>1, <3>1, PutKeepsResults
  <2>3. CASE f # at
    <3>1. stale'
      BY <1>4, <1>7, <2>3
    <3>2. DOMAIN res' = DOMAIN res \cup {k} /\ res'[k] = x /\ \A j \in DOMAIN res \ {k} : res'[j] = res[j]
      BY <2>1 DEF Put
    <3>3. ASSUME NEW j \in DOMAIN res'
          PROVE  j \in AllKeys /\ IsResult(res'[j]) /\ (j \in Keys(at) => Follows(at, j, res'[j]))
      <4>1. CASE j = k
        BY <1>1, <1>5, <1>7, <3>2, <4>1, KeyType
      <4>2. CASE j # k
        BY <3>2, <4>2 DEF Results, Shape, StatusFollowsMarks, Follows
      <4>. QED
        BY <4>1, <4>2
    <3>4. Shape'
      BY <1>1, <1>4, <3>3 DEF Shape
    <3>5. StatusFollowsMarks'
      BY <1>4, <3>3 DEF StatusFollowsMarks, Follows
    <3>6. ResultsHaveRequirements' /\ JudgedAsItReads'
      BY <3>1 DEF ResultsHaveRequirements, JudgedAsItReads
    <3>. QED
      BY <3>4, <3>5, <3>6 DEF Results
  <2>. QED
    BY <2>2, <2>3
<1>. QED
  BY <1>6, <1>7

LEMMA ClickIsOk ==
    ASSUME Results, NEW k \in Keys(at), Click(k)
    PROVE  ClickOk'
<1>1. at \in DOMAIN File /\ \A j \in DOMAIN res : IsResult(res[j])
  BY DEF Results, Shape
<1> DEFINE y == Opened(k)
           b == Req(at, k)
           y1 == [y EXCEPT !.review = FALSE]
           y2 == [y1 EXCEPT !.on = b]
<1>2. click' = [key |-> k, of |-> at, result |-> [y EXCEPT !.review = FALSE, !.on = b]]
  BY DEF Click
<1>3. [y EXCEPT !.review = FALSE, !.on = b] = y2
  OBVIOUS
<1>4. IsResult(y) /\ b \in Readings
  BY <1>1, OpenedFacts, RequirementType
<1> HIDE DEF y
<1>5. IsResult(y1)
  BY <1>4, ResultFields
<1> HIDE DEF y1
<1> HIDE DEF b
<1>6. IsResult(y2) /\ y2.on = b
  BY <1>4, <1>5, ResultFields
<1>7. click' = [key |-> k, of |-> at, result |-> y2]
  BY <1>2, <1>3
<1> HIDE DEF y2
<1>. QED
  BY <1>1, <1>6, <1>7 DEF ClickOk, b

-----------------------------------------------------------------------------
LEMMA InitInv == Init => Inv
<1> SUFFICES ASSUME Init PROVE Inv
  OBVIOUS
<1>1. at = 1 /\ acts = 0 /\ DOMAIN res = {} /\ report = NoReport /\ click = NoClick
  BY DEF Init
<1>2. 1 \in DOMAIN File
  BY FileIsSeq
<1>3. Shape
  BY <1>1, <1>2, BoundAssumption DEF Shape
<1>4. StatusFollowsMarks /\ ResultsHaveRequirements /\ JudgedAsItReads
  BY <1>1 DEF StatusFollowsMarks, ResultsHaveRequirements, JudgedAsItReads
<1>. QED
  BY <1>1, <1>3, <1>4 DEF Inv, Results, ReportOk, ClickOk

LEMMA StepInv == Inv /\ [Next]_vars => Inv'
<1> SUFFICES ASSUME Inv, [Next]_vars PROVE Inv'
  OBVIOUS
<1>1. Results /\ ReportOk /\ ClickOk
  BY DEF Inv
<1>2. at \in DOMAIN File /\ acts \in 0..MaxActs
  BY <1>1 DEF Results, Shape
<1>3. report' = report => ReportOk'
  BY <1>1 DEF ReportOk
<1>4. click' \in {click, NoClick} => ClickOk'
  <2>1. click' = NoClick => ClickOk'
    BY DEF ClickOk
  <2>2. click' = click => ClickOk'
    BY <1>1 DEF ClickOk
  <2>. QED
    BY <2>1, <2>2
<1>5. ASSUME NEW k \in Keys(at), Judge(k)
      PROVE  Inv'
  <2>1. report' = report /\ click' = click
    BY <1>5 DEF Judge, Press, PressCriterion
  <2>. QED
    BY <1>1, <1>3, <1>4, <1>5, <2>1, PressKeepsResults DEF Inv
<1>6. ASSUME NEW k \in Keys(at), Click(k)
      PROVE  Inv'
  <2>1. /\ at' = at /\ res' = res /\ stale' = stale /\ report' = report /\ Act
    BY <1>6 DEF Click
  <2>. QED
    BY <1>1, <1>2, <1>3, <1>6, <2>1, ActType, NothingKeepsResults, ClickIsOk DEF Inv
<1>7. ASSUME NEW K, K \subseteq Keys(at), BulkPass(K)
      PROVE  Inv'
  <2>1. report' = report /\ click' = click
    BY <1>7 DEF BulkPass
  <2>. QED
    BY <1>1, <1>3, <1>4, <1>7, <2>1, BulkPassKeepsResults DEF Inv
<1>8. CASE Fire
  <2>1. report' = report /\ click' = NoClick
    BY <1>8 DEF Fire
  <2>. QED
    BY <1>1, <1>3, <1>4, <1>8, <2>1, FireKeepsResults DEF Inv
<1>9. ASSUME NEW K, K \subseteq DOMAIN res, Confirm(K)
      PROVE  Inv'
  <2>1. report' = report /\ click' = click
    BY <1>9 DEF Confirm
  <2>. QED
    BY <1>1, <1>3, <1>4, <1>9, <2>1, ConfirmKeepsResults DEF Inv
<1>10. ASSUME NEW n \in DOMAIN File, Analyze(n)
       PROVE  Inv'
  <2>1. at' = at /\ res' = res /\ stale' = stale /\ acts' = acts /\ report' = Report(at, n) /\ click' = NoClick /\ at < n
    BY <1>2, <1>10, FileIsSeq DEF Analyze
  <2>2. ReportOk'
    BY <1>2, <2>1 DEF ReportOk
  <2>. QED
    BY <1>1, <1>2, <1>4, <2>1, <2>2, NothingKeepsResults DEF Inv
<1>11. ASSUME NEW n \in DOMAIN File, Elsewhere(n)
       PROVE  Inv'
  <2>1. Apply(Report(at, n)) /\ report' = report /\ click' = click /\ stale' = stale /\ Act
    BY <1>11 DEF Elsewhere
  <2>2. Report(at, n).to = n
    BY DEF Report
  <2>3. Results'
    BY <1>1, <1>2, <2>1, <2>2, ActType, AppliedKeepsResults
  <2>. QED
    BY <1>3, <1>4, <2>1, <2>3 DEF Inv
<1>12. CASE Abandon
  <2>1. at' = at /\ res' = res /\ stale' = stale /\ acts' = acts /\ report' = NoReport /\ click' = click
    BY <1>12 DEF Abandon
  <2>2. ReportOk'
    BY <2>1 DEF ReportOk
  <2>. QED
    BY <1>1, <1>2, <1>4, <2>1, <2>2, NothingKeepsResults DEF Inv
<1>13. CASE Update
  <2>1. /\ report # NoReport /\ Apply(report) /\ stale' = (stale \/ report.of # at)
        /\ report' = NoReport /\ click' = click /\ acts' = acts
    BY <1>13 DEF Update
  <2>2. PICK f, n \in DOMAIN File : report = Report(f, n)
    BY <1>1, <2>1 DEF ReportOk
  <2>3. report.of = f /\ report.to = n
    BY <2>2 DEF Report
  <2>4. ~stale' => report = Report(at, report.to)
    BY <2>1, <2>2, <2>3
  <2>5. Results'
    BY <1>1, <1>2, <2>1, <2>3, <2>4, AppliedKeepsResults
  <2>6. ReportOk'
    BY <2>1 DEF ReportOk
  <2>. QED
    BY <1>4, <2>1, <2>5, <2>6 DEF Inv
<1>14. CASE UNCHANGED vars
  <2>1. at' = at /\ res' = res /\ stale' = stale /\ acts' = acts /\ report' = report /\ click' = click
    BY <1>14 DEF vars
  <2>. QED
    BY <1>1, <1>2, <1>3, <1>4, <2>1, NothingKeepsResults DEF Inv
<1>15. ASSUME NEW k \in Keys(at), BulkPass({k}) PROVE Inv'
  BY <1>7, <1>15
<1>16. ASSUME NEW k \in DOMAIN res, Confirm({k}) PROVE Inv'
  BY <1>9, <1>16
<1>17. BulkPass(Keys(at)) => Inv'
  BY <1>7
<1>18. Confirm(DOMAIN res) => Inv'
  BY <1>9
<1>. QED
  BY <1>5, <1>6, <1>8, <1>10, <1>11, <1>12, <1>13, <1>14, <1>15, <1>16, <1>17, <1>18 DEF Next

(* What the theorems below rest on: beside the four properties, reports compare two
   versions and a waiting confirmation was judged as its requirement read at the click. *)
THEOREM ResultsStand == Spec => []Inv
  BY InitInv, StepInv, PTL DEF Spec

LEMMA InvTypes == Inv => TypeOK
<1> SUFFICES ASSUME Inv PROVE TypeOK
  OBVIOUS
<1>1. Shape
  BY DEF Inv, Results
<1>2. ASSUME NEW k \in DOMAIN res
      PROVE  /\ k \in UNION {Keys(f) : f \in DOMAIN File}
             /\ res[k].status \in Status /\ res[k].review \in BOOLEAN /\ res[k].on \in Readings
             /\ \A d \in DOMAIN res[k].checks : IsEntry(res[k].checks[d])
  BY <1>1 DEF Shape, IsResult, IsChecks, AllKeys
<1>3. ASSUME NEW c, IsEntry(c)
      PROVE  /\ c.overall \in {"not_audited", "passed", "not_applicable"}
             /\ c.status \in Status
             /\ \A p \in DOMAIN c.pcs : c.pcs[p] \in {"not_audited", "passed", "failed"}
  BY <1>3 DEF IsEntry, Mark
<1>4. \A k \in DOMAIN res : res[k].on \in Requirements \cup {Unread}
  BY <1>2 DEF Readings
<1>. QED
  BY <1>1, <1>2, <1>3, <1>4 DEF TypeOK, Shape

(* Types: whatever is pressed, filled in, carried over or reloaded, a result is a result
   of a requirement of some version, with marks the views can show. *)
THEOREM TypeCorrect == Spec => []TypeOK
  BY ResultsStand, InvTypes, PTL

(* The stored status follows from the marks and the rule file the audit has now, also
   after an update on the strength of an old report (recalculateStatusesOnLoad). *)
THEOREM StatusesFollow == Spec => []StatusFollowsMarks
<1>1. Inv => StatusFollowsMarks
  BY DEF Inv, Results
<1>. QED
  BY <1>1, ResultsStand, PTL

(* Unless a report of another version was applied, every result has its requirement in
   the rule file (analyze_rule_file_changes, apply_rule_file_update). *)
THEOREM NoOrphans == Spec => []ResultsHaveRequirements
<1>1. Inv => ResultsHaveRequirements
  BY DEF Inv, Results
<1>. QED
  BY <1>1, ResultsStand, PTL

(* Unless a report, or a confirmation, of another version was applied, an assessment
   that is not marked for review was made of the requirement as it reads now, in the fields
   that has_requirement_content_changed compares. *)
THEOREM AssessedAsItReads == Spec => []JudgedAsItReads
<1>1. Inv => JudgedAsItReads
  BY DEF Inv, Results
<1>. QED
  BY <1>1, ResultsStand, PTL


-----------------------------------------------------------------------------
(* An update loses no work, unless requirements merge. *)

(* No two requirements of one version come to one requirement of a later one: by
   their keys, or by a name one of them takes over from the other. *)
NothingMerges ==
    \A f, n \in DOMAIN File : f < n =>
        \A k, l \in Keys(f) : Home(f, n, k) = Home(f, n, l) => k = l

IsList(s) == Len(s) \in Nat /\ DOMAIN s = 1..Len(s) /\ IdsDiffer(s)

LEMMA SeqIsList == ASSUME NEW s, IsSeq(s), IdsDiffer(s) PROVE IsList(s)
<1>1. s \in Seq(ToSet(s))
  BY DEF IsSeq
<1>. QED
  BY <1>1 DEF IsList

LEMMA ListsOfChecks ==
    ASSUME NEW f \in DOMAIN File, NEW k \in Keys(f)
    PROVE  /\ IsList(Req(f, k).checks)
           /\ \A c \in ToSet(Req(f, k).checks) : /\ IsList(c.pcs)
                                                 /\ c.id \in Ids(Req(f, k).checks)
                                                 /\ Def(Req(f, k).checks, c.id) = c
<1> DEFINE r == Req(f, k)
           s == r.checks
<1>1. r \in ToSet(File[f])
  BY Requirement DEF ToSet
<1>2. /\ IsSeq(s) /\ IdsDiffer(s)
      /\ \A c \in ToSet(s) : IsSeq(c.pcs) /\ IdsDiffer(c.pcs)
  BY <1>1, FileShape
<1> HIDE DEF r, s
<1>3. IsList(s) /\ \A c \in ToSet(s) : IsList(c.pcs)
  BY <1>2, SeqIsList
<1>4. ASSUME NEW c \in ToSet(s)
      PROVE  c.id \in Ids(s) /\ Def(s, c.id) = c
  <2>1. PICK i \in DOMAIN s : c = s[i]
    BY DEF ToSet
  <2>2. c.id \in Ids(s)
    BY <2>1 DEF Ids
  <2>3. PICK j \in DOMAIN s : Def(s, c.id) = s[j] /\ s[j].id = c.id
    BY <2>2, Definition
  <2>4. j = i
    BY <1>2, <2>1, <2>3 DEF IdsDiffer
  <2>. QED
    BY <2>1, <2>2, <2>3, <2>4
<1>. QED
  BY <1>3, <1>4 DEF r, s

LEMMA OnceIsFirst ==
    ASSUME NEW s, IsList(s), NEW i \in DOMAIN s, Once(s, s[i].text)
    PROVE  Nth(s, i) = 1
<1> DEFINE A == {j \in 1..i : s[j].text = s[i].text}
           O == {j \in DOMAIN s : s[j].text = s[i].text}
<1>1. IsFiniteSet(DOMAIN s) /\ O \in SUBSET DOMAIN s
  BY FS_Interval DEF IsList
<1>2. i \in O /\ i \in A /\ A \subseteq O
  BY DEF IsList
<1>3. Cardinality(O) = 1 /\ Nth(s, i) = Cardinality(A)
  BY DEF Once, Nth
<1> HIDE DEF A, O
<1>4. IsFiniteSet(O)
  BY <1>1, FS_Subset
<1>5. PICK x : O = {x}
  BY <1>3, <1>4, FS_Singleton
<1>6. A = {i}
  BY <1>2, <1>5
<1>. QED
  BY <1>3, <1>6, FS_Singleton

(* Where the text is the same and there once, the entry of the old id is that of the new. *)
LEMMA MovedWhere ==
    ASSUME NEW old, NEW new, NEW m, IsList(old), IsList(new),
           NEW a \in ToSet(old), NEW b \in ToSet(new), a.text = b.text,
           Once(old, a.text), Once(new, b.text)
    PROVE  LET y == Moved(old, new, m) IN
           /\ b.id \in DOMAIN y <=> a.id \in DOMAIN m
           /\ b.id \in DOMAIN y => y[b.id] = <<a.id, m[a.id]>>
<1> DEFINE ids == PairIds(old, new)
           from(d) == (CHOOSE q \in ids : q[2] = d)[1]
           D == {q[2] : q \in {z \in ids : z[1] \in DOMAIN m}}
           y == [d \in D |-> <<from(d), m[from(d)]>>]
           ab == <<a.id, b.id>>
<1>1. Moved(old, new, m) = y
  BY DEF Moved, PairIds
<1>2. PICK i \in DOMAIN old, j \in DOMAIN new : a = old[i] /\ b = new[j]
  BY DEF ToSet
<1>3. Nth(old, i) = 1 /\ Nth(new, j) = 1
  BY <1>2, OnceIsFirst
<1>4. <<i, j>> \in Paired(old, new)
  BY <1>2, <1>3 DEF Paired
<1>5. ab \in ids
  BY <1>2, <1>4 DEF PairIds
<1>6. DOMAIN old \subseteq Nat /\ IdsDiffer(new)
  BY DEF IsList
<1>7. \A q \in ids : q[2] = b.id => q = ab
  BY <1>5, <1>6, PairedIds
<1>8. ab[1] = a.id /\ ab[2] = b.id
  OBVIOUS
<1> HIDE DEF ids, ab
<1>9. b.id \in D <=> a.id \in DOMAIN m
  BY <1>5, <1>7, <1>8
<1>10. from(b.id) = a.id
  <2> DEFINE q == CHOOSE p \in ids : p[2] = b.id
  <2>1. q \in ids /\ q[2] = b.id
    BY <1>5, <1>8
  <2>2. from(b.id) = q[1]
    OBVIOUS
  <2> HIDE DEF q, from
  <2>. QED
    BY <1>7, <1>8, <2>1, <2>2
<1> HIDE DEF D, from
<1>11. DOMAIN y = D /\ \A d \in D : y[d] = <<from(d), m[from(d)]>>
  OBVIOUS
<1> HIDE DEF y
<1>. QED
  BY <1>1, <1>9, <1>10, <1>11

LEMMA MovedStatus ==
    ASSUME NEW old, NEW new, NEW m, IsList(old), IsList(new),
           NEW a \in ToSet(old), NEW b \in ToSet(new), a.text = b.text,
           Once(old, a.text), Once(new, b.text)
    PROVE  LET p == Moved(old, new, m) IN
           \A z : z = [q \in DOMAIN p |-> p[q][2]] => StatusOf(z, b.id) = StatusOf(m, a.id)
<1> DEFINE p == Moved(old, new, m)
<1>1. /\ b.id \in DOMAIN p <=> a.id \in DOMAIN m
      /\ b.id \in DOMAIN p => p[b.id] = <<a.id, m[a.id]>>
  BY MovedWhere
<1> HIDE DEF p
<1>2. ASSUME NEW z, z = [q \in DOMAIN p |-> p[q][2]]
      PROVE  StatusOf(z, b.id) = StatusOf(m, a.id)
  BY <1>1, <1>2 DEF StatusOf
<1>. QED
  BY <1>2 DEF p

LEMMA RemappedMarks ==
    ASSUME NEW f \in DOMAIN File, NEW k \in Keys(f), NEW n \in DOMAIN File, NEW h \in Keys(n),
           NEW x, IsChecks(x.checks), NEW y,
           Marked(y.checks, Remapped(Req(f, k), Req(n, h), x.checks))
    PROVE  SameMarks(Req(f, k), x, Req(n, h), y)
<1> DEFINE old == Req(f, k)
           new == Req(n, h)
<1> SUFFICES ASSUME NEW c \in ToSet(old.checks), NEW d \in ToSet(new.checks),
                    c.text = d.text, Once(old.checks, c.text), Once(new.checks, c.text),
                    c.id \in DOMAIN x.checks
             PROVE  /\ d.id \in DOMAIN y.checks
                    /\ y.checks[d.id].overall = x.checks[c.id].overall
                    /\ \A p \in ToSet(c.pcs), o \in ToSet(d.pcs) :
                         p.text = o.text /\ Once(c.pcs, p.text) /\ Once(d.pcs, o.text)
                           => StatusOf(y.checks[d.id].pcs, o.id) = StatusOf(x.checks[c.id].pcs, p.id)
  BY DEF SameMarks
<1> DEFINE moved == Moved(old.checks, new.checks, x.checks)
           pp(i) == Moved(Def(old.checks, moved[i][1]).pcs, Def(new.checks, i).pcs, moved[i][2].pcs)
           pcs(i) == [q \in DOMAIN pp(i) |-> pp(i)[q][2]]
           e(i) == [moved[i][2] EXCEPT !.pcs = pcs(i)]
           M == [i \in DOMAIN moved |-> e(i)]
           g == x.checks[c.id]
<1>1. Remapped(old, new, x.checks) = M
  BY DEF Remapped
<1>2. /\ IsList(old.checks) /\ IsList(new.checks) /\ IsList(c.pcs) /\ IsList(d.pcs)
      /\ Def(old.checks, c.id) = c /\ Def(new.checks, d.id) = d
  BY ListsOfChecks
<1>3. d.id \in DOMAIN moved /\ moved[d.id] = <<c.id, g>>
  BY <1>2, MovedWhere
<1> HIDE DEF moved
<1>4. IsEntry(g)
  BY DEF IsChecks
<1>5. moved[d.id][1] = c.id /\ moved[d.id][2] = g
  BY <1>3
<1> DEFINE pd == Moved(c.pcs, d.pcs, g.pcs)
           z == [q \in DOMAIN pd |-> pd[q][2]]
           v == [g EXCEPT !.pcs = z]
<1>6. e(d.id) = v
  BY <1>2, <1>5
<1>7. ASSUME NEW p \in ToSet(c.pcs), NEW o \in ToSet(d.pcs),
             p.text = o.text, Once(c.pcs, p.text), Once(d.pcs, o.text)
      PROVE  StatusOf(z, o.id) = StatusOf(g.pcs, p.id)
  BY <1>2, <1>7, MovedStatus
<1>8. v.overall = g.overall /\ v.pcs = z
  <2>1. g = [overall |-> g.overall, status |-> g.status, pcs |-> g.pcs]
    BY <1>4 DEF IsEntry
  <2> HIDE DEF z, g
  <2>. QED
    BY <2>1
<1> HIDE DEF z, v, e
<1>9. d.id \in DOMAIN M /\ M[d.id] = v
  BY <1>3, <1>6
<1>10. Marked(y.checks, M)
  BY <1>1
<1> HIDE DEF M
<1>11. d.id \in DOMAIN y.checks /\ y.checks[d.id].overall = v.overall /\ y.checks[d.id].pcs = v.pcs
  BY <1>9, <1>10 DEF Marked
<1>. QED
  BY <1>7, <1>8, <1>11 DEF g

LEMMA LastOfSome ==
    ASSUME NEW n \in Nat, NEW S, S \subseteq 1..n, S # {}
    PROVE  \E j \in S : \A l \in S : l <= j
<1> DEFINE C == {i..n : i \in S}
<1>1. S \subseteq Nat /\ \A i \in S : i <= n
  OBVIOUS
<1>2. C # {} /\ C \subseteq FiniteSubsetsOf(Nat)
  <2>1. ASSUME NEW i \in S PROVE i..n \in SUBSET Nat /\ IsFiniteSet(i..n)
    BY <1>1, FS_Interval
  <2>. QED
    BY <2>1 DEF FiniteSubsetsOf
<1> HIDE DEF C
<1>3. PICK c \in C : \A d \in C : <<d, c>> \notin StrictSubsetOrdering(Nat)
  BY <1>2, FS_StrictSubsetOrderingWellFounded, WFMin
<1>4. PICK j \in S : c = j..n
  BY DEF C
<1>5. ASSUME NEW l \in S, j < l PROVE FALSE
  <2>1. l..n \in C /\ l..n \in SUBSET Nat /\ j..n \in SUBSET Nat
    BY <1>1 DEF C
  <2>2. l..n \subseteq j..n /\ j \in j..n /\ j \notin l..n
    BY <1>1, <1>5
  <2>3. <<l..n, j..n>> \in StrictSubsetOrdering(Nat)
    BY <2>1, <2>2 DEF StrictSubsetOrdering
  <2>. QED
    BY <1>3, <1>4, <2>1, <2>3
<1>6. \A l \in S : l <= j
  BY <1>1, <1>5
<1>. QED
  BY <1>6

(* A requirement that is gone lives on nowhere; one that is not, at its home. *)
LEMMA RemovedIsGone ==
    ASSUME NothingMerges, NEW f \in DOMAIN File, NEW n \in DOMAIN File, f < n,
           NEW k \in Keys(f), k \in Report(f, n).removed, NEW m \in Keys(n)
    PROVE  ~LivesOn(f, n, k, m)
<1> SUFFICES ASSUME LivesOn(f, n, k, m) PROVE FALSE
  OBVIOUS
<1> DEFINE rem == {File[f][i].key : i \in {j \in DOMAIN File[f] : Match(f, n, j) = {}}}
<1>1. Report(f, n).removed = rem
  BY DEF Report
<1>2. PICK i \in DOMAIN File[f] : File[f][i].key = k /\ Match(f, n, i) = {}
  BY <1>1
<1> HIDE DEF rem
<1>3. k \notin Keys(n)
  BY <1>2 DEF Match
<1>4. m \notin Keys(f) /\ Req(n, m).name = Req(f, k).name
  BY <1>3 DEF LivesOn
<1>5. Req(f, k) = File[f][i]
  BY <1>2, Requirement
<1>6. PICK b \in DOMAIN File[n] : Req(n, m) = File[n][b]
  BY Requirement
<1> DEFINE S == {z \in DOMAIN File[n] : File[n][z].name = File[f][i].name}
<1>7. b \in S
  BY <1>4, <1>5, <1>6
<1>8. \E j \in S : \A l \in S : l <= j
  <2>1. IsSeq(File[n])
    BY FileShape
  <2>2. File[n] \in Seq(ToSet(File[n]))
    BY <2>1 DEF IsSeq
  <2>3. DOMAIN File[n] = 1..Len(File[n]) /\ Len(File[n]) \in Nat
    BY <2>2
  <2>4. S \subseteq 1..Len(File[n]) /\ IsFiniteSet(1..Len(File[n]))
    BY <2>3, FS_Interval
  <2> HIDE DEF S
  <2>. QED
    BY <1>7, <2>3, <2>4, LastOfSome
<1>9. PICK j \in S : \A l \in S : l <= j
  BY <1>8
<1>10. j \in Named(f, n, i)
  BY <1>9 DEF Named
<1> HIDE DEF S
<1> DEFINE h == File[n][j].key
<1>11. j \in DOMAIN File[n] /\ h \in Keys(n)
  BY <1>10 DEF Named, Keys
<1>12. ASSUME NEW l \in DOMAIN File[f], File[f][l].key \notin Keys(n), File[f][l].name = File[f][i].name
       PROVE  Home(f, n, File[f][l].key) = h
  <2> DEFINE g == CHOOSE z \in DOMAIN File[f] : File[f][z].key = File[f][l].key
             w == CHOOSE z \in Named(f, n, l) : TRUE
  <2>1. Named(f, n, l) = Named(f, n, i)
    BY <1>12 DEF Named
  <2>2. g \in DOMAIN File[f] /\ File[f][g].key = File[f][l].key
    OBVIOUS
  <2> HIDE DEF g
  <2>3. g = l
    BY <2>2, FileAssumption
  <2>4. w \in Named(f, n, l)
    BY <1>10, <2>1
  <2> HIDE DEF w
  <2>5. w = j
    BY <1>10, <2>1, <2>4, NamedOnce
  <2>6. File[f][l].key \in Keys(f)
    BY DEF Keys
  <2>7. Home(f, n, File[f][l].key) = File[n][w].key
    BY <1>10, <1>12, <2>1, <2>3, <2>6 DEF Home, g, w
  <2>. QED
    BY <2>5, <2>7
<1>13. Home(f, n, k) = h
  BY <1>2, <1>3, <1>12
<1>14. PICK l \in 1..(i-1) : \/ File[f][l].key = h
                             \/ File[f][l].key \notin Keys(n) /\ File[f][l].name = File[f][i].name
  BY <1>2, <1>3, <1>10 DEF Match
<1>15. l \in DOMAIN File[f] /\ l # i
  <2>1. IsSeq(File[f])
    BY FileShape
  <2>2. File[f] \in Seq(ToSet(File[f]))
    BY <2>1 DEF IsSeq
  <2>. QED
    BY <2>2
<1>16. File[f][l].key \in Keys(f)
  BY <1>15 DEF Keys
<1>17. Home(f, n, File[f][l].key) = h
  <2>1. CASE File[f][l].key = h
    BY <1>11, <2>1 DEF Home
  <2>2. CASE File[f][l].key # h
    BY <1>12, <1>14, <1>15, <2>2
  <2>. QED
    BY <2>1, <2>2
<1>18. File[f][l].key = k
  BY <1>13, <1>16, <1>17 DEF NothingMerges
<1>. QED
  BY <1>2, <1>15, <1>18, FileAssumption

LEMMA HomeLivesOn ==
    ASSUME NothingMerges, NEW f \in DOMAIN File, NEW n \in DOMAIN File, f < n, NEW k \in Keys(f),
           k \notin Report(f, n).removed
    PROVE  LivesOn(f, n, k, Home(f, n, k))
<1> DEFINE h == Home(f, n, k)
<1>1. h \in Keys(n)
  BY ReportFacts
<1>2. CASE h = k
  BY <1>2 DEF LivesOn
<1>3. CASE h # k
  <2>1. k \notin Keys(n)
    BY <1>3 DEF Home
  <2>2. h \notin Keys(f)
    <3> SUFFICES ASSUME h \in Keys(f) PROVE FALSE
      OBVIOUS
    <3>1. Home(f, n, h) = h
      BY <1>1 DEF Home
    <3>. QED
      BY <1>3, <3>1 DEF NothingMerges
  <2>3. Req(n, h).name = Req(f, k).name
    <3> DEFINE i == CHOOSE j \in DOMAIN File[f] : File[f][j].key = k
               j == CHOOSE l \in Named(f, n, i) : TRUE
    <3>1. Named(f, n, i) # {} /\ h = File[n][j].key
      BY <1>3 DEF Home
    <3>2. j \in DOMAIN File[n] /\ File[n][j].name = File[f][i].name
      BY <3>1 DEF Named
    <3>3. Req(f, k) = File[f][i]
      BY DEF Req
    <3> HIDE DEF i, j, h
    <3>4. Req(n, h) = File[n][j]
      BY <1>1, <3>1, <3>2, Requirement
    <3>. QED
      BY <3>2, <3>3, <3>4
  <2>. QED
    BY <2>1, <2>2, <2>3 DEF LivesOn
<1>. QED
  BY <1>2, <1>3

Survives ==
    at' # at /\ ~stale' =>
         \A k \in DOMAIN res \cap Keys(at) :
            \/ \E m \in DOMAIN res' \cap Keys(at') :
                  LivesOn(at, at', k, m) /\ SameMarks(Req(at, k), res[k], Req(at', m), res'[m])
            \/ /\ \A m \in Keys(at') : ~LivesOn(at, at', k, m)
               /\ [key |-> k, of |-> at, checks |-> res[k].checks] \in archive'

LEMMA AppliedSurvives ==
    ASSUME NothingMerges, Results, ~stale, NEW n \in DOMAIN File, at < n, Apply(Report(at, n))
    PROVE  Survives
<1> DEFINE rep == Report(at, n)
           kept == DOMAIN res \ rep.removed
           home == [k \in kept |-> Home(at, rep.to, k)]
<1>1. rep.to = n
  BY DEF Report
<1>2. PICK last \in [{home[k] : k \in kept} -> kept] :
         /\ \A h \in DOMAIN last : home[last[h]] = h
         /\ res' = [h \in DOMAIN last |-> Carried(rep, last[h], h)]
  BY DEF Apply
<1>3. /\ at' = n
      /\ archive' = archive \cup {[key |-> k, of |-> at, checks |-> res[k].checks] : k \in DOMAIN res \cap rep.removed}
  BY <1>1 DEF Apply
<1>4. at \in DOMAIN File /\ \A k \in DOMAIN res : k \in Keys(at) /\ IsResult(res[k])
  BY DEF Results, Shape, ResultsHaveRequirements
<1> SUFFICES ASSUME NEW k \in DOMAIN res
             PROVE  \/ \E m \in DOMAIN res' \cap Keys(n) :
                         LivesOn(at, n, k, m) /\ SameMarks(Req(at, k), res[k], Req(n, m), res'[m])
                    \/ /\ \A m \in Keys(n) : ~LivesOn(at, n, k, m)
                       /\ [key |-> k, of |-> at, checks |-> res[k].checks] \in archive'
  BY <1>3 DEF Survives
<1>5. k \in Keys(at)
  BY <1>4
<1>6. CASE k \in rep.removed
  <2>1. \A m \in Keys(n) : ~LivesOn(at, n, k, m)
    BY <1>4, <1>5, <1>6, RemovedIsGone
  <2>2. [key |-> k, of |-> at, checks |-> res[k].checks] \in archive'
    BY <1>3, <1>6
  <2>. QED
    BY <2>1, <2>2
<1>7. CASE k \notin rep.removed
  <2> DEFINE h == Home(at, n, k)
  <2>1. k \in kept /\ h = home[k]
    BY <1>1, <1>7
  <2>2. h \in {home[j] : j \in kept}
    BY <2>1
  <2>3. h \in DOMAIN last /\ last[h] \in kept /\ home[last[h]] = h
    BY <1>2, <2>2
  <2>4. Home(at, n, last[h]) = h /\ last[h] \in Keys(at)
    BY <1>1, <1>4, <2>3
  <2>5. last[h] = k
    BY <1>4, <1>5, <2>4 DEF NothingMerges
  <2>6. h \in DOMAIN res' /\ res'[h] = Carried(rep, k, h)
    BY <1>2, <2>3, <2>5
  <2>7. h \in Keys(n) /\ LivesOn(at, n, k, h)
    BY <1>4, <1>5, <1>7, ReportFacts, HomeLivesOn
  <2> HIDE DEF h, home, kept
  <2> DEFINE y == Carried(rep, k, h)
  <2>8. Marked(y.checks, Remapped(Req(at, k), Req(n, h), res[k].checks))
    BY <1>1, <1>4, <1>5, <2>7, CarriedFacts
  <2> HIDE DEF y
  <2>9. IsChecks(res[k].checks)
    BY <1>4 DEF IsResult
  <2>10. SameMarks(Req(at, k), res[k], Req(n, h), y)
    BY <1>4, <1>5, <2>7, <2>8, <2>9, RemappedMarks
  <2>. QED
    BY <2>6, <2>7, <2>10 DEF y
<1>. QED
  BY <1>6, <1>7

LEMMA StepSurvives == NothingMerges /\ Inv /\ [Next]_vars => Survives
<1> SUFFICES ASSUME NothingMerges, Inv, [Next]_vars, at' # at, ~stale' PROVE Survives
  BY DEF Survives
<1>1. Results /\ ReportOk /\ at \in DOMAIN File
  BY DEF Inv, Results, Shape
<1>2. Update \/ \E n \in DOMAIN File : Elsewhere(n)
  <2>1. at' = at => FALSE
    OBVIOUS
  <2>2. Fire \/ Abandon => at' = at
    BY DEF Fire, Abandon
  <2>3. \A K : BulkPass(K) \/ Confirm(K) => at' = at
    BY DEF BulkPass, Confirm
  <2>4. \A k : Judge(k) \/ Click(k) => at' = at
    BY DEF Judge, Press, PressCriterion, Click
  <2>5. \A n : Analyze(n) => at' = at
    BY DEF Analyze
  <2>6. Next
    BY DEF vars
  <2>. QED
    BY <2>1, <2>2, <2>3, <2>4, <2>5, <2>6 DEF Next
<1>3. ASSUME NEW n \in DOMAIN File, Elsewhere(n)
      PROVE  Survives
  <2>1. Apply(Report(at, n)) /\ ~stale /\ at < n
    BY <1>1, <1>3, FileIsSeq DEF Elsewhere
  <2>. QED
    BY <1>1, <2>1, AppliedSurvives
<1>4. CASE Update
  <2>1. report # NoReport /\ Apply(report) /\ stale' = (stale \/ report.of # at)
    BY <1>4 DEF Update
  <2>2. PICK f, n \in DOMAIN File : f < n /\ report = Report(f, n)
    BY <1>1, <2>1 DEF ReportOk
  <2>3. report.of = f
    BY <2>2 DEF Report
  <2>4. f = at /\ ~stale
    BY <2>1, <2>3
  <2>. QED
    BY <1>1, <2>1, <2>2, <2>4, AppliedSurvives
<1>. QED
  BY <1>2, <1>3, <1>4

(* Unless requirements merge, or a report of another version is applied, an update of the
   rule file moves every mark to the text it was set for and archives what is gone
   (build_check_and_pc_id_mappings, remap_requirement_result_to_new_ids). *)
THEOREM WorkSurvives == NothingMerges => (Spec => WorkSurvivesUpdate)
<1> SUFFICES ASSUME NothingMerges PROVE Spec => WorkSurvivesUpdate
  OBVIOUS
<1>1. Inv /\ [Next]_vars => [Survives]_vars
  BY StepSurvives
<1>. QED
  BY <1>1, ResultsStand, PTL DEF Spec, WorkSurvivesUpdate, Survives


=============================================================================
