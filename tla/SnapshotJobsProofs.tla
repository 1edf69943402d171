------------------------- MODULE SnapshotJobsProofs -------------------------
(***************************************************************************)
(* Proofs about SnapshotJobs, for any number of captures, samples, audits  *)
(* and hosts, every limit of the semaphores and every bound: types, that   *)
(* the browsers are bounded, that no wakeup is lost, and that rows and     *)
(* archives belong together.                                               *)
(*                                                                         *)
(* A woken waiter counts itself in a microtask of its own, and until then  *)
(* its slot looks free.  The invariant says of each semaphore who stands   *)
(* in its line and who counts, and which woken job a free slot is for.     *)
(***************************************************************************)
EXTENDS SnapshotJobs, SequenceTheorems, FiniteSetTheorems, WellFoundedInduction, TLAPS

(* The jobs of T that stand, according to f, at one of the places S. *)
Those(f, S, T) == {j \in T : f[j] \in S}
On(h)          == {j \in Job : HostOf[j] = h}

(* The sequence s has each job of S once and no other. *)
Exactly(s, S) == /\ s \in Seq(Job)
                 /\ \A i, k \in 1..Len(s) : s[i] = s[k] => i = k
                 /\ \A j \in Job : j \in S <=> \E i \in 1..Len(s) : s[i] = j

MicroPc == {"wokenhost", "hashost", "wokenbrowser", "wokenpackage"}

(* s is the line of the jobs of T that stand at one of the places S. *)
Line(f, S, T, s) == Exactly(s, Those(f, S, T))

(* Who waits stands in the line it waits in, once. *)
Lines(f, q, b, p, h, m) ==
  /\ Line(f, {"queued"}, Job, q)
  /\ Line(f, {"waitbrowser"}, Job, b.waiting)
  /\ Line(f, {"waitpackage"}, Job, p.waiting)
  /\ \A x \in Host : Line(f, {"waithost"}, On(x), h[x].waiting)
  /\ Line(f, MicroPc, Job, m)

InLine == Lines(pc, queue, browser, package, host, micro)

(* n jobs of T, no fewer, stand at one of the places S. *)
Count(f, S, T, n) == IsFiniteSet(Those(f, S, T)) /\ n = Cardinality(Those(f, S, T))

(* Each slot that counts as taken is one a job holds. *)
Taken(f, b, p, h) ==
  /\ Count(f, HoldsBrowser, Job, b.active)
  /\ Count(f, {"packaging"}, Job, p.active)
  /\ \A x \in Host : Count(f, HoldsHost, On(x), h[x].active)

InUse == Taken(pc, browser, package, host)

(* A slot that is free although somebody waits for it is promised to a woken
   job; the one a browser is promised to has the next microtask, so that nobody
   else can take it, and no job is left in the queue by a pump that stopped. *)
AtMost    == browser.active <= BrowserMax
WokenNext == \A j \in Job : pc[j] = "wokenbrowser" =>
               micro # <<>> /\ Head(micro) = j /\ browser.active < BrowserMax
Pumped    == queue # <<>> => pump_running \/ browser.active >= BrowserMax
BrowserPromised == browser.waiting # <<>> =>
  \/ browser.active >= BrowserMax
  \/ browser.active + 1 >= BrowserMax /\ \E j \in Job : pc[j] = "wokenbrowser"
PackagePromised == package.waiting # <<>> =>
  \/ package.active >= PackageMax
  \/ package.active + 1 >= PackageMax /\ \E j \in Job : pc[j] = "wokenpackage"
HostPromised == \A h \in Host : host[h].waiting # <<>> =>
  \/ host[h].active >= HostMax
  \/ host[h].active + 1 >= HostMax /\ \E j \in On(h) : pc[j] = "wokenhost"

Promised == /\ AtMost /\ WokenNext /\ Pumped
            /\ BrowserPromised /\ PackagePromised /\ HostPromised

SlotInv == TypeOK /\ InLine /\ InUse /\ Promised

(* Where a capture still needs its directory. *)
Reading == {"capturing", "extended", "waitpackage", "wokenpackage", "packaging", "archiving"}

Kept(j)   == file[j] # "none" \/ Doomed(j) \/ j \in bared
Worked(j) == booting \/ j \in stranded \/ pc[j] \in (Running \ {"stuck"}) \cup {"inserted", "queued"}

(* What makes ReadyHasArchive inductive: a row is ready when its capture is
   done, a capture that reads its directory has one, and one that has archived
   its page has already what its ready row will offer. *)
RowOk(j) ==
  /\ status[j] = "ready" => pc[j] = "done" /\ Kept(j)
  /\ pc[j] \in Reading => temp[j] # "none"
  /\ status[j] # "none" /\ pc[j] \in {"archived", "superseding"} => Kept(j)
  /\ status[j] \in Unfinished => Worked(j)

(* A sweep removes the files of jobs of its sample, and of nothing when it rests. *)
Swept == \A s \in Sample : /\ sweep[s].left \subseteq sweep[s].ids
                           /\ \A j \in sweep[s].ids : SampleOf[j] = s
                           /\ sweep[s].stage = "idle" => sweep[s].ids = {}

RowsHold == Swept /\ \A j \in Job : RowOk(j)

RowInv == SlotInv /\ RowsHold
-----------------------------------------------------------------------------
(* Lines of jobs. *)

LEMMA NoLine == Exactly(<<>>, {})
  BY EmptySeq DEF Exactly

LEMMA LineEmpty ==
    ASSUME NEW S \in SUBSET Job, NEW s, Exactly(s, S)
    PROVE  s = <<>> <=> S = {}
<1>1. s \in Seq(Job) /\ Len(s) \in Nat /\ (s # <<>> => Len(s) \in Nat \ {0})
  BY EmptySeq, LenProperties DEF Exactly
<1>2. ASSUME s # <<>> PROVE S # {}
  <2>1. 1 \in 1..Len(s) /\ s[1] \in Job
    BY <1>1, <1>2, ElementOfSeq
  <2>. QED
    BY <2>1 DEF Exactly
<1>3. ASSUME s = <<>> PROVE S = {}
  <2>1. 1..Len(s) = {}
    BY <1>3, EmptySeq
  <2>. QED
    BY <2>1 DEF Exactly
<1>. QED
  BY <1>2, <1>3

LEMMA LineJoined ==
    ASSUME NEW S \in SUBSET Job, NEW s, Exactly(s, S), NEW j \in Job, j \notin S
    PROVE  /\ Exactly(Append(s, j), S \cup {j}) /\ Append(s, j) # <<>>
           /\ Head(Append(s, j)) = IF s = <<>> THEN j ELSE Head(s)
<1>. DEFINE r == Append(s, j)
            n == Len(s)
<1>1. s \in Seq(Job) /\ n \in Nat
  BY LenProperties DEF Exactly
<1>2. r \in Seq(Job) /\ Len(r) = n + 1 /\ \A i \in 1..n : r[i] = s[i]
  BY <1>1, AppendProperties
<1>3. r[n + 1] = j
  BY <1>1, AppendProperties
<1>4. \A i \in 1..n : s[i] # j
  BY DEF Exactly
<1>5. 1..Len(r) = (1..n) \cup {n + 1}
  BY <1>1, <1>2
<1>. HIDE DEF r, n
<1>6. \A i, k \in 1..Len(r) : r[i] = r[k] => i = k
  BY <1>2, <1>3, <1>4, <1>5 DEF Exactly, n
<1>7. \A k \in Job : k \in S \cup {j} <=> \E i \in 1..Len(r) : r[i] = k
  BY <1>2, <1>3, <1>5 DEF Exactly, n
<1>8. r # <<>> /\ Head(r) = r[1]
  BY <1>1, <1>2, EmptySeq
<1>9. r[1] = IF s = <<>> THEN j ELSE Head(s)
  BY <1>1, <1>2, <1>3, EmptySeq DEF n
<1>. QED
  BY <1>2, <1>6, <1>7, <1>8, <1>9 DEF Exactly, r

LEMMA LineRemoved ==
    ASSUME NEW S \in SUBSET Job, NEW s, Exactly(s, S), NEW n \in 1..Len(s)
    PROVE  s[n] \in S /\ Exactly(RemoveAt(s, n), S \ {s[n]})
<1>. DEFINE r == RemoveAt(s, n)
            a == SubSeq(s, 1, n - 1)
            b == SubSeq(s, n + 1, Len(s))
            m == Len(s)
<1>1. s \in Seq(Job) /\ m \in Nat /\ n \in Nat /\ n >= 1 /\ n <= m /\ s[n] \in Job
  BY LenProperties, ElementOfSeq DEF Exactly
<1>2. \A i \in 1..m : s[i] \in Job
  BY <1>1, ElementOfSeq
<1>3. a \in Seq(Job) /\ Len(a) = n - 1 /\ \A i \in 1..(n - 1) : a[i] = s[i]
  <2>1. \A i \in 1..(n - 1) : s[i] \in Job
    BY <1>1, <1>2
  <2>. HIDE DEF m
  <2>2. /\ a \in Seq(Job) /\ Len(a) = (IF 1 <= n - 1 THEN n - 1 - 1 + 1 ELSE 0)
        /\ \A i \in 1..(n - 1 - 1 + 1) : a[i] = s[1 + i - 1]
    BY <1>1, <2>1, SubSeqProperties
  <2>. HIDE DEF a
  <2>3. n - 1 - 1 + 1 = n - 1 /\ \A i \in 1..(n - 1) : 1 + i - 1 = i
    BY <1>1
  <2>4. Len(a) = n - 1
    BY <1>1, <2>2
  <2>. QED
    BY <2>2, <2>3, <2>4
<1>4. b \in Seq(Job) /\ Len(b) = m - n /\ \A i \in 1..(m - n) : b[i] = s[n + i]
  <2>1. \A i \in (n + 1)..m : s[i] \in Job
    BY <1>1, <1>2
  <2>2. /\ b \in Seq(Job) /\ Len(b) = (IF n + 1 <= m THEN m - (n + 1) + 1 ELSE 0)
        /\ \A i \in 1..(m - (n + 1) + 1) : b[i] = s[n + 1 + i - 1]
    BY <1>1, <2>1, SubSeqProperties
  <2>. HIDE DEF b, m
  <2>3. m - (n + 1) + 1 = m - n /\ \A i \in 1..(m - n) : n + 1 + i - 1 = n + i
    BY <1>1
  <2>4. Len(b) = m - n
    BY <1>1, <2>2
  <2>. QED
    BY <2>2, <2>3, <2>4
<1>5. r = a \o b
  BY DEF RemoveAt
<1>. HIDE DEF a, b, r, m
<1>6. /\ r \in Seq(Job) /\ Len(r) = m - 1
      /\ \A i \in 1..(m - 1) : r[i] = IF i < n THEN s[i] ELSE s[i + 1]
  <2>1. /\ r \in Seq(Job) /\ Len(r) = Len(a) + Len(b)
        /\ \A i \in 1..(Len(a) + Len(b)) : r[i] = IF i <= Len(a) THEN a[i] ELSE b[i - Len(a)]
    BY <1>3, <1>4, <1>5, ConcatProperties
  <2>2. Len(a) + Len(b) = m - 1
    BY <1>1, <1>3, <1>4
  <2>3. ASSUME NEW i \in 1..(m - 1) PROVE r[i] = IF i < n THEN s[i] ELSE s[i + 1]
    <3>1. CASE i < n
      <4>1. i \in 1..(n - 1) /\ i <= n - 1
        BY <1>1, <3>1
      <4>. QED
        BY <1>3, <2>1, <2>2, <3>1, <4>1
    <3>2. CASE ~(i < n)
      <4>1. i - (n - 1) \in 1..(m - n) /\ n + (i - (n - 1)) = i + 1 /\ ~(i <= n - 1)
        BY <1>1, <3>2
      <4>2. r[i] = b[i - (n - 1)]
        BY <1>3, <2>1, <2>2, <4>1
      <4>3. b[i - (n - 1)] = s[n + (i - (n - 1))]
        BY <1>4, <4>1
      <4>. QED
        BY <3>2, <4>1, <4>2, <4>3
    <3>. QED
      BY <3>1, <3>2
  <2>. QED
    BY <2>1, <2>2, <2>3
<1>7. \A i, k \in 1..m : s[i] = s[k] => i = k
  BY DEF Exactly, m
<1>8. \A i, k \in 1..Len(r) : r[i] = r[k] => i = k
  <2>. SUFFICES ASSUME NEW i \in 1..(m - 1), NEW k \in 1..(m - 1), r[i] = r[k] PROVE i = k
    BY <1>6
  <2>1. i \in 1..m /\ i + 1 \in 1..m /\ k \in 1..m /\ k + 1 \in 1..m
    BY <1>1
  <2>2. r[i] = (IF i < n THEN s[i] ELSE s[i + 1]) /\ r[k] = (IF k < n THEN s[k] ELSE s[k + 1])
    BY <1>6
  <2>3. (IF i < n THEN i ELSE i + 1) = (IF k < n THEN k ELSE k + 1)
    BY <1>7, <2>1, <2>2
  <2>. QED
    BY <1>1, <2>3
<1>9. ASSUME NEW j \in Job PROVE j \in S \ {s[n]} <=> \E i \in 1..Len(r) : r[i] = j
  <2>0. j \in S <=> \E i \in 1..m : s[i] = j
    BY DEF Exactly, m
  <2>1. ASSUME NEW i \in 1..(m - 1), r[i] = j PROVE j \in S /\ j # s[n]
    <3>. DEFINE k == IF i < n THEN i ELSE i + 1
    <3>1. k \in 1..m /\ k # n /\ s[k] = j
      BY <1>1, <1>6, <2>1
    <3>. HIDE DEF k
    <3>. QED
      BY <1>1, <1>7, <2>0, <3>1
  <2>2. ASSUME j \in S, j # s[n] PROVE \E i \in 1..(m - 1) : r[i] = j
    <3>. PICK k \in 1..m : s[k] = j
      BY <2>0, <2>2
    <3>. DEFINE i == IF k < n THEN k ELSE k - 1
    <3>1. k # n
      BY <2>2
    <3>2. i \in 1..(m - 1) /\ (IF i < n THEN i ELSE i + 1) = k
      BY <1>1, <3>1
    <3>3. r[i] = j
      BY <1>6, <3>2
    <3>. QED
      BY <3>2, <3>3
  <2>. QED
    BY <1>6, <2>1, <2>2
<1>10. s[n] \in S
  BY <1>1 DEF Exactly
<1>. QED
  BY <1>6, <1>8, <1>9, <1>10 DEF Exactly, r

LEMMA LineServed ==
    ASSUME NEW S \in SUBSET Job, NEW s, Exactly(s, S), s # <<>>
    PROVE  Head(s) \in S /\ Exactly(Tail(s), S \ {Head(s)})
<1>1. s \in Seq(Job) /\ 1 \in 1..Len(s) /\ Len(s) \in Nat
  BY EmptySeq, LenProperties DEF Exactly
<1>2. Head(s) = s[1] /\ RemoveAt(s, 1) = Tail(s)
  <2>1. Tail(s) = SubSeq(s, 2, Len(s))
    BY <1>1, TailIsSubSeq
  <2>2. SubSeq(s, 1, 1 - 1) = <<>>
    BY SubSeqEmpty
  <2>3. Tail(s) \in Seq(Job)
    BY <1>1, HeadTailProperties
  <2>. QED
    BY <1>1, <2>1, <2>2, <2>3, ConcatEmptySeq DEF RemoveAt
<1>3. s[1] \in S /\ Exactly(RemoveAt(s, 1), S \ {s[1]})
  BY <1>1, LineRemoved
<1>. QED
  BY <1>2, <1>3

-----------------------------------------------------------------------------
(* A job goes from one place to another. *)

LEMMA LineKept ==
    ASSUME NEW f \in [Job -> Pc], NEW j \in Job, NEW q \in Pc, NEW S, NEW T \in SUBSET Job,
           NEW g, g = [f EXCEPT ![j] = q], NEW s, Line(f, S, T, s),
           j \notin T \/ (f[j] \in S <=> q \in S)
    PROVE  Line(g, S, T, s)
<1>1. g \in [Job -> Pc] /\ g[j] = q /\ \A k \in Job : k # j => g[k] = f[k]
  OBVIOUS
<1>2. Those(g, S, T) = Those(f, S, T)
  BY <1>1 DEF Those
<1>. QED
  BY <1>2 DEF Line

LEMMA LineJoins ==
    ASSUME NEW f \in [Job -> Pc], NEW j \in Job, NEW q \in Pc, NEW S, NEW T \in SUBSET Job,
           NEW g, g = [f EXCEPT ![j] = q], NEW s, Line(f, S, T, s),
           j \in T, f[j] \notin S, q \in S
    PROVE  /\ Line(g, S, T, Append(s, j)) /\ Append(s, j) # <<>>
           /\ Head(Append(s, j)) = IF s = <<>> THEN j ELSE Head(s)
<1>1. g \in [Job -> Pc] /\ g[j] = q /\ \A k \in Job : k # j => g[k] = f[k]
  OBVIOUS
<1>2. Those(g, S, T) = Those(f, S, T) \cup {j}
  BY <1>1 DEF Those
<1>. DEFINE A == Those(f, S, T)
<1>3. A \in SUBSET Job /\ j \notin A
  BY DEF Those
<1>4. Exactly(s, A)
  BY DEF Line
<1>. HIDE DEF A
<1>5. /\ Exactly(Append(s, j), A \cup {j}) /\ Append(s, j) # <<>>
      /\ Head(Append(s, j)) = IF s = <<>> THEN j ELSE Head(s)
  BY <1>3, <1>4, LineJoined
<1>. QED
  BY <1>2, <1>5 DEF Line, A

LEMMA LineHead ==
    ASSUME NEW f \in [Job -> Pc], NEW S, NEW T \in SUBSET Job, NEW s, Line(f, S, T, s), s # <<>>
    PROVE  Head(s) \in T /\ Head(s) \in Job /\ f[Head(s)] \in S
<1>1. Those(f, S, T) \in SUBSET Job
  BY DEF Those
<1>2. Head(s) \in Those(f, S, T)
  BY <1>1, LineServed DEF Line
<1>. QED
  BY <1>2 DEF Those

LEMMA LineMember ==
    ASSUME NEW f \in [Job -> Pc], NEW S, NEW T \in SUBSET Job, NEW s, Line(f, S, T, s),
           NEW n \in 1..Len(s)
    PROVE  s[n] \in T /\ f[s[n]] \in S
<1>1. Those(f, S, T) \in SUBSET Job
  BY DEF Those
<1>2. s[n] \in Those(f, S, T)
  BY <1>1, LineRemoved DEF Line
<1>. QED
  BY <1>2 DEF Those

LEMMA LineLeaves ==
    ASSUME NEW f \in [Job -> Pc], NEW q \in Pc, NEW S, NEW T \in SUBSET Job,
           NEW s, Line(f, S, T, s), s # <<>>,
           NEW g, g = [f EXCEPT ![Head(s)] = q], q \notin S
    PROVE  Line(g, S, T, Tail(s))
<1>1. Head(s) \in Job
  BY LineHead
<1>2. g[Head(s)] = q /\ \A k \in Job : k # Head(s) => g[k] = f[k]
  BY <1>1
<1>3. Those(g, S, T) = Those(f, S, T) \ {Head(s)} /\ Those(f, S, T) \in SUBSET Job
  BY <1>1, <1>2 DEF Those
<1>. QED
  BY <1>3, LineServed DEF Line

LEMMA LinePicked ==
    ASSUME NEW f \in [Job -> Pc], NEW q \in Pc, NEW S, NEW T \in SUBSET Job,
           NEW s, Line(f, S, T, s), NEW n \in 1..Len(s),
           NEW g, g = [f EXCEPT ![s[n]] = q], q \notin S
    PROVE  s[n] \in T /\ f[s[n]] \in S /\ Line(g, S, T, RemoveAt(s, n))
<1>0. Those(f, S, T) \in SUBSET Job
  BY DEF Those
<1>1. s[n] \in Those(f, S, T)
  BY <1>0, LineRemoved DEF Line
<1>2. g[s[n]] = q /\ \A k \in Job : k # s[n] => g[k] = f[k]
  BY <1>0, <1>1
<1>3. Those(g, S, T) = Those(f, S, T) \ {s[n]}
  BY <1>0, <1>1, <1>2 DEF Those
<1>4. Exactly(RemoveAt(s, n), Those(f, S, T) \ {s[n]})
  BY <1>0, LineRemoved DEF Line
<1>5. s[n] \in T /\ f[s[n]] \in S
  BY <1>1 DEF Those
<1>. QED
  BY <1>3, <1>4, <1>5 DEF Line

LEMMA LineRotated ==
    ASSUME NEW f, NEW S, NEW T \in SUBSET Job, NEW s, Line(f, S, T, s), s # <<>>
    PROVE  Line(f, S, T, Append(Tail(s), Head(s)))
<1>. DEFINE A == Those(f, S, T)
<1>1. A \in SUBSET Job /\ Exactly(s, A)
  BY DEF Line, Those
<1>. HIDE DEF A
<1>2. Head(s) \in A /\ Exactly(Tail(s), A \ {Head(s)})
  BY <1>1, LineServed
<1>3. Exactly(Append(Tail(s), Head(s)), (A \ {Head(s)}) \cup {Head(s)})
  BY <1>1, <1>2, LineJoined
<1>4. (A \ {Head(s)}) \cup {Head(s)} = A
  BY <1>2
<1>. QED
  BY <1>3, <1>4 DEF Line, A

LEMMA CountKept ==
    ASSUME NEW f \in [Job -> Pc], NEW j \in Job, NEW q \in Pc, NEW S, NEW T \in SUBSET Job,
           NEW g, g = [f EXCEPT ![j] = q], NEW n, Count(f, S, T, n),
           j \notin T \/ (f[j] \in S <=> q \in S)
    PROVE  Count(g, S, T, n)
<1>1. g \in [Job -> Pc] /\ g[j] = q /\ \A k \in Job : k # j => g[k] = f[k]
  OBVIOUS
<1>2. Those(g, S, T) = Those(f, S, T)
  BY <1>1 DEF Those
<1>. QED
  BY <1>2 DEF Count

LEMMA CountUp ==
    ASSUME NEW f \in [Job -> Pc], NEW j \in Job, NEW q \in Pc, NEW S, NEW T \in SUBSET Job,
           NEW g, g = [f EXCEPT ![j] = q], NEW n, Count(f, S, T, n),
           j \in T, f[j] \notin S, q \in S
    PROVE  Count(g, S, T, n + 1)
<1>1. g \in [Job -> Pc] /\ g[j] = q /\ \A k \in Job : k # j => g[k] = f[k]
  OBVIOUS
<1>2. Those(g, S, T) = Those(f, S, T) \cup {j} /\ j \notin Those(f, S, T)
  BY <1>1 DEF Those
<1>. DEFINE A == Those(f, S, T)
<1>3. IsFiniteSet(A) /\ n = Cardinality(A) /\ j \notin A
  BY <1>2 DEF Count
<1>. HIDE DEF A
<1>4. IsFiniteSet(A \cup {j}) /\ Cardinality(A \cup {j}) = Cardinality(A) + 1
  BY <1>3, FS_AddElement
<1>. QED
  BY <1>2, <1>3, <1>4 DEF Count, A

LEMMA CountDown ==
    ASSUME NEW f \in [Job -> Pc], NEW j \in Job, NEW q \in Pc, NEW S, NEW T \in SUBSET Job,
           NEW g, g = [f EXCEPT ![j] = q], NEW n \in Nat, Count(f, S, T, n),
           j \in T, f[j] \in S, q \notin S
    PROVE  Count(g, S, T, n - 1) /\ n > 0
<1>0. g \in [Job -> Pc] /\ g[j] = q /\ \A k \in Job : k # j => g[k] = f[k]
  OBVIOUS
<1>1. Those(g, S, T) = Those(f, S, T) \ {j} /\ j \in Those(f, S, T)
  BY <1>0 DEF Those
<1>. DEFINE A == Those(f, S, T)
<1>2. IsFiniteSet(A) /\ n = Cardinality(A) /\ j \in A /\ Those(g, S, T) = A \ {j}
  BY <1>1 DEF Count
<1>. HIDE DEF A
<1>3. n # 0
  BY <1>2, FS_EmptySet
<1>4. IsFiniteSet(A \ {j}) /\ Cardinality(A \ {j}) = Cardinality(A) - 1
  BY <1>2, FS_RemoveElement
<1>5. n > 0
  BY <1>3
<1>. QED
  BY <1>2, <1>4, <1>5 DEF Count

(* The first of a line is woken: it goes to the microtasks, holding what it held. *)
Wake(f, s, q) == IF s.waiting = <<>> THEN f ELSE [f EXCEPT ![Head(s.waiting)] = q]

LEMMA SemaphoreTypes ==
    ASSUME NEW s \in Semaphore
    PROVE  /\ s.active \in Nat /\ s.waiting \in Seq(Job)
           /\ Counted(s) \in Semaphore /\ Counted(s).active = s.active + 1 /\ Counted(s).waiting = s.waiting
           /\ \A j \in Job : /\ Waiting(s, j) \in Semaphore /\ Waiting(s, j).active = s.active
                             /\ Waiting(s, j).waiting = Append(s.waiting, j)
           /\ Released(s) \in Semaphore
           /\ s.active > 0 => Released(s).active = s.active - 1
           /\ s.waiting = <<>> => Released(s).waiting = <<>> /\ Woken(s) = <<>>
           /\ s.waiting # <<>> => /\ Released(s).waiting = Tail(s.waiting)
                                  /\ Woken(s) = <<Head(s.waiting)>> /\ Head(s.waiting) \in Job
           /\ Woken(s) \in Seq(Job)
<1>1. s \in [active : Nat, waiting : Seq(Job)] /\ s.active \in Nat /\ s.waiting \in Seq(Job)
  BY DEF Semaphore
<1>2. /\ Counted(s) \in Semaphore /\ Counted(s).active = s.active + 1 /\ Counted(s).waiting = s.waiting
  BY <1>1 DEF Counted, Semaphore
<1>3. ASSUME NEW j \in Job
      PROVE  /\ Waiting(s, j) \in Semaphore /\ Waiting(s, j).active = s.active
             /\ Waiting(s, j).waiting = Append(s.waiting, j)
  <2>1. Append(s.waiting, j) \in Seq(Job)
    BY <1>1, AppendProperties
  <2>. QED
    BY <1>1, <2>1 DEF Waiting, Semaphore
<1>4. s.waiting # <<>> => Tail(s.waiting) \in Seq(Job) /\ Head(s.waiting) \in Job
  BY <1>1, HeadTailProperties
<1>5. s.active > 0 => s.active - 1 \in Nat
  BY <1>1
<1>6. Released(s) \in Semaphore
  BY <1>1, <1>4, <1>5, EmptySeq DEF Released, Semaphore
<1>7. s.waiting # <<>> => <<Head(s.waiting)>> \in Seq(Job)
  BY <1>4
<1>. QED
  BY <1>1, <1>2, <1>3, <1>4, <1>6, <1>7, EmptySeq DEF Released, Woken

LEMMA WakeMoves ==
    ASSUME NEW f \in [Job -> Pc], NEW s \in Semaphore, NEW w, NEW T \in SUBSET Job,
           Line(f, {w}, T, s.waiting), NEW q \in Pc
    PROVE  /\ Wake(f, s, q) \in [Job -> Pc]
           /\ \A k \in Job : Wake(f, s, q)[k] = IF k \in ToSet(Woken(s)) THEN q ELSE f[k]
           /\ \A k \in Job : k \in ToSet(Woken(s)) => k \in T /\ f[k] = w
<1>1. CASE s.waiting = <<>>
  <2>1. ToSet(Woken(s)) = {}
    BY <1>1 DEF Woken, ToSet
  <2>. QED
    BY <1>1, <2>1 DEF Wake
<1>2. CASE s.waiting # <<>>
  <2>. DEFINE j == Head(s.waiting)
  <2>1. j \in T /\ j \in Job /\ f[j] \in {w}
    BY <1>2, LineHead
  <2>2. Woken(s) = <<j>> /\ Wake(f, s, q) = [f EXCEPT ![j] = q]
    BY <1>2 DEF Woken, Wake
  <2>. HIDE DEF j
  <2>3. ToSet(Woken(s)) = {j}
    BY <2>2 DEF ToSet
  <2>. QED
    BY <2>1, <2>2, <2>3
<1>. QED
  BY <1>1, <1>2

LEMMA WakeKept ==
    ASSUME NEW f \in [Job -> Pc], NEW s \in Semaphore, NEW w, NEW T \in SUBSET Job,
           Line(f, {w}, T, s.waiting), NEW q \in Pc,
           NEW S, NEW U \in SUBSET Job, NEW l, Line(f, S, U, l),
           (w \in S <=> q \in S) \/ T \cap U = {}
    PROVE  Line(Wake(f, s, q), S, U, l)
<1>1. CASE s.waiting = <<>>
  BY <1>1 DEF Wake
<1>2. CASE s.waiting # <<>>
  <2>. DEFINE j == Head(s.waiting)
  <2>1. j \in T /\ j \in Job /\ f[j] = w
    BY <1>2, LineHead
  <2>2. Wake(f, s, q) = [f EXCEPT ![j] = q]
    BY <1>2 DEF Wake
  <2>. HIDE DEF j
  <2>3. j \notin U \/ (f[j] \in S <=> q \in S)
    BY <2>1
  <2>. QED
    BY <2>1, <2>2, <2>3, LineKept
<1>. QED
  BY <1>1, <1>2

LEMMA WakeLeaves ==
    ASSUME NEW f \in [Job -> Pc], NEW s \in Semaphore, NEW w, NEW T \in SUBSET Job,
           Line(f, {w}, T, s.waiting), NEW q \in Pc, q # w
    PROVE  Line(Wake(f, s, q), {w}, T, Released(s).waiting)
<1>1. CASE s.waiting = <<>>
  BY <1>1, SemaphoreTypes DEF Wake
<1>2. CASE s.waiting # <<>>
  <2>1. Wake(f, s, q) = [f EXCEPT ![Head(s.waiting)] = q] /\ Released(s).waiting = Tail(s.waiting)
    BY <1>2, SemaphoreTypes DEF Wake
  <2>2. q \notin {w}
    OBVIOUS
  <2>3. Line([f EXCEPT ![Head(s.waiting)] = q], {w}, T, Tail(s.waiting))
    BY <1>2, <2>2, LineLeaves
  <2>. QED
    BY <2>1, <2>3
<1>. QED
  BY <1>1, <1>2

LEMMA WakeJoins ==
    ASSUME NEW f \in [Job -> Pc], NEW s \in Semaphore, NEW w, NEW T \in SUBSET Job,
           Line(f, {w}, T, s.waiting), NEW q \in Pc, NEW S, w \notin S, q \in S,
           NEW m, Line(f, S, Job, m)
    PROVE  Line(Wake(f, s, q), S, Job, m \o Woken(s))
<1>0. m \in Seq(Job)
  BY DEF Line, Exactly
<1>1. CASE s.waiting = <<>>
  <2>1. m \o Woken(s) = m /\ Wake(f, s, q) = f
    BY <1>0, <1>1, ConcatEmptySeq DEF Wake, Woken
  <2>. QED
    BY <2>1
<1>2. CASE s.waiting # <<>>
  <2>. DEFINE j == Head(s.waiting)
  <2>1. j \in T /\ j \in Job /\ f[j] = w
    BY <1>2, LineHead
  <2>2. Wake(f, s, q) = [f EXCEPT ![j] = q] /\ Woken(s) = <<j>>
    BY <1>2 DEF Wake, Woken
  <2>. HIDE DEF j
  <2>3. m \o <<j>> = Append(m, j)
    BY <1>0, <2>1
  <2>4. Line([f EXCEPT ![j] = q], S, Job, Append(m, j))
    BY <2>1, LineJoins
  <2>. QED
    BY <2>2, <2>3, <2>4
<1>. QED
  BY <1>1, <1>2

LEMMA WakeCounts ==
    ASSUME NEW f \in [Job -> Pc], NEW s \in Semaphore, NEW w, NEW T \in SUBSET Job,
           Line(f, {w}, T, s.waiting), NEW q \in Pc,
           NEW S, NEW U \in SUBSET Job, NEW n, Count(f, S, U, n), w \in S <=> q \in S
    PROVE  Count(Wake(f, s, q), S, U, n)
<1>1. CASE s.waiting = <<>>
  BY <1>1 DEF Wake
<1>2. CASE s.waiting # <<>>
  <2>. DEFINE j == Head(s.waiting)
  <2>1. j \in T /\ j \in Job /\ f[j] = w
    BY <1>2, LineHead
  <2>2. Wake(f, s, q) = [f EXCEPT ![j] = q]
    BY <1>2 DEF Wake
  <2>. HIDE DEF j
  <2>. QED
    BY <2>1, <2>2, CountKept
<1>. QED
  BY <1>1, <1>2

-----------------------------------------------------------------------------
(* Types. *)

LEMMA Limits == BrowserMax \in Nat /\ PackageMax \in Nat /\ HostMax \in Nat
                /\ BrowserMax > 0 /\ PackageMax > 0 /\ HostMax > 0
  BY LimitAssumption

LEMMA Jobs == ASSUME NEW j \in Job
              PROVE  SampleOf[j] \in Sample /\ audit(j) \in Audit /\ HostOf[j] \in Host
                     /\ j \in On(HostOf[j]) /\ \A h \in Host : On(h) \in SUBSET Job
  BY JobAssumption DEF audit, On

LEMMA Places == /\ HoldsBrowser \subseteq Pc /\ HoldsHost \subseteq Pc /\ MicroPc \subseteq Pc
                /\ {"queued", "waitbrowser", "waitpackage", "waithost", "done", "gone", "new"} \subseteq Pc
  BY DEF Pc, Running, HoldsHost, HoldsBrowser, MicroPc

(* A set of places in a queue has a first one. *)
LEMMA First ==
    ASSUME NEW n \in Nat, NEW S \in SUBSET (1..n), S # {}
    PROVE  \E i \in S : \A k \in S : i <= k
<1>. DEFINE C == {1..i : i \in S}
<1>1. S \subseteq Nat
  OBVIOUS
<1>2. C # {} /\ C \subseteq FiniteSubsetsOf(Nat)
  <2>1. ASSUME NEW i \in S PROVE 1..i \in SUBSET Nat /\ IsFiniteSet(1..i)
    BY <1>1, FS_Interval
  <2>. QED
    BY <2>1 DEF FiniteSubsetsOf
<1>. HIDE DEF C
<1>3. PICK c \in C : \A d \in C : <<d, c>> \notin StrictSubsetOrdering(Nat)
  BY <1>2, FS_StrictSubsetOrderingWellFounded, WFMin
<1>4. PICK i \in S : c = 1..i
  BY DEF C
<1>5. ASSUME NEW k \in S, k < i PROVE FALSE
  <2>1. 1..k \in C /\ 1..k \in SUBSET Nat /\ 1..i \in SUBSET Nat
    BY <1>1 DEF C
  <2>2. 1..k \subseteq 1..i /\ i \in 1..i /\ i \notin 1..k
    BY <1>1, <1>5
  <2>3. <<1..k, 1..i>> \in StrictSubsetOrdering(Nat)
    BY <2>1, <2>2 DEF StrictSubsetOrdering
  <2>. QED
    BY <1>3, <1>4, <2>1, <2>3
<1>6. \A k \in S : i <= k
  BY <1>1, <1>5
<1>. QED
  BY <1>6

LEMMA PickedInQueue ==
    ASSUME queue \in Seq(Job), queue # <<>>
    PROVE  Picked \in 1..Len(queue)
<1>. DEFINE idle  == {i \in DOMAIN queue : audit(queue[i]) \notin active_audit_ids}
            other == {i \in idle : audit(queue[i]) # last_served_audit_id}
            first(S) == CHOOSE i \in S : \A k \in S : i <= k
<1>1. DOMAIN queue = 1..Len(queue) /\ Len(queue) \in Nat /\ 1 \in 1..Len(queue)
  BY EmptySeq, LenProperties
<1>2. ASSUME NEW S \in SUBSET (1..Len(queue)), S # {} PROVE first(S) \in S
  BY <1>1, <1>2, First
<1>3. idle \in SUBSET (1..Len(queue)) /\ other \in SUBSET (1..Len(queue))
  BY <1>1
<1>4. Picked = IF other # {} THEN first(other) ELSE IF idle # {} THEN first(idle) ELSE 1
  BY DEF Picked
<1>. HIDE DEF idle, other, first
<1>. QED
  BY <1>1, <1>2, <1>3, <1>4

SlotType == /\ pc \in [Job -> Pc] /\ queue \in Seq(Job) /\ pump_running \in BOOLEAN
            /\ browser \in Semaphore /\ package \in Semaphore /\ host \in [Host -> Semaphore]
            /\ micro \in Seq(Job)

RestType == /\ answer \in [Job -> {"none", "waiting", "ok", "error"}]
            /\ status \in [Job -> Status]
            /\ file \in [Job -> {"none", "whole", "torn"}]
            /\ temp \in [Job -> {"none", "whole", "torn", "gone"}]
            /\ last_served_audit_id \in Audit \cup {"null"} /\ active_audit_ids \subseteq Audit
            /\ cooling \subseteq Host /\ cancelled_ids \subseteq Job
            /\ del \in [Job -> {"idle", "files", "row", "fallback", "cancelfiles", "cancelrow"}]
            /\ sweep \in [Sample -> Sweep]
            /\ booting \in BOOLEAN /\ stranded \subseteq Job /\ bared \subseteq Job
            /\ deletes \in Nat /\ faults \in Nat /\ restarts \in Nat

LEMMA Types == TypeOK <=> SlotType /\ RestType
  BY DEF TypeOK, SlotType, RestType

LEMMA UpdateStatusType ==
    ASSUME RestType, NEW j \in Job, NEW s \in Status, UpdateStatus(j, s)
    PROVE  status' \in [Job -> Status]
  BY DEF RestType, UpdateStatus

LEMMA RemoveTempsType ==
    ASSUME RestType, NEW S \in SUBSET Job, RemoveTemps(S)
    PROVE  temp' \in [Job -> {"none", "whole", "torn", "gone"}]
<1>. PICK lucky \in SUBSET {k \in S : pc[k] \in {"capturing", "archiving"}} :
       temp' = [k \in Job |-> IF k \in lucky \/ k \notin S \/ temp[k] = "none" THEN temp[k]
                              ELSE IF pc[k] \in {"capturing", "extended"} THEN "torn" ELSE "gone"]
  BY DEF RemoveTemps
<1>. QED
  BY DEF RestType

LEMMA FilesType ==
    ASSUME RestType, NEW j \in Job, file' = [file EXCEPT ![j] = "none"]
    PROVE  file' \in [Job -> {"none", "whole", "torn"}]
  BY DEF RestType

LEMMA OfAuditType == \A a : OfAudit(a) \in SUBSET Job
  BY DEF OfAudit

LEMMA CaptureRest ==
    ASSUME RestType, NEW j \in Job, CaptureStep(j)
    PROVE  RestType'
<1>. USE DEF outer, disk, handlers, pumping, slots
<1>1. CASE Enqueue(j)
  BY <1>1 DEF Enqueue, RestType
<1>2. CASE EndCooldown(j)
  BY <1>2 DEF EndCooldown, RestType
<1>3. CASE Start(j)
  <2>1. status' \in [Job -> Status]
    BY <1>3, UpdateStatusType DEF Start, Status, Unfinished
  <2>. QED
    BY <1>3, <2>1 DEF Start, RestType
<1>4. CASE VisibleComplete(j)
  <2>1. status' \in [Job -> Status]
    BY <1>4, UpdateStatusType DEF VisibleComplete, Status, Unfinished
  <2>. QED
    BY <1>4, <2>1 DEF VisibleComplete, RestType
<1>5. CASE RequestPackaging(j)
  BY <1>5 DEF RequestPackaging, RestType
<1>6. CASE SetPackaging(j)
  <2>1. status' \in [Job -> Status]
    BY <1>6, UpdateStatusType DEF SetPackaging, Status, Unfinished
  <2>. QED
    BY <1>6, <2>1 DEF SetPackaging, RestType
<1>7. CASE Archive(j)
  <2>1. temp[j] \in {"none", "whole", "torn"}
    BY <1>7 DEF Archive, RestType
  <2>. QED
    BY <1>7, <2>1 DEF Archive, RestType
<1>8. CASE SupersedePrevious(j)
  BY <1>8 DEF SupersedePrevious, RestType, Status, Unfinished
<1>9. CASE CaptureFails(j)
  BY <1>9 DEF CaptureFails, Throw, RestType
<1>10. CASE MakeReady(j)
  <2>1. status' \in [Job -> Status]
    BY <1>10, UpdateStatusType DEF MakeReady, Status
  <2>. QED
    BY <1>10, <2>1, Jobs DEF MakeReady, Finish, RestType
<1>11. CASE RecordFailure(j)
  <2>1. status' \in [Job -> Status]
    BY <1>11, UpdateStatusType DEF RecordFailure, Status
  <2>. QED
    BY <1>11, <2>1, Jobs DEF RecordFailure, Finish, RestType
<1>. QED
  BY <1>1, <1>2, <1>3, <1>4, <1>5, <1>6, <1>7, <1>8, <1>9, <1>10, <1>11 DEF CaptureStep

LEMMA FailureRest ==
    ASSUME RestType, NEW j \in Job, StatementFails(j)
    PROVE  RestType'
<1>. USE DEF outer, disk, handlers, pumping, slots
<1>1. CASE StartFails(j)
  BY <1>1 DEF StartFails, Fault, RestType
<1>2. CASE PackagingFails(j)
  BY <1>2 DEF PackagingFails, Fault, RestType
<1>3. CASE ReadyFails(j)
  BY <1>3 DEF ReadyFails, Throw, Fault, RestType
<1>4. CASE RecordFails(j)
  BY <1>4, Jobs DEF RecordFails, Finish, Fault, RestType
<1>. QED
  BY <1>1, <1>2, <1>3, <1>4 DEF StatementFails

LEMMA DeletionRest ==
    ASSUME RestType, NEW j \in Job, AskDelete(j) \/ DeleteStep(j)
    PROVE  RestType'
<1>. USE DEF outer, disk, handlers, pumping, slots, NotADeletion
<1>1. CASE AskDelete(j)
  BY <1>1 DEF AskDelete, RestType
<1>2. CASE DeleteFiles(j)
  BY <1>2, FilesType, RemoveTempsType, OfAuditType DEF DeleteFiles, RemoveFiles, RestType
<1>3. CASE DeleteRow(j)
  BY <1>3 DEF DeleteRow, RestType, Status
<1>4. CASE CancelJob(j)
  BY <1>4 DEF CancelJob, RestType
<1>5. CASE CancelFiles(j)
  BY <1>5, FilesType, RemoveTempsType, OfAuditType DEF CancelFiles, RemoveFiles, RestType
<1>6. CASE CancelRow(j)
  <2>1. status' \in [Job -> Status]
    BY <1>6, UpdateStatusType DEF CancelRow, Status
  <2>. QED
    BY <1>6, <2>1 DEF CancelRow, RestType
<1>. QED
  BY <1>1, <1>2, <1>3, <1>4, <1>5, <1>6 DEF DeleteStep

LEMMA SweepRest ==
    ASSUME RestType, NEW s \in Sample, AskSweep(s) \/ SweepStep(s)
    PROVE  RestType'
<1>. USE DEF outer, disk, handlers, pumping, slots, NotADeletion
<1>1. CASE AskSweep(s)
  BY <1>1 DEF AskSweep, RestType, Sweep
<1>2. CASE SweepFiles(s)
  <2>. PICK j \in sweep[s].left :
         /\ cancelled_ids' = cancelled_ids \cup {j}
         /\ file' = [file EXCEPT ![j] = "none"]
         /\ RemoveTemps({j})
         /\ sweep' = [sweep EXCEPT ![s].left = @ \ {j},
                                   ![s].stage = IF sweep[s].left = {j} THEN "temps" ELSE @]
    BY <1>2 DEF SweepFiles
  <2>1. j \in Job
    BY DEF RestType, Sweep
  <2>2. file' \in [Job -> {"none", "whole", "torn"}] /\ temp' \in [Job -> {"none", "whole", "torn", "gone"}]
    BY <2>1, FilesType, RemoveTempsType
  <2>3. sweep' \in [Sample -> Sweep]
    <3>1. sweep \in [Sample -> Sweep] /\ sweep[s] \in Sweep
      BY DEF RestType
    <3>. DEFINE a == [sweep[s] EXCEPT !.left = sweep[s].left \ {j}]
                b == [a EXCEPT !.stage = IF sweep[s].left = {j} THEN "temps" ELSE a.stage]
    <3>2. a \in Sweep
      BY <3>1 DEF Sweep
    <3>3. b \in Sweep
      BY <3>2 DEF Sweep
    <3>4. sweep' = [sweep EXCEPT ![s] = b]
      BY <3>1
    <3>. HIDE DEF b
    <3>. QED
      BY <3>1, <3>3, <3>4
  <2>. QED
    BY <1>2, <2>1, <2>2, <2>3 DEF SweepFiles, RestType
<1>3. CASE SweepTemps(s)
  <2>1. temp' \in [Job -> {"none", "whole", "torn", "gone"}]
    BY <1>3, RemoveTempsType, OfAuditType DEF SweepTemps
  <2>. QED
    BY <1>3, <2>1 DEF SweepTemps, RestType, Sweep
<1>4. CASE SweepRows(s)
  BY <1>4 DEF SweepRows, RestType, Status, Sweep, NoSweep
<1>. QED
  BY <1>1, <1>2, <1>3, <1>4 DEF SweepStep

LEMMA DeletionFailsRest ==
    ASSUME RestType, DeletionFails
    PROVE  RestType'
<1>. USE DEF DeletionFault, disk, pumping, slots
<1>1. UNCHANGED <<answer, status, file, temp, last_served_audit_id, active_audit_ids, cooling,
                  booting, stranded, deletes, restarts>> /\ faults' = faults + 1
  BY DEF DeletionFails, DeleteRowFails, CancelJobFails, CancelRowFails, SweepRowsFails
<1>2. ASSUME NEW j \in Job, DeleteRowFails(j) \/ CancelJobFails(j) \/ CancelRowFails(j)
      PROVE  RestType'
  <2>1. del' = [del EXCEPT ![j] = "idle"] /\ sweep' = sweep
    BY <1>2 DEF DeleteRowFails, CancelJobFails, CancelRowFails
  <2>2. cancelled_ids' \subseteq cancelled_ids \cup {j} /\ bared' \subseteq bared \cup {j}
    BY <1>2 DEF DeleteRowFails, CancelJobFails, CancelRowFails
  <2>. QED
    BY <1>1, <2>1, <2>2 DEF RestType
<1>3. ASSUME NEW s \in Sample, SweepRowsFails(s) PROVE RestType'
  <2>1. /\ sweep' = [sweep EXCEPT ![s] = NoSweep] /\ bared' = bared \cup sweep[s].ids
        /\ UNCHANGED <<cancelled_ids, del>>
    BY <1>3 DEF SweepRowsFails
  <2>. QED
    BY <1>1, <2>1 DEF RestType, NoSweep, Sweep
<1>. QED
  BY <1>2, <1>3 DEF DeletionFails

LEMMA RestStep ==
    ASSUME TypeOK, [Next]_vars
    PROVE  RestType'
<1>0. RestType /\ SlotType
  BY Types
<1>1. CASE UNCHANGED vars
  BY <1>0, <1>1 DEF vars, outer, disk, handlers, pumping, slots, RestType
<1>. USE DEF outer, disk, handlers, pumping, slots
<1>2. CASE PumpTakes
  <2>1. queue[Picked] \in Job
    BY <1>0, <1>2, PickedInQueue, ElementOfSeq DEF PumpTakes, HasCapacity, SlotType
  <2>. QED
    BY <1>0, <1>2, <2>1, Jobs DEF PumpTakes, RestType
<1>3. CASE PumpStops
  BY <1>0, <1>3 DEF PumpStops, RestType
<1>4. ASSUME NEW j \in Job, InsertRow(j) PROVE RestType'
  BY <1>0, <1>4 DEF InsertRow, RestType, Status, Unfinished
<1>5. ASSUME NEW j \in Job, MicroStep(j) PROVE RestType'
  BY <1>0, <1>5 DEF MicroStep, HostWakes, HostGranted, BrowserWakes, PackageWakes, Microtask, RestType
<1>6. ASSUME NEW h \in Host, HostCools(h) PROVE RestType'
  BY <1>0, <1>6 DEF HostCools, RestType
<1>7. CASE Restart
  BY <1>0, <1>7 DEF Restart, RestType, NoSweep, Sweep
<1>8. CASE Recover
  BY <1>0, <1>8 DEF Recover, RestType, Status
<1>9. CASE RecoverFails
  <2>1. faults' \in Nat
    BY <1>0, <1>9 DEF RecoverFails, RestType
  <2>2. booting' \in BOOLEAN /\ stranded' \subseteq Job
    BY <1>0, <1>9 DEF RecoverFails, RestType
  <2>3. UNCHANGED <<answer, status, file, temp, last_served_audit_id, active_audit_ids, cooling,
                    cancelled_ids, del, sweep, bared, deletes, restarts>>
    BY <1>9 DEF RecoverFails
  <2>. QED
    BY <1>0, <2>1, <2>2, <2>3 DEF RestType
<1>10. ASSUME NEW j \in Job, CaptureStep(j) \/ StatementFails(j) \/ AskDelete(j) \/ DeleteStep(j)
       PROVE  RestType'
  BY <1>0, <1>10, CaptureRest, FailureRest, DeletionRest
<1>11. ASSUME NEW s \in Sample, AskSweep(s) \/ SweepStep(s) PROVE RestType'
  BY <1>0, <1>11, SweepRest
<1>12. CASE DeletionFails
  BY <1>0, <1>12, DeletionFailsRest
<1>13. CASE Next
  BY <1>2, <1>3, <1>4, <1>5, <1>6, <1>7, <1>8, <1>9, <1>10, <1>11, <1>12, <1>13 DEF Next
<1>. QED
  BY <1>1, <1>13

-----------------------------------------------------------------------------
(* The slots, by actions. *)

Slots == SlotType /\ InLine /\ InUse /\ Promised

LEMMA SlotFacts ==
    ASSUME Slots
    PROVE  /\ pc \in [Job -> Pc] /\ queue \in Seq(Job) /\ pump_running \in BOOLEAN
           /\ browser \in Semaphore /\ package \in Semaphore /\ host \in [Host -> Semaphore]
           /\ micro \in Seq(Job)
           /\ browser.active \in Nat /\ package.active \in Nat /\ \A h \in Host : host[h].active \in Nat
           /\ Line(pc, {"queued"}, Job, queue)
           /\ Line(pc, {"waitbrowser"}, Job, browser.waiting)
           /\ Line(pc, {"waitpackage"}, Job, package.waiting)
           /\ \A h \in Host : Line(pc, {"waithost"}, On(h), host[h].waiting)
           /\ Line(pc, MicroPc, Job, micro)
           /\ Count(pc, HoldsBrowser, Job, browser.active)
           /\ Count(pc, {"packaging"}, Job, package.active)
           /\ \A h \in Host : Count(pc, HoldsHost, On(h), host[h].active)
           /\ AtMost /\ WokenNext /\ Pumped /\ BrowserPromised /\ PackagePromised /\ HostPromised
<1>1. SlotType /\ Lines(pc, queue, browser, package, host, micro)
      /\ Taken(pc, browser, package, host) /\ Promised
  BY DEF Slots, InLine, InUse
<1>2. browser.active \in Nat /\ package.active \in Nat /\ \A h \in Host : host[h].active \in Nat
  BY <1>1, SemaphoreTypes DEF SlotType
<1>. QED
  BY <1>1, <1>2 DEF SlotType, Lines, Taken, Promised

LEMMA SlotGoal ==
    ASSUME pc' \in [Job -> Pc], queue' \in Seq(Job), pump_running' \in BOOLEAN,
           browser' \in Semaphore, package' \in Semaphore, host' \in [Host -> Semaphore],
           micro' \in Seq(Job),
           Line(pc', {"queued"}, Job, queue'),
           Line(pc', {"waitbrowser"}, Job, browser'.waiting),
           Line(pc', {"waitpackage"}, Job, package'.waiting),
           \A h \in Host : Line(pc', {"waithost"}, On(h), host'[h].waiting),
           Line(pc', MicroPc, Job, micro'),
           Count(pc', HoldsBrowser, Job, browser'.active),
           Count(pc', {"packaging"}, Job, package'.active),
           \A h \in Host : Count(pc', HoldsHost, On(h), host'[h].active),
           Promised'
    PROVE  Slots'
<1>1. SlotType'
  BY DEF SlotType
<1>2. Lines(pc', queue', browser', package', host', micro')
  BY DEF Lines
<1>3. Taken(pc', browser', package', host')
  BY DEF Taken
<1>. QED
  BY <1>1, <1>2, <1>3 DEF Slots, InLine, InUse

LEMMA SlotsFrozen ==
    ASSUME Slots, UNCHANGED <<pc, queue, pump_running, browser, package, host, micro>>
    PROVE  Slots'
  BY DEF Slots, SlotType, InLine, InUse, Promised, AtMost, WokenNext, Pumped,
         BrowserPromised, PackagePromised, HostPromised

(* What a job's going from one place to another leaves as it was. *)
KeepsLines(f, g, j, q) ==
  \A S : \A T \in SUBSET Job : \A s :
    Line(f, S, T, s) /\ (j \notin T \/ (f[j] \in S <=> q \in S)) => Line(g, S, T, s)
KeepsCounts(f, g, j, q) ==
  \A S : \A T \in SUBSET Job : \A n :
    Count(f, S, T, n) /\ (j \notin T \/ (f[j] \in S <=> q \in S)) => Count(g, S, T, n)

LEMMA Keeps ==
    ASSUME NEW f \in [Job -> Pc], NEW j \in Job, NEW q \in Pc, NEW g, g = [f EXCEPT ![j] = q]
    PROVE  g \in [Job -> Pc] /\ KeepsLines(f, g, j, q) /\ KeepsCounts(f, g, j, q)
<1>1. ASSUME NEW S, NEW T \in SUBSET Job, NEW s, Line(f, S, T, s),
             j \notin T \/ (f[j] \in S <=> q \in S)
      PROVE  Line(g, S, T, s)
  BY <1>1, LineKept
<1>2. ASSUME NEW S, NEW T \in SUBSET Job, NEW n, Count(f, S, T, n),
             j \notin T \/ (f[j] \in S <=> q \in S)
      PROVE  Count(g, S, T, n)
  BY <1>2, CountKept
<1>3. g \in [Job -> Pc]
  OBVIOUS
<1>4. KeepsLines(f, g, j, q)
  BY <1>1 DEF KeepsLines
<1>5. KeepsCounts(f, g, j, q)
  BY <1>2 DEF KeepsCounts
<1>. QED
  BY <1>3, <1>4, <1>5

(* The line t is the line s after j went to q, and m the count n. *)
Follows(S, j, q, s, t) ==
  \/ (pc[j] \in S <=> q \in S) /\ t = s
  \/ pc[j] \notin S /\ q \in S /\ t = Append(s, j)
  \/ pc[j] \in S /\ q \notin S /\ s # <<>> /\ j = Head(s) /\ t = Tail(s)
  \/ pc[j] \in S /\ q \in S /\ s # <<>> /\ j = Head(s) /\ t = Append(Tail(s), j)
Tallies(S, j, q, n, m) ==
  \/ (pc[j] \in S <=> q \in S) /\ m = n
  \/ pc[j] \notin S /\ q \in S /\ m = n + 1
  \/ pc[j] \in S /\ q \notin S /\ m = n - 1

LEMMA FollowsLine ==
    ASSUME pc \in [Job -> Pc], NEW j \in Job, NEW q \in Pc, pc' = [pc EXCEPT ![j] = q],
           NEW S, NEW T \in SUBSET Job, j \in T, NEW s, Line(pc, S, T, s),
           NEW t, Follows(S, j, q, s, t)
    PROVE  Line(pc', S, T, t)
<1>1. CASE (pc[j] \in S <=> q \in S) /\ t = s
  BY <1>1, LineKept
<1>2. CASE pc[j] \notin S /\ q \in S /\ t = Append(s, j)
  BY <1>2, LineJoins
<1>3. CASE pc[j] \in S /\ q \notin S /\ s # <<>> /\ j = Head(s) /\ t = Tail(s)
  BY <1>3, LineLeaves
<1>4. CASE pc[j] \in S /\ q \in S /\ s # <<>> /\ j = Head(s) /\ t = Append(Tail(s), j)
  BY <1>4, LineKept, LineRotated
<1>. QED
  BY <1>1, <1>2, <1>3, <1>4 DEF Follows

LEMMA TalliesCount ==
    ASSUME pc \in [Job -> Pc], NEW j \in Job, NEW q \in Pc, pc' = [pc EXCEPT ![j] = q],
           NEW S, NEW T \in SUBSET Job, j \in T, NEW n \in Nat, Count(pc, S, T, n),
           NEW m, Tallies(S, j, q, n, m)
    PROVE  Count(pc', S, T, m)
<1>1. CASE (pc[j] \in S <=> q \in S) /\ m = n
  BY <1>1, CountKept
<1>2. CASE pc[j] \notin S /\ q \in S /\ m = n + 1
  BY <1>2, CountUp
<1>3. CASE pc[j] \in S /\ q \notin S /\ m = n - 1
  BY <1>3, CountDown
<1>. QED
  BY <1>1, <1>2, <1>3 DEF Tallies

LEMMA JoinedHead ==
    ASSUME NEW s \in Seq(Job), NEW j \in Job
    PROVE  Append(s, j) # <<>> /\ Head(Append(s, j)) = IF s = <<>> THEN j ELSE Head(s)
  BY AppendProperties, EmptySeq, LenProperties

(* A job that goes to q: each line and each count follows it. *)
LEMMA SlotsMove ==
    ASSUME Slots, NEW j \in Job, NEW q \in Pc, pc' = [pc EXCEPT ![j] = q],
           pump_running' \in BOOLEAN, queue' = queue, pc[j] # "queued", q # "queued",
           browser' \in Semaphore, package' \in Semaphore, host' \in [Host -> Semaphore],
           Follows({"waitbrowser"}, j, q, browser.waiting, browser'.waiting),
           Follows({"waitpackage"}, j, q, package.waiting, package'.waiting),
           Follows({"waithost"}, j, q, host[HostOf[j]].waiting, host'[HostOf[j]].waiting),
           Follows(MicroPc, j, q, micro, micro'),
           Tallies(HoldsBrowser, j, q, browser.active, browser'.active),
           Tallies({"packaging"}, j, q, package.active, package'.active),
           Tallies(HoldsHost, j, q, host[HostOf[j]].active, host'[HostOf[j]].active),
           \A h \in Host : h # HostOf[j] => host'[h] = host[h],
           Promised'
    PROVE  Slots'
<1>1. pc \in [Job -> Pc] /\ pc' \in [Job -> Pc] /\ KeepsLines(pc, pc', j, q) /\ KeepsCounts(pc, pc', j, q)
  BY SlotFacts, Keeps
<1>2. /\ HostOf[j] \in Host /\ j \in On(HostOf[j])
      /\ \A h \in Host : On(h) \in SUBSET Job /\ (h # HostOf[j] => j \notin On(h))
  BY Jobs DEF On
<1>3. Line(pc', {"queued"}, Job, queue') /\ queue' \in Seq(Job)
  BY <1>1, SlotFacts DEF KeepsLines
<1>4. Line(pc', {"waitbrowser"}, Job, browser'.waiting)
  <2>1. Line(pc, {"waitbrowser"}, Job, browser.waiting) /\ Job \in SUBSET Job
    BY SlotFacts
  <2>. QED
    BY <1>1, <2>1, FollowsLine
<1>5. Line(pc', {"waitpackage"}, Job, package'.waiting)
  <2>1. Line(pc, {"waitpackage"}, Job, package.waiting) /\ Job \in SUBSET Job
    BY SlotFacts
  <2>. QED
    BY <1>1, <2>1, FollowsLine
<1>6. Line(pc', MicroPc, Job, micro') /\ micro' \in Seq(Job)
  <2>1. Line(pc, MicroPc, Job, micro) /\ Job \in SUBSET Job
    BY SlotFacts
  <2>2. Line(pc', MicroPc, Job, micro')
    BY <1>1, <2>1, FollowsLine
  <2>. QED
    BY <2>2 DEF Line, Exactly
<1>7. Line(pc', {"waithost"}, On(HostOf[j]), host'[HostOf[j]].waiting)
  <2>1. Line(pc, {"waithost"}, On(HostOf[j]), host[HostOf[j]].waiting)
    BY <1>2, SlotFacts
  <2>. QED
    BY <1>1, <1>2, <2>1, FollowsLine
<1>8. \A h \in Host : Line(pc', {"waithost"}, On(h), host'[h].waiting)
  BY <1>1, <1>2, <1>7, SlotFacts DEF KeepsLines
<1>9. Count(pc', HoldsBrowser, Job, browser'.active)
  <2>1. Count(pc, HoldsBrowser, Job, browser.active) /\ Job \in SUBSET Job /\ browser.active \in Nat
    BY SlotFacts
  <2>. QED
    BY <1>1, <2>1, TalliesCount
<1>10. Count(pc', {"packaging"}, Job, package'.active)
  <2>1. Count(pc, {"packaging"}, Job, package.active) /\ Job \in SUBSET Job /\ package.active \in Nat
    BY SlotFacts
  <2>. QED
    BY <1>1, <2>1, TalliesCount
<1>11. Count(pc', HoldsHost, On(HostOf[j]), host'[HostOf[j]].active)
  <2>1. Count(pc, HoldsHost, On(HostOf[j]), host[HostOf[j]].active) /\ host[HostOf[j]].active \in Nat
    BY <1>2, SlotFacts
  <2>. QED
    BY <1>1, <1>2, <2>1, TalliesCount
<1>12. \A h \in Host : Count(pc', HoldsHost, On(h), host'[h].active)
  BY <1>1, <1>2, <1>11, SlotFacts DEF KeepsCounts
<1>. QED
  BY <1>1, <1>3, <1>4, <1>5, <1>6, <1>8, <1>9, <1>10, <1>12, SlotGoal

(* A job that neither waits nor comes to wait, and holds the slots it held. *)
LEMMA SlotsShift ==
    ASSUME Slots, NEW j \in Job, NEW q \in Pc, pc' = [pc EXCEPT ![j] = q],
           UNCHANGED <<queue, pump_running, browser, package, host, micro>>,
           {pc[j], q} \cap (MicroPc \cup {"queued", "waitbrowser", "waitpackage", "waithost"}) = {},
           pc[j] \in HoldsBrowser <=> q \in HoldsBrowser,
           pc[j] \in HoldsHost <=> q \in HoldsHost,
           pc[j] # "packaging", q # "packaging"
    PROVE  Slots'
<1>1. pc' \in [Job -> Pc] /\ KeepsLines(pc, pc', j, q) /\ KeepsCounts(pc, pc', j, q)
  BY SlotFacts, Keeps
<1>2. /\ Line(pc', {"queued"}, Job, queue)
      /\ Line(pc', {"waitbrowser"}, Job, browser.waiting)
      /\ Line(pc', {"waitpackage"}, Job, package.waiting)
      /\ Line(pc', MicroPc, Job, micro)
  BY <1>1, SlotFacts DEF KeepsLines
<1>3. \A h \in Host : Line(pc', {"waithost"}, On(h), host[h].waiting)
  BY <1>1, SlotFacts, Jobs DEF KeepsLines
<1>4. Count(pc', HoldsBrowser, Job, browser.active) /\ Count(pc', {"packaging"}, Job, package.active)
  BY <1>1, SlotFacts DEF KeepsCounts
<1>5. \A h \in Host : Count(pc', HoldsHost, On(h), host[h].active)
  BY <1>1, SlotFacts, Jobs DEF KeepsCounts
<1>6. Promised'
  <2>1. \A k \in Job : /\ pc'[k] = "wokenbrowser" <=> pc[k] = "wokenbrowser"
                       /\ pc'[k] = "wokenpackage" <=> pc[k] = "wokenpackage"
                       /\ pc'[k] = "wokenhost" <=> pc[k] = "wokenhost"
    BY SlotFacts DEF MicroPc
  <2>2. \A h \in Host : On(h) \subseteq Job
    BY DEF On
  <2>. QED
    BY <2>1, <2>2 DEF Slots, Promised, AtMost, WokenNext, Pumped, BrowserPromised, PackagePromised,
                      HostPromised
<1>. QED
  BY <1>1, <1>2, <1>3, <1>4, <1>5, <1>6, SlotFacts, SlotGoal

LEMMA EnqueueSlots ==
    ASSUME Slots, NEW j \in Job, Enqueue(j)
    PROVE  Slots'
<1>. USE DEF slots
<1>0. /\ pc[j] = "inserted" /\ pc' = [pc EXCEPT ![j] = "queued"] /\ queue' = Append(queue, j)
      /\ pump_running' = TRUE /\ UNCHANGED <<browser, package, host, micro>> /\ "queued" \in Pc
  BY Places DEF Enqueue
<1>1. pc' \in [Job -> Pc] /\ KeepsLines(pc, pc', j, "queued") /\ KeepsCounts(pc, pc', j, "queued")
  BY <1>0, SlotFacts, Keeps
<1>2. Line(pc', {"queued"}, Job, queue')
  BY <1>0, SlotFacts, LineJoins
<1>3. queue' \in Seq(Job)
  BY <1>2 DEF Line, Exactly
<1>4. /\ Line(pc', {"waitbrowser"}, Job, browser.waiting)
      /\ Line(pc', {"waitpackage"}, Job, package.waiting)
      /\ Line(pc', MicroPc, Job, micro)
  BY <1>0, <1>1, SlotFacts DEF KeepsLines, MicroPc
<1>5. \A h \in Host : Line(pc', {"waithost"}, On(h), host[h].waiting)
  BY <1>0, <1>1, SlotFacts, Jobs DEF KeepsLines
<1>6. Count(pc', HoldsBrowser, Job, browser.active) /\ Count(pc', {"packaging"}, Job, package.active)
  BY <1>0, <1>1, SlotFacts DEF KeepsCounts, HoldsBrowser
<1>7. \A h \in Host : Count(pc', HoldsHost, On(h), host[h].active)
  BY <1>0, <1>1, SlotFacts, Jobs DEF KeepsCounts, HoldsHost, HoldsBrowser
<1>8. Promised'
  <2>1. \A k \in Job : /\ pc'[k] = "wokenbrowser" <=> pc[k] = "wokenbrowser"
                       /\ pc'[k] = "wokenpackage" <=> pc[k] = "wokenpackage"
                       /\ pc'[k] = "wokenhost" <=> pc[k] = "wokenhost"
    BY <1>0, SlotFacts
  <2>2. \A h \in Host : On(h) \subseteq Job
    BY DEF On
  <2>. QED
    BY <1>0, <2>1, <2>2 DEF Slots, Promised, AtMost, WokenNext, Pumped, BrowserPromised,
                            PackagePromised, HostPromised
<1>. QED
  BY <1>0, <1>1, <1>2, <1>3, <1>4, <1>5, <1>6, <1>7, <1>8, SlotFacts, SlotGoal

LEMMA StopSlots ==
    ASSUME Slots, PumpStops
    PROVE  Slots'
<1>. USE DEF slots
<1>1. /\ ~HasCapacity /\ pump_running' = FALSE
      /\ UNCHANGED <<pc, queue, browser, package, host, micro>>
  BY DEF PumpStops
<1>2. SlotType' /\ InLine' /\ InUse'
  BY <1>1 DEF Slots, SlotType, InLine, InUse
<1>3. queue # <<>> => browser.active >= BrowserMax
  BY <1>1, SlotFacts, Limits DEF HasCapacity
<1>4. Promised'
  BY <1>1, <1>3 DEF Slots, Promised, AtMost, WokenNext, Pumped, BrowserPromised, PackagePromised,
                    HostPromised
<1>. QED
  BY <1>2, <1>4 DEF Slots

(* The pump takes a job out of the queue: it holds a host or waits for one. *)
LEMMA TakeSlots ==
    ASSUME Slots, PumpTakes
    PROVE  Slots'
<1>. DEFINE n == Picked
            j == queue[n]
            h == HostOf[j]
<1>0. /\ queue # <<>> /\ queue' = RemoveAt(queue, n)
      /\ UNCHANGED <<pump_running, browser, package>> /\ pump_running
      /\ \/ /\ host[h].active < HostMax /\ host' = [host EXCEPT ![h] = Counted(host[h])]
            /\ pc' = [pc EXCEPT ![j] = "hashost"] /\ micro' = Append(micro, j)
         \/ /\ host[h].active >= HostMax /\ host' = [host EXCEPT ![h] = Waiting(host[h], j)]
            /\ pc' = [pc EXCEPT ![j] = "waithost"] /\ UNCHANGED micro
  BY DEF PumpTakes, HasCapacity
<1>1. n \in 1..Len(queue)
  BY <1>0, SlotFacts, PickedInQueue
<1>2. j \in Job
  BY <1>1, SlotFacts, ElementOfSeq
<1>3. h \in Host /\ j \in On(h) /\ \A x \in Host : On(x) \in SUBSET Job /\ (j \in On(x) <=> x = h)
  BY <1>2, Jobs DEF On
<1>4. pc[j] = "queued"
  <2>1. pc \in [Job -> Pc] /\ Line(pc, {"queued"}, Job, queue)
    BY SlotFacts
  <2>2. pc[queue[n]] \in {"queued"}
    BY <1>1, <2>1, LineMember
  <2>. QED
    BY <2>2
<1>5. ASSUME NEW q \in {"hashost", "waithost"}, pc' = [pc EXCEPT ![j] = q]
      PROVE  /\ pc' \in [Job -> Pc] /\ KeepsLines(pc, pc', j, q) /\ KeepsCounts(pc, pc', j, q)
             /\ queue' \in Seq(Job) /\ Line(pc', {"queued"}, Job, queue')
             /\ Line(pc', {"waitbrowser"}, Job, browser.waiting)
             /\ Line(pc', {"waitpackage"}, Job, package.waiting)
             /\ Count(pc', HoldsBrowser, Job, browser.active)
             /\ Count(pc', {"packaging"}, Job, package.active)
             /\ \A k \in Job : /\ pc'[k] = "wokenbrowser" <=> pc[k] = "wokenbrowser"
                               /\ pc'[k] = "wokenpackage" <=> pc[k] = "wokenpackage"
                               /\ pc'[k] = "wokenhost" <=> pc[k] = "wokenhost"
  <2>0. q \in Pc /\ q \notin {"queued"}
    BY DEF Pc, Running, HoldsHost
  <2>1. pc' \in [Job -> Pc] /\ KeepsLines(pc, pc', j, q) /\ KeepsCounts(pc, pc', j, q)
    BY <1>2, <1>5, <2>0, SlotFacts, Keeps
  <2>2. Line(pc', {"queued"}, Job, RemoveAt(queue, n))
    BY <1>1, <1>5, <2>0, SlotFacts, LinePicked
  <2>3. queue' \in Seq(Job) /\ Line(pc', {"queued"}, Job, queue')
    BY <1>0, <2>2 DEF Line, Exactly
  <2>4. /\ Line(pc', {"waitbrowser"}, Job, browser.waiting)
        /\ Line(pc', {"waitpackage"}, Job, package.waiting)
    BY <1>4, <2>1, SlotFacts DEF KeepsLines
  <2>5. /\ Count(pc', HoldsBrowser, Job, browser.active)
        /\ Count(pc', {"packaging"}, Job, package.active)
    BY <1>4, <2>1, SlotFacts DEF KeepsCounts, HoldsBrowser
  <2>6. \A k \in Job : /\ pc'[k] = "wokenbrowser" <=> pc[k] = "wokenbrowser"
                       /\ pc'[k] = "wokenpackage" <=> pc[k] = "wokenpackage"
                       /\ pc'[k] = "wokenhost" <=> pc[k] = "wokenhost"
    BY <1>2, <1>4, <1>5, SlotFacts
  <2>. QED
    BY <2>1, <2>3, <2>4, <2>5, <2>6
<1>. HIDE DEF n, j, h
<1>6. CASE /\ host[h].active < HostMax /\ host' = [host EXCEPT ![h] = Counted(host[h])]
           /\ pc' = [pc EXCEPT ![j] = "hashost"] /\ micro' = Append(micro, j)
  <2>1. /\ host[h] \in Semaphore /\ host' \in [Host -> Semaphore]
        /\ host'[h].active = host[h].active + 1 /\ host'[h].waiting = host[h].waiting
        /\ \A x \in Host : x # h => host'[x] = host[x]
    BY <1>3, <1>6, SlotFacts, SemaphoreTypes
  <2>2. \A x \in Host : Line(pc', {"waithost"}, On(x), host'[x].waiting)
    BY <1>3, <1>4, <1>5, <1>6, <2>1, SlotFacts DEF KeepsLines
  <2>3. Line(pc', MicroPc, Job, micro') /\ micro' # <<>>
        /\ Head(micro') = IF micro = <<>> THEN j ELSE Head(micro)
    <3>1. pc[j] \notin MicroPc /\ "hashost" \in MicroPc /\ "hashost" \in Pc
      BY <1>4, Places DEF MicroPc
    <3>2. pc \in [Job -> Pc] /\ Line(pc, MicroPc, Job, micro) /\ micro \in Seq(Job)
      BY SlotFacts
    <3>3. Follows(MicroPc, j, "hashost", micro, micro')
      BY <1>6, <3>1 DEF Follows
    <3>4. Line(pc', MicroPc, Job, micro')
      BY <1>2, <1>6, <3>1, <3>2, <3>3, FollowsLine
    <3>. QED
      BY <1>2, <1>6, <3>2, <3>4, JoinedHead
  <2>4. Count(pc', HoldsHost, On(h), host'[h].active)
    <3>1. pc[j] \notin HoldsHost /\ "hashost" \in HoldsHost /\ "hashost" \in Pc
      BY <1>4, Places DEF HoldsHost, HoldsBrowser
    <3>2. Count(pc', HoldsHost, On(h), host[h].active + 1)
      BY <1>2, <1>3, <1>6, <3>1, SlotFacts, CountUp
    <3>. QED
      BY <2>1, <3>2
  <2>5. \A x \in Host : Count(pc', HoldsHost, On(x), host'[x].active)
    BY <1>3, <1>5, <1>6, <2>1, <2>4, SlotFacts DEF KeepsCounts
  <2>6. micro' \in Seq(Job)
    BY <2>3 DEF Line, Exactly
  <2>7. Promised'
    <3>1. AtMost' /\ WokenNext' /\ Pumped' /\ BrowserPromised' /\ PackagePromised'
      BY <1>0, <1>5, <1>6, <2>3, SlotFacts
         DEF AtMost, WokenNext, Pumped, BrowserPromised, PackagePromised
    <3>2. HostPromised'
      <4>1. ASSUME NEW x \in Host, x # h, host'[x].waiting # <<>>
            PROVE  \/ host'[x].active >= HostMax
                   \/ host'[x].active + 1 >= HostMax /\ \E k \in On(x) : pc'[k] = "wokenhost"
        BY <1>3, <1>5, <1>6, <2>1, <4>1, SlotFacts DEF HostPromised
      <4>2. ASSUME host'[h].waiting # <<>>
            PROVE  host'[h].active >= HostMax
        <5>1. host[h].active >= HostMax \/ host[h].active + 1 >= HostMax
          BY <1>3, <2>1, <4>2, SlotFacts DEF HostPromised
        <5>. QED
          BY <1>3, <1>6, <2>1, <5>1, Limits, SlotFacts
      <4>. QED
        BY <4>1, <4>2 DEF HostPromised
    <3>. QED
      BY <3>1, <3>2 DEF Promised
  <2>. QED
    BY <1>0, <1>5, <1>6, <2>1, <2>2, <2>3, <2>5, <2>6, <2>7, SlotFacts, SlotGoal
<1>7. CASE /\ host[h].active >= HostMax /\ host' = [host EXCEPT ![h] = Waiting(host[h], j)]
           /\ pc' = [pc EXCEPT ![j] = "waithost"] /\ UNCHANGED micro
  <2>1. /\ host[h] \in Semaphore /\ host' \in [Host -> Semaphore]
        /\ host'[h].active = host[h].active /\ host'[h].waiting = Append(host[h].waiting, j)
        /\ \A x \in Host : x # h => host'[x] = host[x]
    <3>1. host \in [Host -> Semaphore] /\ host[h] \in Semaphore
      BY <1>3, SlotFacts
    <3>2. /\ Waiting(host[h], j) \in Semaphore /\ Waiting(host[h], j).active = host[h].active
          /\ Waiting(host[h], j).waiting = Append(host[h].waiting, j)
      BY <1>2, <3>1, SemaphoreTypes
    <3>. QED
      BY <1>3, <1>7, <3>1, <3>2
  <2>2. Line(pc', {"waithost"}, On(h), host'[h].waiting)
    <3>1. pc[j] \notin {"waithost"} /\ "waithost" \in {"waithost"} /\ "waithost" \in Pc
      BY <1>4, Places
    <3>2. Line(pc', {"waithost"}, On(h), Append(host[h].waiting, j))
      BY <1>2, <1>3, <1>7, <3>1, SlotFacts, LineJoins
    <3>. QED
      BY <2>1, <3>2
  <2>3. \A x \in Host : Line(pc', {"waithost"}, On(x), host'[x].waiting)
    BY <1>3, <1>5, <1>7, <2>1, <2>2, SlotFacts DEF KeepsLines
  <2>4. Line(pc', MicroPc, Job, micro')
    BY <1>4, <1>5, <1>7, SlotFacts DEF KeepsLines, MicroPc
  <2>5. \A x \in Host : Count(pc', HoldsHost, On(x), host'[x].active)
    BY <1>3, <1>4, <1>5, <1>7, <2>1, SlotFacts DEF KeepsCounts, HoldsHost, HoldsBrowser
  <2>6. Promised'
    <3>1. AtMost' /\ WokenNext' /\ Pumped' /\ BrowserPromised' /\ PackagePromised'
      BY <1>0, <1>5, <1>7, SlotFacts
         DEF AtMost, WokenNext, Pumped, BrowserPromised, PackagePromised
    <3>2. HostPromised'
      <4>1. ASSUME NEW x \in Host, x # h, host'[x].waiting # <<>>
            PROVE  \/ host'[x].active >= HostMax
                   \/ host'[x].active + 1 >= HostMax /\ \E k \in On(x) : pc'[k] = "wokenhost"
        BY <1>3, <1>5, <1>7, <2>1, <4>1, SlotFacts DEF HostPromised
      <4>. QED
        BY <1>7, <2>1, <4>1 DEF HostPromised
    <3>. QED
      BY <3>1, <3>2 DEF Promised
  <2>. QED
    BY <1>0, <1>5, <1>7, <2>1, <2>3, <2>4, <2>5, <2>6, SlotFacts, SlotGoal
<1>. QED
  BY <1>0, <1>6, <1>7 DEF n, j, h

-----------------------------------------------------------------------------
(* Microtasks, and what asks for a slot. *)

LEMMA NoneWoken ==
    ASSUME Slots, micro = <<>> \/ pc[Head(micro)] # "wokenbrowser"
    PROVE  \A k \in Job : pc[k] # "wokenbrowser"
  BY SlotFacts DEF WokenNext

LEMMA HostWakesSlots ==
    ASSUME Slots, NEW j \in Job, HostWakes(j)
    PROVE  Slots'
<1>. USE DEF pumping
<1>. DEFINE h == HostOf[j]
<1>0. /\ micro # <<>> /\ j = Head(micro) /\ pc[j] = "wokenhost"
      /\ host' = [host EXCEPT ![h] = Counted(host[h])]
      /\ pc' = [pc EXCEPT ![j] = "hashost"] /\ micro' = Append(Tail(micro), j)
      /\ UNCHANGED <<queue, pump_running, browser, package>>
  BY DEF HostWakes, Microtask
<1>1. h \in Host /\ \A x \in Host : x # h => j \notin On(x)
  BY Jobs DEF On
<1>. HIDE DEF h
<1>2. /\ host[h] \in Semaphore /\ host' \in [Host -> Semaphore]
      /\ host'[h].active = host[h].active + 1 /\ host'[h].waiting = host[h].waiting
      /\ \A x \in Host : x # h => host'[x] = host[x]
  <2>1. host \in [Host -> Semaphore] /\ host[h] \in Semaphore
    BY <1>1, SlotFacts
  <2>2. /\ Counted(host[h]) \in Semaphore /\ Counted(host[h]).active = host[h].active + 1
        /\ Counted(host[h]).waiting = host[h].waiting
    BY <2>1, SemaphoreTypes
  <2>. QED
    BY <1>0, <1>1, <2>1, <2>2
<1>3. \A k \in Job : pc[k] # "wokenbrowser" /\ pc'[k] # "wokenbrowser"
                     /\ (pc'[k] = "wokenpackage" <=> pc[k] = "wokenpackage")
                     /\ (k # j => pc'[k] = pc[k])
  BY <1>0, NoneWoken, SlotFacts
<1>4. Promised'
  <2>1. AtMost' /\ WokenNext' /\ Pumped' /\ BrowserPromised' /\ PackagePromised'
    BY <1>0, <1>3, SlotFacts DEF AtMost, WokenNext, Pumped, BrowserPromised, PackagePromised
  <2>2. ASSUME NEW x \in Host, x # h, host'[x].waiting # <<>>
        PROVE  \/ host'[x].active >= HostMax
               \/ host'[x].active + 1 >= HostMax /\ \E k \in On(x) : pc'[k] = "wokenhost"
    <3>1. host'[x] = host[x] /\ j \notin On(x) /\ On(x) \subseteq Job
      BY <1>1, <1>2, <2>2 DEF On
    <3>2. HostPromised
      BY SlotFacts
    <3>3. \/ host[x].active >= HostMax
          \/ host[x].active + 1 >= HostMax /\ \E k \in On(x) : pc[k] = "wokenhost"
      BY <2>2, <3>1, <3>2 DEF HostPromised
    <3>4. (\E k \in On(x) : pc[k] = "wokenhost") => \E k \in On(x) : pc'[k] = "wokenhost"
      BY <1>3, <3>1
    <3>. QED
      BY <3>1, <3>3, <3>4
  <2>3. ASSUME host'[h].waiting # <<>> PROVE host'[h].active >= HostMax
    <3>1. host[h].active >= HostMax \/ host[h].active + 1 >= HostMax
      BY <1>1, <1>2, <2>3, SlotFacts DEF HostPromised
    <3>2. host[h].active \in Nat
      BY <1>1, SlotFacts
    <3>. QED
      BY <1>2, <3>1, <3>2, Limits
  <2>4. HostPromised'
    BY <2>2, <2>3 DEF HostPromised
  <2>. QED
    BY <2>1, <2>4 DEF Promised
<1>5. /\ "hashost" \in Pc /\ "wokenhost" \in MicroPc /\ "hashost" \in MicroPc
      /\ {"hashost", "wokenhost"} \cap HoldsBrowser = {}
      /\ "wokenhost" \notin HoldsHost /\ "hashost" \in HoldsHost
  BY DEF Pc, Running, HoldsHost, HoldsBrowser, MicroPc
<1>6. /\ Follows({"waitbrowser"}, j, "hashost", browser.waiting, browser'.waiting)
      /\ Follows({"waitpackage"}, j, "hashost", package.waiting, package'.waiting)
      /\ Follows({"waithost"}, j, "hashost", host[h].waiting, host'[h].waiting)
      /\ Follows(MicroPc, j, "hashost", micro, micro')
  BY <1>0, <1>2, <1>5 DEF Follows
<1>7. /\ Tallies(HoldsBrowser, j, "hashost", browser.active, browser'.active)
      /\ Tallies({"packaging"}, j, "hashost", package.active, package'.active)
      /\ Tallies(HoldsHost, j, "hashost", host[h].active, host'[h].active)
  BY <1>0, <1>2, <1>5 DEF Tallies
<1>. QED
  BY <1>0, <1>2, <1>4, <1>5, <1>6, <1>7, SlotFacts, SlotsMove DEF h

(* await browser_semaphore.acquire(), when nobody is about to take a free one. *)
LEMMA AcquireSlots ==
    ASSUME Slots, NEW j \in Job, AcquireBrowser(j), \A k \in Job : pc[k] # "wokenbrowser",
           UNCHANGED <<queue, pump_running, package, host>>,
           \/ pc[j] = "cooldown" /\ UNCHANGED micro
           \/ pc[j] = "hashost" /\ micro # <<>> /\ j = Head(micro) /\ micro' = Tail(micro)
    PROVE  Slots'
<1>1. PICK q \in {"starting", "waitbrowser"} :
        /\ pc' = [pc EXCEPT ![j] = q]
        /\ \/ q = "starting" /\ browser.active < BrowserMax /\ browser' = Counted(browser)
           \/ q = "waitbrowser" /\ browser.active >= BrowserMax /\ browser' = Waiting(browser, j)
  BY DEF AcquireBrowser
<1>2. /\ browser' \in Semaphore
      /\ \/ /\ q = "starting" /\ browser.active < BrowserMax
            /\ browser'.active = browser.active + 1 /\ browser'.waiting = browser.waiting
         \/ /\ q = "waitbrowser" /\ browser.active >= BrowserMax
            /\ browser'.active = browser.active /\ browser'.waiting = Append(browser.waiting, j)
  <2>1. browser \in Semaphore
    BY SlotFacts
  <2>2. /\ Counted(browser) \in Semaphore /\ Counted(browser).active = browser.active + 1
        /\ Counted(browser).waiting = browser.waiting
        /\ Waiting(browser, j) \in Semaphore /\ Waiting(browser, j).active = browser.active
        /\ Waiting(browser, j).waiting = Append(browser.waiting, j)
    BY <2>1, SemaphoreTypes
  <2>. QED
    BY <1>1, <2>2
<1>3. \A k \in Job : pc'[k] # "wokenbrowser"
                     /\ (pc'[k] = "wokenpackage" <=> pc[k] = "wokenpackage")
                     /\ (pc'[k] = "wokenhost" <=> pc[k] = "wokenhost")
  BY <1>1, SlotFacts
<1>4. browser.active \in Nat /\ BrowserMax \in Nat /\ browser.active <= BrowserMax
  BY SlotFacts, Limits DEF AtMost
<1>5. Promised'
  <2>1. AtMost' /\ BrowserPromised'
    <3>1. browser.waiting # <<>> => browser.active >= BrowserMax
      BY SlotFacts DEF BrowserPromised
    <3>. QED
      BY <1>2, <1>4, <3>1 DEF AtMost, BrowserPromised
  <2>2. Pumped'
    <3>1. queue # <<>> => pump_running \/ browser.active >= BrowserMax
      BY SlotFacts DEF Pumped
    <3>. QED
      BY <1>2, <1>4, <3>1 DEF Pumped
  <2>3. WokenNext'
    BY <1>3 DEF WokenNext
  <2>4. PackagePromised'
    BY <1>3, SlotFacts DEF PackagePromised
  <2>5. HostPromised'
    BY <1>3, SlotFacts DEF HostPromised, On
  <2>. QED
    BY <2>1, <2>2, <2>3, <2>4, <2>5 DEF Promised
<1>6. /\ q \in Pc /\ q \notin MicroPc /\ "cooldown" \notin MicroPc /\ "hashost" \in MicroPc
      /\ {"hashost", "cooldown", "waitbrowser"} \cap HoldsBrowser = {} /\ "starting" \in HoldsBrowser
      /\ {"hashost", "cooldown", "waitbrowser", "starting"} \subseteq HoldsHost
  BY DEF Pc, Running, HoldsHost, HoldsBrowser, MicroPc
<1>7. HostOf[j] \in Host
  BY Jobs
<1>8. /\ Follows({"waitbrowser"}, j, q, browser.waiting, browser'.waiting)
      /\ Follows({"waitpackage"}, j, q, package.waiting, package'.waiting)
      /\ Follows({"waithost"}, j, q, host[HostOf[j]].waiting, host'[HostOf[j]].waiting)
      /\ Follows(MicroPc, j, q, micro, micro')
  BY <1>2, <1>6 DEF Follows
<1>9. /\ Tallies(HoldsBrowser, j, q, browser.active, browser'.active)
      /\ Tallies({"packaging"}, j, q, package.active, package'.active)
      /\ Tallies(HoldsHost, j, q, host[HostOf[j]].active, host'[HostOf[j]].active)
  BY <1>2, <1>6 DEF Tallies
<1>. QED
  BY <1>1, <1>2, <1>5, <1>6, <1>8, <1>9, SlotFacts, SlotsMove

LEMMA HostGrantedSlots ==
    ASSUME Slots, NEW j \in Job, HostGranted(j)
    PROVE  Slots'
<1>. USE DEF pumping
<1>0. /\ micro # <<>> /\ j = Head(micro) /\ pc[j] = "hashost" /\ micro' = Tail(micro)
      /\ UNCHANGED <<queue, pump_running, package, host>>
      /\ \/ pc' = [pc EXCEPT ![j] = "cooldown"] /\ UNCHANGED browser
         \/ AcquireBrowser(j)
  BY DEF HostGranted, Microtask
<1>1. \A k \in Job : pc[k] # "wokenbrowser"
  BY <1>0, NoneWoken
<1>2. CASE AcquireBrowser(j)
  BY <1>0, <1>1, <1>2, AcquireSlots
<1>3. CASE pc' = [pc EXCEPT ![j] = "cooldown"] /\ UNCHANGED browser
  <2>1. \A k \in Job : pc'[k] # "wokenbrowser"
                       /\ (pc'[k] = "wokenpackage" <=> pc[k] = "wokenpackage")
                       /\ (pc'[k] = "wokenhost" <=> pc[k] = "wokenhost")
    BY <1>0, <1>1, <1>3, SlotFacts
  <2>2. AtMost' /\ Pumped' /\ WokenNext' /\ BrowserPromised' /\ PackagePromised' /\ HostPromised'
    BY <1>0, <1>1, <1>3, <2>1, SlotFacts
       DEF AtMost, Pumped, WokenNext, BrowserPromised, PackagePromised, HostPromised, On
  <2>3. Promised'
    BY <2>2 DEF Promised
  <2>4. /\ "cooldown" \in Pc /\ "cooldown" \notin MicroPc /\ "hashost" \in MicroPc
        /\ {"hashost", "cooldown"} \cap HoldsBrowser = {} /\ {"hashost", "cooldown"} \subseteq HoldsHost
    BY DEF Pc, Running, HoldsHost, HoldsBrowser, MicroPc
  <2>5. /\ Follows({"waitbrowser"}, j, "cooldown", browser.waiting, browser'.waiting)
        /\ Follows({"waitpackage"}, j, "cooldown", package.waiting, package'.waiting)
        /\ Follows({"waithost"}, j, "cooldown", host[HostOf[j]].waiting, host'[HostOf[j]].waiting)
        /\ Follows(MicroPc, j, "cooldown", micro, micro')
    BY <1>0, <1>3, <2>4 DEF Follows
  <2>6. /\ Tallies(HoldsBrowser, j, "cooldown", browser.active, browser'.active)
        /\ Tallies({"packaging"}, j, "cooldown", package.active, package'.active)
        /\ Tallies(HoldsHost, j, "cooldown", host[HostOf[j]].active, host'[HostOf[j]].active)
    BY <1>0, <1>3, <2>4 DEF Tallies
  <2>. QED
    BY <1>0, <1>3, <2>3, <2>4, <2>5, <2>6, SlotFacts, SlotsMove
<1>. QED
  BY <1>0, <1>2, <1>3

LEMMA EndCooldownSlots ==
    ASSUME Slots, NEW j \in Job, EndCooldown(j)
    PROVE  Slots'
<1>1. /\ micro = <<>> /\ pc[j] = "cooldown" /\ AcquireBrowser(j)
      /\ UNCHANGED <<queue, pump_running, package, host, micro>>
  BY DEF EndCooldown, Idle, pumping
<1>2. \A k \in Job : pc[k] # "wokenbrowser"
  BY <1>1, NoneWoken
<1>. QED
  BY <1>1, <1>2, AcquireSlots

LEMMA BrowserWakesSlots ==
    ASSUME Slots, NEW j \in Job, BrowserWakes(j)
    PROVE  Slots'
<1>. USE DEF pumping
<1>0. /\ micro # <<>> /\ j = Head(micro) /\ pc[j] = "wokenbrowser" /\ micro' = Tail(micro)
      /\ ~pump_running /\ UNCHANGED <<queue, pump_running, package, host>>
      /\ pc' = [pc EXCEPT ![j] = "starting"] /\ browser' = Counted(browser)
  BY DEF BrowserWakes, Microtask
<1>1. /\ browser' \in Semaphore /\ browser'.active = browser.active + 1
      /\ browser'.waiting = browser.waiting
  <2>1. browser \in Semaphore
    BY SlotFacts
  <2>. QED
    BY <1>0, <2>1, SemaphoreTypes
<1>2. /\ \A k \in Job : pc[k] = "wokenbrowser" => k = j
      /\ browser.active < BrowserMax /\ browser.active \in Nat /\ BrowserMax \in Nat
  BY <1>0, SlotFacts, Limits DEF WokenNext
<1>3. \A k \in Job : pc'[k] # "wokenbrowser"
                     /\ (pc'[k] = "wokenpackage" <=> pc[k] = "wokenpackage")
                     /\ (pc'[k] = "wokenhost" <=> pc[k] = "wokenhost")
  BY <1>0, <1>2, SlotFacts
<1>4. Promised'
  <2>1. AtMost' /\ BrowserPromised'
    <3>1. browser.waiting # <<>> => browser.active >= BrowserMax \/ browser.active + 1 >= BrowserMax
      BY SlotFacts DEF BrowserPromised
    <3>. QED
      BY <1>1, <1>2, <3>1 DEF AtMost, BrowserPromised
  <2>2. Pumped'
    <3>1. queue # <<>> => browser.active >= BrowserMax
      BY <1>0, SlotFacts DEF Pumped
    <3>. QED
      BY <1>0, <1>1, <1>2, <3>1 DEF Pumped
  <2>3. WokenNext'
    BY <1>3 DEF WokenNext
  <2>4. PackagePromised'
    BY <1>0, <1>3, SlotFacts DEF PackagePromised
  <2>5. HostPromised'
    BY <1>0, <1>3, SlotFacts DEF HostPromised, On
  <2>. QED
    BY <2>1, <2>2, <2>3, <2>4, <2>5 DEF Promised
<1>5. /\ "starting" \in Pc /\ "starting" \notin MicroPc /\ "wokenbrowser" \in MicroPc
      /\ "wokenbrowser" \notin HoldsBrowser /\ "starting" \in HoldsBrowser
      /\ {"wokenbrowser", "starting"} \subseteq HoldsHost
  BY DEF Pc, Running, HoldsHost, HoldsBrowser, MicroPc
<1>6. /\ Follows({"waitbrowser"}, j, "starting", browser.waiting, browser'.waiting)
      /\ Follows({"waitpackage"}, j, "starting", package.waiting, package'.waiting)
      /\ Follows({"waithost"}, j, "starting", host[HostOf[j]].waiting, host'[HostOf[j]].waiting)
      /\ Follows(MicroPc, j, "starting", micro, micro')
  BY <1>0, <1>1, <1>5 DEF Follows
<1>7. /\ Tallies(HoldsBrowser, j, "starting", browser.active, browser'.active)
      /\ Tallies({"packaging"}, j, "starting", package.active, package'.active)
      /\ Tallies(HoldsHost, j, "starting", host[HostOf[j]].active, host'[HostOf[j]].active)
  BY <1>0, <1>1, <1>5 DEF Tallies
<1>. QED
  BY <1>0, <1>1, <1>4, <1>5, <1>6, <1>7, SlotFacts, SlotsMove

LEMMA PackageWakesSlots ==
    ASSUME Slots, NEW j \in Job, PackageWakes(j)
    PROVE  Slots'
<1>. USE DEF pumping
<1>0. /\ micro # <<>> /\ j = Head(micro) /\ pc[j] = "wokenpackage" /\ micro' = Tail(micro)
      /\ UNCHANGED <<queue, pump_running, browser, host>>
      /\ pc' = [pc EXCEPT ![j] = "packaging"] /\ package' = Counted(package)
  BY DEF PackageWakes, Microtask
<1>1. /\ package' \in Semaphore /\ package'.active = package.active + 1
      /\ package'.waiting = package.waiting
  <2>1. package \in Semaphore
    BY SlotFacts
  <2>. QED
    BY <1>0, <2>1, SemaphoreTypes
<1>2. \A k \in Job : pc[k] # "wokenbrowser"
  BY <1>0, NoneWoken
<1>3. \A k \in Job : pc'[k] # "wokenbrowser" /\ (pc'[k] = "wokenhost" <=> pc[k] = "wokenhost")
  BY <1>0, <1>2, SlotFacts
<1>4. Promised'
  <2>1. AtMost' /\ WokenNext' /\ Pumped' /\ BrowserPromised'
    BY <1>0, <1>2, <1>3, SlotFacts DEF AtMost, WokenNext, Pumped, BrowserPromised
  <2>2. PackagePromised'
    <3>1. package.waiting # <<>> => package.active >= PackageMax \/ package.active + 1 >= PackageMax
      BY SlotFacts DEF PackagePromised
    <3>2. package.active \in Nat /\ PackageMax \in Nat
      BY SlotFacts, Limits
    <3>. QED
      BY <1>1, <3>1, <3>2 DEF PackagePromised
  <2>3. HostPromised'
    BY <1>0, <1>3, SlotFacts DEF HostPromised, On
  <2>. QED
    BY <2>1, <2>2, <2>3 DEF Promised
<1>5. /\ "packaging" \in Pc /\ "packaging" \notin MicroPc /\ "wokenpackage" \in MicroPc
      /\ {"wokenpackage", "packaging"} \subseteq HoldsBrowser
      /\ {"wokenpackage", "packaging"} \subseteq HoldsHost
  BY DEF Pc, Running, HoldsHost, HoldsBrowser, MicroPc
<1>6. /\ Follows({"waitbrowser"}, j, "packaging", browser.waiting, browser'.waiting)
      /\ Follows({"waitpackage"}, j, "packaging", package.waiting, package'.waiting)
      /\ Follows({"waithost"}, j, "packaging", host[HostOf[j]].waiting, host'[HostOf[j]].waiting)
      /\ Follows(MicroPc, j, "packaging", micro, micro')
  BY <1>0, <1>1, <1>5 DEF Follows
<1>7. /\ Tallies(HoldsBrowser, j, "packaging", browser.active, browser'.active)
      /\ Tallies({"packaging"}, j, "packaging", package.active, package'.active)
      /\ Tallies(HoldsHost, j, "packaging", host[HostOf[j]].active, host'[HostOf[j]].active)
  BY <1>0, <1>1, <1>5 DEF Tallies
<1>. QED
  BY <1>0, <1>1, <1>4, <1>5, <1>6, <1>7, SlotFacts, SlotsMove

LEMMA RequestPackagingSlots ==
    ASSUME Slots, NEW j \in Job, RequestPackaging(j)
    PROVE  Slots'
<1>. USE DEF pumping
<1>0. /\ micro = <<>> /\ pc[j] = "extended"
      /\ UNCHANGED <<queue, pump_running, browser, host, micro>>
  BY DEF RequestPackaging, Idle
<1>1. PICK q \in {"packaging", "waitpackage"} :
        /\ pc' = [pc EXCEPT ![j] = q]
        /\ \/ q = "packaging" /\ package.active < PackageMax /\ package' = Counted(package)
           \/ q = "waitpackage" /\ package.active >= PackageMax /\ package' = Waiting(package, j)
  BY DEF RequestPackaging
<1>2. /\ package' \in Semaphore
      /\ \/ /\ q = "packaging" /\ package.active < PackageMax
            /\ package'.active = package.active + 1 /\ package'.waiting = package.waiting
         \/ /\ q = "waitpackage" /\ package.active >= PackageMax
            /\ package'.active = package.active /\ package'.waiting = Append(package.waiting, j)
  <2>1. package \in Semaphore
    BY SlotFacts
  <2>2. /\ Counted(package) \in Semaphore /\ Counted(package).active = package.active + 1
        /\ Counted(package).waiting = package.waiting
        /\ Waiting(package, j) \in Semaphore /\ Waiting(package, j).active = package.active
        /\ Waiting(package, j).waiting = Append(package.waiting, j)
    BY <2>1, SemaphoreTypes
  <2>. QED
    BY <1>1, <2>2
<1>3. \A k \in Job : /\ pc'[k] = "wokenbrowser" <=> pc[k] = "wokenbrowser"
                     /\ pc'[k] = "wokenpackage" <=> pc[k] = "wokenpackage"
                     /\ pc'[k] = "wokenhost" <=> pc[k] = "wokenhost"
  BY <1>0, <1>1, SlotFacts
<1>4. Promised'
  <2>1. AtMost' /\ WokenNext' /\ Pumped' /\ BrowserPromised'
    BY <1>0, <1>3, SlotFacts DEF AtMost, WokenNext, Pumped, BrowserPromised
  <2>2. PackagePromised'
    <3>1. package.waiting # <<>> => package.active >= PackageMax \/ package.active + 1 >= PackageMax
      BY SlotFacts DEF PackagePromised
    <3>2. package.active \in Nat /\ PackageMax \in Nat
      BY SlotFacts, Limits
    <3>. QED
      BY <1>2, <3>1, <3>2 DEF PackagePromised
  <2>3. HostPromised'
    BY <1>0, <1>3, SlotFacts DEF HostPromised, On
  <2>. QED
    BY <2>1, <2>2, <2>3 DEF Promised
<1>5. /\ q \in Pc /\ {"extended", "packaging", "waitpackage"} \cap MicroPc = {}
      /\ {"extended", "packaging", "waitpackage"} \subseteq HoldsBrowser
      /\ {"extended", "packaging", "waitpackage"} \subseteq HoldsHost
  BY DEF Pc, Running, HoldsHost, HoldsBrowser, MicroPc
<1>6. /\ Follows({"waitbrowser"}, j, q, browser.waiting, browser'.waiting)
      /\ Follows({"waitpackage"}, j, q, package.waiting, package'.waiting)
      /\ Follows({"waithost"}, j, q, host[HostOf[j]].waiting, host'[HostOf[j]].waiting)
      /\ Follows(MicroPc, j, q, micro, micro')
  BY <1>0, <1>1, <1>2, <1>5 DEF Follows
<1>7. /\ Tallies(HoldsBrowser, j, q, browser.active, browser'.active)
      /\ Tallies({"packaging"}, j, q, package.active, package'.active)
      /\ Tallies(HoldsHost, j, q, host[HostOf[j]].active, host'[HostOf[j]].active)
  BY <1>0, <1>1, <1>2, <1>5 DEF Tallies
<1>. QED
  BY <1>0, <1>1, <1>2, <1>4, <1>5, <1>6, <1>7, SlotFacts, SlotsMove

-----------------------------------------------------------------------------
(* Slots that are given back. *)

(* Between two callbacks nobody is about to take a slot. *)
LEMMA IdleSlots ==
    ASSUME Slots, Idle
    PROVE  /\ \A k \in Job : pc[k] \notin MicroPc
           /\ queue # <<>> \/ browser.waiting # <<>> => browser.active >= BrowserMax
           /\ package.waiting # <<>> => package.active >= PackageMax
           /\ \A h \in Host : host[h].waiting # <<>> => host[h].active >= HostMax
<1>1. micro = <<>> /\ ~pump_running
  BY DEF Idle
<1>2. \A k \in Job : pc[k] \notin MicroPc
  <2>. DEFINE A == Those(pc, MicroPc, Job)
  <2>1. A \in SUBSET Job /\ Exactly(micro, A)
    BY SlotFacts DEF Line, Those
  <2>. HIDE DEF A
  <2>2. A = {}
    BY <1>1, <2>1, LineEmpty
  <2>. QED
    BY <2>2 DEF A, Those
<1>3. \A k \in Job : pc[k] \notin {"wokenbrowser", "wokenpackage", "wokenhost"}
  BY <1>2 DEF MicroPc
<1>4. Pumped /\ BrowserPromised /\ PackagePromised /\ HostPromised
  BY SlotFacts
<1>5. \A h \in Host : On(h) \subseteq Job
  BY DEF On
<1>6. queue # <<>> \/ browser.waiting # <<>> => browser.active >= BrowserMax
  BY <1>1, <1>3, <1>4 DEF Pumped, BrowserPromised
<1>7. package.waiting # <<>> => package.active >= PackageMax
  BY <1>3, <1>4 DEF PackagePromised
<1>8. \A h \in Host : host[h].waiting # <<>> => host[h].active >= HostMax
  BY <1>3, <1>4, <1>5 DEF HostPromised
<1>. QED
  BY <1>2, <1>6, <1>7, <1>8

(* What a wakeup from the place w to q of a job of T leaves as it was. *)
WakesLines(f, g, w, q, T) ==
  \A S : \A U \in SUBSET Job : \A l :
    Line(f, S, U, l) /\ ((w \in S <=> q \in S) \/ T \cap U = {}) => Line(g, S, U, l)
WakesCounts(f, g, w, q) ==
  \A S : \A U \in SUBSET Job : \A n : Count(f, S, U, n) /\ (w \in S <=> q \in S) => Count(g, S, U, n)

WakesFirst(f, g, s, w, q, T) ==
  /\ g \in [Job -> Pc]
  /\ \A k \in Job : g[k] = IF k \in ToSet(Woken(s)) THEN q ELSE f[k]
  /\ \A k \in Job : k \in ToSet(Woken(s)) => k \in T /\ f[k] = w

LEMMA Wakes ==
    ASSUME NEW f \in [Job -> Pc], NEW s \in Semaphore, NEW w, NEW T \in SUBSET Job,
           Line(f, {w}, T, s.waiting), NEW q \in Pc
    PROVE  /\ WakesLines(f, Wake(f, s, q), w, q, T) /\ WakesCounts(f, Wake(f, s, q), w, q)
           /\ WakesFirst(f, Wake(f, s, q), s, w, q, T)
<1>1. ASSUME NEW S, NEW U \in SUBSET Job, NEW l, Line(f, S, U, l),
             (w \in S <=> q \in S) \/ T \cap U = {}
      PROVE  Line(Wake(f, s, q), S, U, l)
  BY <1>1, WakeKept
<1>2. ASSUME NEW S, NEW U \in SUBSET Job, NEW n, Count(f, S, U, n), w \in S <=> q \in S
      PROVE  Count(Wake(f, s, q), S, U, n)
  BY <1>2, WakeCounts
<1>3. WakesLines(f, Wake(f, s, q), w, q, T)
  BY <1>1 DEF WakesLines
<1>4. WakesCounts(f, Wake(f, s, q), w, q)
  BY <1>2 DEF WakesCounts
<1>5. WakesFirst(f, Wake(f, s, q), s, w, q, T)
  BY WakeMoves DEF WakesFirst
<1>. QED
  BY <1>3, <1>4, <1>5

(* A job that goes to q no longer counts where q does not. *)
DropsCounts(f, g, j, q) ==
  \A S : \A T \in SUBSET Job : \A n \in Nat :
    Count(f, S, T, n) /\ j \in T /\ f[j] \in S /\ q \notin S => Count(g, S, T, n - 1) /\ n > 0

LEMMA Drops ==
    ASSUME NEW f \in [Job -> Pc], NEW j \in Job, NEW q \in Pc, NEW g, g = [f EXCEPT ![j] = q]
    PROVE  DropsCounts(f, g, j, q)
<1>1. ASSUME NEW S, NEW T \in SUBSET Job, NEW n \in Nat, Count(f, S, T, n),
             j \in T, f[j] \in S, q \notin S
      PROVE  Count(g, S, T, n - 1) /\ n > 0
  BY <1>1, CountDown
<1>. QED
  BY <1>1 DEF DropsCounts

(* The package slot is given back, and the first that waits for it is woken. *)
LEMMA ReleasePackageSlots ==
    ASSUME Slots, Idle, NEW j \in Job, pc[j] = "packaging",
           NEW q \in {"archiving", "mark_failed", "mark_cancelled"},
           package' = Released(package), micro' = Woken(package),
           pc' = Becomes(j, q, Woken(package), "wokenpackage"),
           UNCHANGED <<queue, pump_running, browser, host>>
    PROVE  Slots'
<1>. DEFINE f == [pc EXCEPT ![j] = q]
            g == Wake(f, package, "wokenpackage")
<1>0. /\ q \in Pc /\ "wokenpackage" \in Pc /\ "packaging" \in Pc
      /\ {q, "packaging"} \cap MicroPc = {} /\ "waitpackage" \notin MicroPc
      /\ "wokenpackage" \in MicroPc
      /\ {q, "packaging", "waitpackage", "wokenpackage"} \subseteq HoldsBrowser
      /\ {q, "packaging", "waitpackage", "wokenpackage"} \subseteq HoldsHost
      /\ q \notin {"queued", "waitbrowser", "waitpackage", "waithost", "packaging"}
  BY DEF Pc, Running, HoldsHost, HoldsBrowser, MicroPc
<1>1. micro = <<>> /\ ~pump_running
  BY DEF Idle
<1>2. f \in [Job -> Pc] /\ KeepsLines(pc, f, j, q) /\ KeepsCounts(pc, f, j, q)
  BY <1>0, SlotFacts, Keeps
<1>3. f[j] = q /\ \A k \in Job : k # j => f[k] = pc[k]
  BY SlotFacts
<1>4. Line(f, {"waitpackage"}, Job, package.waiting) /\ package \in Semaphore /\ Job \in SUBSET Job
  BY <1>0, <1>2, SlotFacts DEF KeepsLines
<1>5. Count(f, {"packaging"}, Job, package.active - 1) /\ package.active > 0
  <2>1. Count(pc, {"packaging"}, Job, package.active) /\ package.active \in Nat /\ pc \in [Job -> Pc]
    BY SlotFacts
  <2>2. Job \in SUBSET Job /\ pc[j] \in {"packaging"} /\ q \notin {"packaging"} /\ q \in Pc
    BY <1>0
  <2>. QED
    BY <2>1, <2>2, CountDown
<1>. HIDE DEF f
<1>7. /\ WakesLines(f, g, "waitpackage", "wokenpackage", Job)
      /\ WakesCounts(f, g, "waitpackage", "wokenpackage")
      /\ WakesFirst(f, g, package, "waitpackage", "wokenpackage", Job)
  BY <1>0, <1>2, <1>4, Wakes
<1>6. /\ g \in [Job -> Pc]
      /\ \A k \in Job : g[k] = IF k \in ToSet(Woken(package)) THEN "wokenpackage" ELSE f[k]
      /\ \A k \in Job : k \in ToSet(Woken(package)) => f[k] = "waitpackage"
  BY <1>7 DEF WakesFirst
<1>8. Line(g, {"waitpackage"}, Job, Released(package).waiting)
  BY <1>0, <1>2, <1>4, WakeLeaves
<1>9. Line(g, MicroPc, Job, Woken(package))
  <2>1. Line(f, MicroPc, Job, <<>>)
    BY <1>0, <1>1, <1>2, SlotFacts DEF KeepsLines
  <2>2. Line(g, MicroPc, Job, <<>> \o Woken(package))
    BY <1>0, <1>2, <1>4, <2>1, WakeJoins
  <2>3. <<>> \o Woken(package) = Woken(package)
    BY <1>4, SemaphoreTypes, ConcatEmptySeq
  <2>. QED
    BY <2>2, <2>3
<1>. HIDE DEF g
<1>10. pc' = g
  <2>1. \A k \in Job : g[k] = IF k = j THEN q ELSE IF k \in ToSet(Woken(package)) THEN "wokenpackage" ELSE pc[k]
    BY <1>0, <1>3, <1>6
  <2>. QED
    BY <1>6, <2>1 DEF Becomes
<1>11. /\ package' \in Semaphore /\ package'.active = package.active - 1
       /\ package.waiting = <<>> => package'.waiting = <<>>
       /\ package.waiting # <<>> => /\ Woken(package) = <<Head(package.waiting)>>
                                    /\ Head(package.waiting) \in Job
       /\ micro' \in Seq(Job)
  BY <1>4, <1>5, SemaphoreTypes
<1>12. /\ Line(pc', {"queued"}, Job, queue)
       /\ Line(pc', {"waitbrowser"}, Job, browser.waiting)
       /\ \A h \in Host : Line(pc', {"waithost"}, On(h), host[h].waiting)
  <2>1. /\ Line(f, {"queued"}, Job, queue)
        /\ Line(f, {"waitbrowser"}, Job, browser.waiting)
    BY <1>0, <1>2, SlotFacts DEF KeepsLines
  <2>2. \A h \in Host : Line(f, {"waithost"}, On(h), host[h].waiting) /\ On(h) \in SUBSET Job
    BY <1>0, <1>2, SlotFacts, Jobs DEF KeepsLines
  <2>. QED
    BY <1>7, <1>10, <2>1, <2>2 DEF WakesLines
<1>13. /\ Count(pc', HoldsBrowser, Job, browser.active)
       /\ Count(pc', {"packaging"}, Job, package.active - 1)
       /\ \A h \in Host : Count(pc', HoldsHost, On(h), host[h].active)
  <2>1. Count(f, HoldsBrowser, Job, browser.active)
    BY <1>0, <1>2, SlotFacts DEF KeepsCounts
  <2>2. \A h \in Host : Count(f, HoldsHost, On(h), host[h].active) /\ On(h) \in SUBSET Job
    BY <1>0, <1>2, SlotFacts, Jobs DEF KeepsCounts
  <2>. QED
    BY <1>0, <1>5, <1>7, <1>10, <2>1, <2>2 DEF WakesCounts
<1>14. Promised'
  <2>1. AtMost' /\ Pumped' /\ BrowserPromised'
    BY <1>1, SlotFacts, IdleSlots DEF AtMost, Pumped, BrowserPromised
  <2>2. HostPromised'
    BY IdleSlots DEF HostPromised
  <2>3. WokenNext'
    <3>1. \A k \in Job : pc'[k] # "wokenbrowser"
      BY <1>0, <1>3, <1>6, <1>10, IdleSlots DEF MicroPc
    <3>. QED
      BY <3>1 DEF WokenNext
  <2>4. PackagePromised'
    <3>. SUFFICES ASSUME package'.waiting # <<>>
                  PROVE  package'.active + 1 >= PackageMax /\ \E k \in Job : pc'[k] = "wokenpackage"
      BY DEF PackagePromised
    <3>1. package.waiting # <<>>
      BY <1>11
    <3>2. package.active >= PackageMax
      BY <3>1, IdleSlots
    <3>3. Head(package.waiting) \in ToSet(Woken(package))
      BY <1>11, <3>1 DEF ToSet
    <3>4. pc'[Head(package.waiting)] = "wokenpackage"
      BY <1>6, <1>10, <1>11, <3>1, <3>3
    <3>5. package'.active + 1 >= PackageMax
      BY <1>5, <1>11, <3>2, SlotFacts, Limits
    <3>. QED
      BY <1>11, <3>1, <3>4, <3>5
  <2>. QED
    BY <2>1, <2>2, <2>3, <2>4 DEF Promised
<1>. QED
  BY <1>6, <1>8, <1>9, <1>10, <1>11, <1>12, <1>13, <1>14, SlotFacts, SlotGoal

(* The finally block gives the browser and the host back, and wakes for both. *)
LEMMA FinishSlots ==
    ASSUME Slots, Idle, NEW j \in Job, pc[j] \in {"superseding", "mark_failed", "mark_cancelled"},
           Finish(j)
    PROVE  Slots'
<1>. DEFINE h == HostOf[j]
            f == [pc EXCEPT ![j] = "done"]
            b == Wake(f, browser, "wokenbrowser")
            g == Wake(b, host[h], "wokenhost")
<1>a. /\ browser' = Released(browser) /\ host' = [host EXCEPT ![h] = Released(host[h])]
      /\ micro' = Woken(browser) \o Woken(host[h])
      /\ pc' = [k \in Job |-> IF k = j THEN "done"
                              ELSE IF k \in ToSet(Woken(browser)) THEN "wokenbrowser"
                              ELSE IF k \in ToSet(Woken(host[h])) THEN "wokenhost" ELSE pc[k]]
      /\ pump_running' = TRUE /\ UNCHANGED <<queue, package>>
  BY DEF Finish
<1>0. /\ {"done", "wokenbrowser", "wokenhost"} \subseteq Pc
      /\ {"wokenbrowser", "wokenhost"} \subseteq MicroPc
      /\ {"done", "superseding", "mark_failed", "mark_cancelled", "waitbrowser", "waithost"} \cap MicroPc = {}
      /\ {"superseding", "mark_failed", "mark_cancelled"} \subseteq HoldsBrowser
      /\ {"done", "waitbrowser", "wokenbrowser", "waithost", "wokenhost"} \cap HoldsBrowser = {}
      /\ {"superseding", "mark_failed", "mark_cancelled", "waitbrowser", "wokenbrowser"} \subseteq HoldsHost
      /\ {"done", "waithost", "wokenhost"} \cap HoldsHost = {}
  BY DEF Pc, Running, HoldsHost, HoldsBrowser, MicroPc
<1>1. micro = <<>> /\ ~pump_running
  BY DEF Idle
<1>2. /\ f \in [Job -> Pc] /\ KeepsLines(pc, f, j, "done") /\ KeepsCounts(pc, f, j, "done")
      /\ f[j] = "done" /\ \A k \in Job : k # j => f[k] = pc[k]
  BY <1>0, SlotFacts, Keeps
<1>d. DropsCounts(pc, f, j, "done")
  BY <1>0, SlotFacts, Drops
<1>3. /\ h \in Host /\ j \in On(h) /\ host \in [Host -> Semaphore]
      /\ browser \in Semaphore /\ host[h] \in Semaphore
      /\ \A x \in Host : On(x) \in SUBSET Job /\ (x # h => j \notin On(x) /\ On(h) \cap On(x) = {})
  BY Jobs, SlotFacts DEF On
<1>4. /\ Line(f, {"queued"}, Job, queue)
      /\ Line(f, {"waitbrowser"}, Job, browser.waiting)
      /\ Line(f, {"waitpackage"}, Job, package.waiting)
      /\ Line(f, MicroPc, Job, <<>>)
  BY <1>0, <1>1, <1>2, SlotFacts DEF KeepsLines
<1>5. \A x \in Host : Line(f, {"waithost"}, On(x), host[x].waiting)
  BY <1>2, <1>3, SlotFacts DEF KeepsLines
<1>6. Count(f, HoldsBrowser, Job, browser.active - 1) /\ browser.active > 0
  <2>1. Count(pc, HoldsBrowser, Job, browser.active) /\ browser.active \in Nat /\ pc \in [Job -> Pc]
    BY SlotFacts
  <2>2. Job \in SUBSET Job /\ pc[j] \in HoldsBrowser /\ "done" \notin HoldsBrowser /\ "done" \in Pc
    BY <1>0
  <2>. HIDE DEF f
  <2>. QED
    BY <1>d, <2>1, <2>2 DEF DropsCounts
<1>7. Count(f, HoldsHost, On(h), host[h].active - 1) /\ host[h].active > 0
  <2>1. Count(pc, HoldsHost, On(h), host[h].active) /\ host[h].active \in Nat /\ pc \in [Job -> Pc]
    BY <1>3, SlotFacts
  <2>2. On(h) \in SUBSET Job /\ pc[j] \in HoldsHost /\ "done" \notin HoldsHost /\ "done" \in Pc
    BY <1>0, <1>3
  <2>. HIDE DEF f, h
  <2>. QED
    BY <1>d, <1>3, <2>1, <2>2 DEF DropsCounts
<1>8. /\ Count(f, {"packaging"}, Job, package.active)
      /\ \A x \in Host : x # h => Count(f, HoldsHost, On(x), host[x].active)
  BY <1>2, <1>3, SlotFacts DEF KeepsCounts
<1>. HIDE DEF f, h
<1>9. /\ WakesLines(f, b, "waitbrowser", "wokenbrowser", Job)
      /\ WakesCounts(f, b, "waitbrowser", "wokenbrowser")
      /\ WakesFirst(f, b, browser, "waitbrowser", "wokenbrowser", Job)
  BY <1>0, <1>2, <1>3, <1>4, Wakes
<1>10. Line(b, {"waitbrowser"}, Job, Released(browser).waiting)
  BY <1>0, <1>2, <1>3, <1>4, WakeLeaves
<1>11. Line(b, MicroPc, Job, Woken(browser)) /\ Woken(browser) \in Seq(Job)
  <2>1. Line(b, MicroPc, Job, <<>> \o Woken(browser))
    BY <1>0, <1>2, <1>3, <1>4, WakeJoins
  <2>2. <<>> \o Woken(browser) = Woken(browser) /\ Woken(browser) \in Seq(Job)
    BY <1>3, SemaphoreTypes, ConcatEmptySeq
  <2>. QED
    BY <2>1, <2>2
<1>12. b \in [Job -> Pc] /\ Line(b, {"waithost"}, On(h), host[h].waiting)
  <2>1. Line(f, {"waithost"}, On(h), host[h].waiting) /\ On(h) \in SUBSET Job
    BY <1>3, <1>5
  <2>. QED
    BY <1>9, <2>1 DEF WakesLines, WakesFirst
<1>. HIDE DEF b
<1>13. /\ WakesLines(b, g, "waithost", "wokenhost", On(h))
       /\ WakesCounts(b, g, "waithost", "wokenhost")
       /\ WakesFirst(b, g, host[h], "waithost", "wokenhost", On(h))
  <2>1. On(h) \in SUBSET Job /\ "wokenhost" \in Pc
    BY <1>0, <1>3
  <2>. QED
    BY <1>3, <1>12, <2>1, Wakes
<1>14. Line(g, {"waithost"}, On(h), Released(host[h]).waiting)
  <2>1. On(h) \in SUBSET Job /\ "wokenhost" \in Pc /\ "wokenhost" # "waithost"
    BY <1>0, <1>3
  <2>. QED
    BY <1>3, <1>12, <2>1, WakeLeaves
<1>15. Line(g, MicroPc, Job, Woken(browser) \o Woken(host[h]))
  <2>1. On(h) \in SUBSET Job /\ "wokenhost" \in Pc /\ "waithost" \notin MicroPc /\ "wokenhost" \in MicroPc
    BY <1>0, <1>3
  <2>. QED
    BY <1>3, <1>11, <1>12, <2>1, WakeJoins
<1>. HIDE DEF g
<1>16. /\ \A k \in Job : b[k] = IF k \in ToSet(Woken(browser)) THEN "wokenbrowser" ELSE f[k]
       /\ \A k \in Job : k \in ToSet(Woken(browser)) => f[k] = "waitbrowser"
       /\ \A k \in Job : g[k] = IF k \in ToSet(Woken(host[h])) THEN "wokenhost" ELSE b[k]
       /\ \A k \in Job : k \in ToSet(Woken(host[h])) => k \in On(h) /\ b[k] = "waithost"
       /\ g \in [Job -> Pc]
  BY <1>9, <1>13 DEF WakesFirst
<1>17. pc' = g
  <2>1. \A k \in Job : g[k] = IF k = j THEN "done"
                              ELSE IF k \in ToSet(Woken(browser)) THEN "wokenbrowser"
                              ELSE IF k \in ToSet(Woken(host[h])) THEN "wokenhost" ELSE pc[k]
    BY <1>2, <1>16
  <2>. QED
    BY <1>a, <1>16, <2>1
<1>18. /\ browser' \in Semaphore /\ browser'.active = browser.active - 1
       /\ browser.waiting = <<>> => browser'.waiting = <<>> /\ Woken(browser) = <<>>
       /\ browser.waiting # <<>> => /\ Woken(browser) = <<Head(browser.waiting)>>
                                    /\ Head(browser.waiting) \in Job
  BY <1>a, <1>3, <1>6, SemaphoreTypes
<1>19. /\ Released(host[h]) \in Semaphore /\ Released(host[h]).active = host[h].active - 1
       /\ host[h].waiting = <<>> => Released(host[h]).waiting = <<>> /\ Woken(host[h]) = <<>>
       /\ host[h].waiting # <<>> => /\ Woken(host[h]) = <<Head(host[h].waiting)>>
                                    /\ Head(host[h].waiting) \in Job
       /\ Woken(host[h]) \in Seq(Job)
  BY <1>3, <1>7, SemaphoreTypes
<1>20. /\ host' \in [Host -> Semaphore] /\ host'[h] = Released(host[h])
       /\ \A x \in Host : x # h => host'[x] = host[x]
  BY <1>a, <1>3, <1>19 DEF h
<1>21. /\ Line(pc', {"queued"}, Job, queue)
       /\ Line(pc', {"waitbrowser"}, Job, browser'.waiting)
       /\ Line(pc', {"waitpackage"}, Job, package.waiting)
       /\ Line(pc', MicroPc, Job, micro') /\ micro' \in Seq(Job)
  <2>1. /\ Line(b, {"queued"}, Job, queue)
        /\ Line(b, {"waitpackage"}, Job, package.waiting)
    BY <1>4, <1>9 DEF WakesLines
  <2>2. Line(g, {"queued"}, Job, queue)
    BY <1>13, <2>1 DEF WakesLines
  <2>3. Line(g, {"waitpackage"}, Job, package.waiting)
    BY <1>13, <2>1 DEF WakesLines
  <2>4. Line(g, {"waitbrowser"}, Job, browser'.waiting)
    BY <1>a, <1>10, <1>13 DEF WakesLines
  <2>5. micro' = Woken(browser) \o Woken(host[h])
    BY <1>a DEF h
  <2>6. micro' \in Seq(Job)
    BY <1>11, <1>19, <2>5, ConcatProperties
  <2>. QED
    BY <1>15, <1>17, <2>2, <2>3, <2>4, <2>5, <2>6
<1>22. \A x \in Host : Line(pc', {"waithost"}, On(x), host'[x].waiting)
  <2>1. ASSUME NEW x \in Host, x # h PROVE Line(g, {"waithost"}, On(x), host[x].waiting)
    <3>1. Line(f, {"waithost"}, On(x), host[x].waiting) /\ On(x) \in SUBSET Job /\ On(h) \cap On(x) = {}
      BY <1>3, <1>5, <2>1
    <3>2. Line(b, {"waithost"}, On(x), host[x].waiting)
      BY <1>9, <3>1 DEF WakesLines
    <3>. QED
      BY <1>13, <3>1, <3>2 DEF WakesLines
  <2>. QED
    BY <1>14, <1>17, <1>20, <2>1
<1>23. Count(pc', HoldsBrowser, Job, browser'.active) /\ Count(pc', {"packaging"}, Job, package.active)
  <2>1. Count(b, HoldsBrowser, Job, browser.active - 1) /\ Count(b, {"packaging"}, Job, package.active)
    BY <1>0, <1>6, <1>8, <1>9 DEF WakesCounts
  <2>2. Count(g, HoldsBrowser, Job, browser.active - 1) /\ Count(g, {"packaging"}, Job, package.active)
    BY <1>0, <1>13, <2>1 DEF WakesCounts
  <2>. QED
    BY <1>17, <1>18, <2>2
<1>24. \A x \in Host : Count(pc', HoldsHost, On(x), host'[x].active)
  <2>1. ASSUME NEW x \in Host, NEW n, Count(f, HoldsHost, On(x), n) PROVE Count(g, HoldsHost, On(x), n)
    <3>1. Count(b, HoldsHost, On(x), n) /\ On(x) \in SUBSET Job
      BY <1>0, <1>3, <1>9, <2>1 DEF WakesCounts
    <3>. QED
      BY <1>0, <1>13, <3>1 DEF WakesCounts
  <2>2. Count(g, HoldsHost, On(h), host[h].active - 1)
    BY <1>3, <1>7, <2>1
  <2>3. \A x \in Host : x # h => Count(g, HoldsHost, On(x), host[x].active)
    BY <1>8, <2>1
  <2>. QED
    BY <1>17, <1>19, <1>20, <2>2, <2>3
<1>25. Promised'
  <2>1. browser.active \in Nat /\ BrowserMax \in Nat /\ browser.active <= BrowserMax
        /\ host[h].active \in Nat /\ HostMax \in Nat
    BY <1>3, SlotFacts, Limits DEF AtMost
  <2>2. AtMost'
    BY <1>18, <2>1 DEF AtMost
  <2>3. Pumped'
    BY <1>a DEF Pumped
  <2>4. PackagePromised'
    BY <1>a, IdleSlots DEF PackagePromised
  <2>5. WokenNext'
    <3>. SUFFICES ASSUME NEW k \in Job, pc'[k] = "wokenbrowser"
                  PROVE  micro' # <<>> /\ Head(micro') = k /\ browser'.active < BrowserMax
      BY DEF WokenNext
    <3>1. k \in ToSet(Woken(browser))
      <4>1. pc[k] # "wokenbrowser"
        BY IdleSlots DEF MicroPc
      <4>. QED
        BY <1>2, <1>16, <1>17, <4>1
    <3>2. browser.waiting # <<>>
      BY <1>18, <3>1 DEF ToSet
    <3>3. Woken(browser) = <<k>>
      BY <1>18, <3>1, <3>2 DEF ToSet
    <3>4. micro' = <<k>> \o Woken(host[h])
      BY <1>a, <3>3 DEF h
    <3>5. micro' # <<>> /\ Head(micro') = k
      BY <1>19, <3>4, ConcatProperties, EmptySeq, LenProperties
    <3>. QED
      BY <1>6, <1>18, <2>1, <3>5
  <2>6. BrowserPromised'
    <3>. SUFFICES ASSUME browser'.waiting # <<>>
                  PROVE  browser'.active + 1 >= BrowserMax /\ \E k \in Job : pc'[k] = "wokenbrowser"
      BY DEF BrowserPromised
    <3>1. browser.waiting # <<>>
      BY <1>18
    <3>2. browser.active >= BrowserMax
      BY <3>1, IdleSlots
    <3>3. Head(browser.waiting) \in ToSet(Woken(browser)) /\ Head(browser.waiting) \in Job
      BY <1>18, <3>1 DEF ToSet
    <3>4. pc'[Head(browser.waiting)] = "wokenbrowser"
      BY <1>16, <1>17, <3>3
    <3>5. browser'.active + 1 >= BrowserMax
      BY <1>18, <2>1, <3>2
    <3>. QED
      BY <3>3, <3>4, <3>5
  <2>7. HostPromised'
    <3>1. ASSUME NEW x \in Host, x # h, host'[x].waiting # <<>> PROVE host'[x].active >= HostMax
      BY <1>20, <3>1, IdleSlots
    <3>2. ASSUME host'[h].waiting # <<>>
          PROVE  host'[h].active + 1 >= HostMax /\ \E k \in On(h) : pc'[k] = "wokenhost"
      <4>1. host[h].waiting # <<>>
        BY <1>19, <1>20, <3>2
      <4>2. host[h].active >= HostMax
        BY <1>3, <4>1, IdleSlots
      <4>3. Head(host[h].waiting) \in ToSet(Woken(host[h])) /\ Head(host[h].waiting) \in Job
        BY <1>19, <4>1 DEF ToSet
      <4>4. pc'[Head(host[h].waiting)] = "wokenhost" /\ Head(host[h].waiting) \in On(h)
        BY <1>16, <1>17, <4>3
      <4>5. host'[h].active + 1 >= HostMax
        BY <1>19, <1>20, <2>1, <4>2
      <4>. QED
        BY <4>4, <4>5
    <3>. QED
      BY <3>1, <3>2 DEF HostPromised
  <2>. QED
    BY <2>2, <2>3, <2>4, <2>5, <2>6, <2>7 DEF Promised
<1>. QED
  BY <1>a, <1>16, <1>17, <1>18, <1>20, <1>21, <1>22, <1>23, <1>24, <1>25, SlotFacts, SlotGoal

-----------------------------------------------------------------------------
(* The beginning, a restart, and every step. *)

LEMMA NobodyThere ==
    ASSUME NEW f \in [Job -> Pc], NEW S, \A k \in Job : f[k] \notin S, NEW T \in SUBSET Job
    PROVE  Line(f, S, T, <<>>) /\ Count(f, S, T, 0)
<1>1. Those(f, S, T) = {}
  BY DEF Those
<1>. QED
  BY <1>1, NoLine, FS_EmptySet DEF Line, Count

LEMMA FreeSlots ==
    ASSUME pc' \in [Job -> Pc], \A k \in Job : pc'[k] \in {"new", "done", "gone"},
           queue' = <<>>, pump_running' = FALSE, micro' = <<>>,
           browser' = Free, package' = Free, host' = [h \in Host |-> Free]
    PROVE  Slots'
<1>1. Free \in Semaphore /\ Free.active = 0 /\ Free.waiting = <<>>
  BY EmptySeq DEF Free, Semaphore
<1>2. {"new", "done", "gone"} \cap (MicroPc \cup HoldsHost \cup HoldsBrowser \cup
        {"queued", "waitbrowser", "waitpackage", "waithost", "packaging"}) = {}
  BY DEF MicroPc, HoldsHost, HoldsBrowser
<1>3. \A h \in Host : On(h) \in SUBSET Job /\ host'[h] = Free
  BY DEF On
<1>4. /\ Line(pc', {"queued"}, Job, <<>>) /\ Line(pc', {"waitbrowser"}, Job, <<>>)
      /\ Line(pc', {"waitpackage"}, Job, <<>>) /\ Line(pc', MicroPc, Job, <<>>)
      /\ Count(pc', HoldsBrowser, Job, 0) /\ Count(pc', {"packaging"}, Job, 0)
  BY <1>2, NobodyThere
<1>5. \A h \in Host : Line(pc', {"waithost"}, On(h), <<>>) /\ Count(pc', HoldsHost, On(h), 0)
  BY <1>2, <1>3, NobodyThere
<1>6. Promised'
  <2>1. AtMost' /\ WokenNext' /\ Pumped' /\ BrowserPromised' /\ PackagePromised' /\ HostPromised'
    BY <1>1, <1>3, Limits
       DEF AtMost, WokenNext, Pumped, BrowserPromised, PackagePromised, HostPromised
  <2>. QED
    BY <2>1 DEF Promised
<1>7. queue' \in Seq(Job) /\ micro' \in Seq(Job) /\ host' \in [Host -> Semaphore]
  BY <1>1, EmptySeq
<1>. QED
  BY <1>1, <1>3, <1>4, <1>5, <1>6, <1>7, SlotGoal

LEMMA InitSlots == Init => Slots
<1>. SUFFICES ASSUME Init PROVE Slots
  OBVIOUS
<1>1. Free \in Semaphore /\ Free.active = 0 /\ Free.waiting = <<>>
  BY EmptySeq DEF Free, Semaphore
<1>2. "new" \notin MicroPc \cup HoldsHost \cup HoldsBrowser \cup
        {"queued", "waitbrowser", "waitpackage", "waithost", "packaging"}
  BY DEF MicroPc, HoldsHost, HoldsBrowser
<1>3. /\ pc \in [Job -> Pc] /\ \A k \in Job : pc[k] = "new"
      /\ queue = <<>> /\ micro = <<>> /\ pump_running = FALSE /\ browser = Free /\ package = Free
      /\ host \in [Host -> Semaphore] /\ \A h \in Host : host[h] = Free
  BY <1>1, Places DEF Init
<1>4. \A h \in Host : On(h) \in SUBSET Job
  BY DEF On
<1>5. /\ Line(pc, {"queued"}, Job, <<>>) /\ Line(pc, {"waitbrowser"}, Job, <<>>)
      /\ Line(pc, {"waitpackage"}, Job, <<>>) /\ Line(pc, MicroPc, Job, <<>>)
      /\ Count(pc, HoldsBrowser, Job, 0) /\ Count(pc, {"packaging"}, Job, 0)
  BY <1>2, <1>3, NobodyThere
<1>6. \A h \in Host : Line(pc, {"waithost"}, On(h), <<>>) /\ Count(pc, HoldsHost, On(h), 0)
  BY <1>2, <1>3, <1>4, NobodyThere
<1>7. SlotType
  BY <1>1, <1>3, EmptySeq DEF SlotType
<1>8. InLine
  BY <1>1, <1>3, <1>5, <1>6 DEF InLine, Lines
<1>9. InUse
  BY <1>1, <1>3, <1>5, <1>6 DEF InUse, Taken
<1>10. Promised
  BY <1>1, <1>3, Limits
     DEF Promised, AtMost, WokenNext, Pumped, BrowserPromised, PackagePromised, HostPromised
<1>. QED
  BY <1>7, <1>8, <1>9, <1>10 DEF Slots

LEMMA RestartSlots ==
    ASSUME Slots, Restart
    PROVE  Slots'
<1>1. /\ pc' = [j \in Job |-> IF pc[j] \in {"new", "done"} THEN pc[j] ELSE "gone"]
      /\ queue' = <<>> /\ micro' = <<>> /\ pump_running' = FALSE
      /\ browser' = Free /\ package' = Free /\ host' = [h \in Host |-> Free]
  BY SlotFacts DEF Restart, Idle
<1>2. pc' \in [Job -> Pc] /\ \A k \in Job : pc'[k] \in {"new", "done", "gone"}
  BY <1>1, Places
<1>. QED
  BY <1>1, <1>2, FreeSlots

LEMMA MicroSlots ==
    ASSUME Slots, NEW j \in Job, MicroStep(j)
    PROVE  Slots'
  BY HostWakesSlots, HostGrantedSlots, BrowserWakesSlots, PackageWakesSlots DEF MicroStep

LEMMA ShiftPlaces ==
    /\ {"new", "inserted", "starting", "stuck", "capturing", "extended", "archiving", "archived",
        "superseding", "mark_failed", "mark_cancelled"} \subseteq Pc
    /\ {"starting", "stuck", "capturing", "extended", "archiving", "archived",
        "superseding", "mark_failed", "mark_cancelled"} \subseteq HoldsBrowser
    /\ HoldsBrowser \subseteq HoldsHost /\ {"new", "inserted"} \cap HoldsHost = {}
    /\ {"new", "inserted", "starting", "stuck", "capturing", "extended", "archiving", "archived",
        "superseding", "mark_failed", "mark_cancelled"} \cap
         (MicroPc \cup {"queued", "waitbrowser", "waitpackage", "waithost", "packaging"}) = {}
  BY DEF Pc, Running, HoldsHost, HoldsBrowser, MicroPc

(* The steps of a capture that takes or gives back no slot. *)
LEMMA PlainSlots ==
    ASSUME Slots, NEW j \in Job,
           \/ InsertRow(j) \/ Start(j) \/ VisibleComplete(j) \/ Archive(j) \/ SupersedePrevious(j)
           \/ CaptureFails(j) \/ StartFails(j) \/ ReadyFails(j)
    PROVE  Slots'
<1>1. /\ UNCHANGED <<queue, pump_running, browser, package, host, micro>>
      /\ \/ pc[j] = "new" /\ pc' = [pc EXCEPT ![j] = "inserted"]
         \/ /\ pc[j] \in {"starting", "capturing", "extended", "archiving", "archived", "superseding"}
            /\ \E q \in {"stuck", "capturing", "extended", "archived", "superseding",
                         "mark_failed", "mark_cancelled"} : pc' = [pc EXCEPT ![j] = q]
  BY DEF InsertRow, Start, VisibleComplete, Archive, SupersedePrevious, CaptureFails, StartFails,
         ReadyFails, Throw, slots, pumping
<1>2. CASE pc[j] = "new" /\ pc' = [pc EXCEPT ![j] = "inserted"]
  <2>1. /\ "inserted" \in Pc
        /\ {pc[j], "inserted"} \cap (MicroPc \cup {"queued", "waitbrowser", "waitpackage", "waithost"}) = {}
        /\ pc[j] \in HoldsBrowser <=> "inserted" \in HoldsBrowser
        /\ pc[j] \in HoldsHost <=> "inserted" \in HoldsHost
        /\ pc[j] # "packaging"
    BY <1>2, ShiftPlaces
  <2>. QED
    BY <1>1, <1>2, <2>1, SlotsShift
<1>3. ASSUME pc[j] \in {"starting", "capturing", "extended", "archiving", "archived", "superseding"},
             NEW q \in {"stuck", "capturing", "extended", "archived", "superseding",
                        "mark_failed", "mark_cancelled"}, pc' = [pc EXCEPT ![j] = q]
      PROVE  Slots'
  <2>1. /\ q \in Pc
        /\ {pc[j], q} \cap (MicroPc \cup {"queued", "waitbrowser", "waitpackage", "waithost"}) = {}
        /\ pc[j] \in HoldsBrowser <=> q \in HoldsBrowser
        /\ pc[j] \in HoldsHost <=> q \in HoldsHost
        /\ pc[j] # "packaging" /\ q # "packaging"
    BY <1>3, ShiftPlaces
  <2>. QED
    BY <1>1, <1>3, <2>1, SlotsShift
<1>. QED
  BY <1>1, <1>2, <1>3

LEMMA ReleasingSlots ==
    ASSUME Slots, NEW j \in Job, SetPackaging(j) \/ PackagingFails(j)
    PROVE  Slots'
<1>1. /\ Idle /\ pc[j] = "packaging" /\ package' = Released(package) /\ micro' = Woken(package)
      /\ UNCHANGED <<queue, pump_running, browser, host>>
      /\ \E q \in {"archiving", "mark_failed", "mark_cancelled"} :
           pc' = Becomes(j, q, Woken(package), "wokenpackage")
  BY DEF SetPackaging, PackagingFails, pumping
<1>. QED
  BY <1>1, ReleasePackageSlots

LEMMA FinishingSlots ==
    ASSUME Slots, NEW j \in Job, MakeReady(j) \/ RecordFailure(j) \/ RecordFails(j)
    PROVE  Slots'
<1>1. Idle /\ pc[j] \in {"superseding", "mark_failed", "mark_cancelled"} /\ Finish(j)
  BY DEF MakeReady, RecordFailure, RecordFails
<1>. QED
  BY <1>1, FinishSlots

LEMMA CaptureSlots ==
    ASSUME Slots, NEW j \in Job, CaptureStep(j)
    PROVE  Slots'
  BY EnqueueSlots, EndCooldownSlots, RequestPackagingSlots, ReleasingSlots, FinishingSlots, PlainSlots
     DEF CaptureStep

LEMMA FailureSlots ==
    ASSUME Slots, NEW j \in Job, StatementFails(j)
    PROVE  Slots'
  BY ReleasingSlots, FinishingSlots, PlainSlots DEF StatementFails

LEMMA DeletionSlots ==
    ASSUME Slots, NEW j \in Job, AskDelete(j) \/ DeleteStep(j)
    PROVE  Slots'
<1>1. UNCHANGED <<pc, queue, pump_running, browser, package, host, micro>>
  BY DEF AskDelete, DeleteStep, DeleteFiles, DeleteRow, CancelJob, CancelFiles, CancelRow,
         NotADeletion, slots, pumping
<1>. QED
  BY <1>1, SlotsFrozen

LEMMA SweepSlots ==
    ASSUME Slots, NEW s \in Sample, AskSweep(s) \/ SweepStep(s)
    PROVE  Slots'
<1>1. UNCHANGED <<pc, queue, pump_running, browser, package, host, micro>>
  BY DEF AskSweep, SweepStep, SweepFiles, SweepTemps, SweepRows, NotADeletion, slots, pumping
<1>. QED
  BY <1>1, SlotsFrozen

LEMMA DeletionFailsSlots ==
    ASSUME Slots, DeletionFails
    PROVE  Slots'
<1>1. UNCHANGED <<pc, queue, pump_running, browser, package, host, micro>>
  BY DEF DeletionFails, DeleteRowFails, CancelJobFails, CancelRowFails, SweepRowsFails,
         DeletionFault, slots, pumping
<1>. QED
  BY <1>1, SlotsFrozen

LEMMA SlotsStep ==
    ASSUME Slots, [Next]_vars
    PROVE  Slots'
<1>1. CASE UNCHANGED vars
  BY <1>1, SlotsFrozen DEF vars, slots, pumping
<1>2. CASE PumpTakes
  BY <1>2, TakeSlots
<1>3. CASE PumpStops
  BY <1>3, StopSlots
<1>4. ASSUME NEW j \in Job, InsertRow(j) PROVE Slots'
  BY <1>4, PlainSlots
<1>5. ASSUME NEW j \in Job, MicroStep(j) PROVE Slots'
  BY <1>5, MicroSlots
<1>6. ASSUME NEW j \in Job, CaptureStep(j) PROVE Slots'
  BY <1>6, CaptureSlots
<1>7. ASSUME NEW j \in Job, StatementFails(j) PROVE Slots'
  BY <1>7, FailureSlots
<1>8. ASSUME NEW j \in Job, AskDelete(j) \/ DeleteStep(j) PROVE Slots'
  BY <1>8, DeletionSlots
<1>9. ASSUME NEW h \in Host, HostCools(h) PROVE Slots'
  <2>1. UNCHANGED <<pc, queue, pump_running, browser, package, host, micro>>
    BY <1>9 DEF HostCools, pumping
  <2>. QED
    BY <2>1, SlotsFrozen
<1>10. ASSUME NEW s \in Sample, AskSweep(s) \/ SweepStep(s) PROVE Slots'
  BY <1>10, SweepSlots
<1>11. CASE Restart
  BY <1>11, RestartSlots
<1>12. CASE Recover \/ RecoverFails
  <2>1. UNCHANGED <<pc, queue, pump_running, browser, package, host, micro>>
    BY <1>12 DEF Recover, RecoverFails, pumping, slots
  <2>. QED
    BY <2>1, SlotsFrozen
<1>13. CASE DeletionFails
  BY <1>13, DeletionFailsSlots
<1>14. CASE Next
  BY <1>2, <1>3, <1>4, <1>5, <1>6, <1>7, <1>8, <1>9, <1>10, <1>11, <1>12, <1>13, <1>14 DEF Next
<1>. QED
  BY <1>1, <1>14

(* Whoever waits for a slot stands in its line once, each slot that counts as taken is
   held by a job, and one that is free while somebody waits is promised to a woken job
   (class Semaphore, pump_queue). *)
THEOREM SlotsHold == Spec => []SlotInv
<1>1. Init => SlotInv
  <2>. SUFFICES ASSUME Init PROVE SlotInv
    OBVIOUS
  <2>1. RestType
    BY DEF Init, RestType, Status, NoSweep, Sweep
  <2>. QED
    BY <2>1, InitSlots, Types DEF SlotInv, Slots
<1>2. SlotInv /\ [Next]_vars => SlotInv'
  <2>. SUFFICES ASSUME SlotInv, [Next]_vars PROVE SlotInv'
    OBVIOUS
  <2>1. TypeOK /\ Slots
    BY Types DEF SlotInv, Slots
  <2>2. RestType' /\ Slots'
    BY <2>1, RestStep, SlotsStep
  <2>3. TypeOK'
    BY <2>2 DEF TypeOK, SlotType, RestType, Slots
  <2>. QED
    BY <2>2, <2>3 DEF SlotInv, Slots
<1>. QED
  BY <1>1, <1>2, PTL DEF Spec

(* Every variable of the job service has its type, whatever handlers, captures and
   restarts do. *)
THEOREM TypeCorrect == Spec => []TypeOK
<1>1. SlotInv => TypeOK
  BY DEF SlotInv
<1>. QED
  BY <1>1, SlotsHold, PTL

(* No more browsers run at once than the limit allows, although a slot given back looks
   free until the waiter that was woken for it has counted itself: the woken waiter has
   the next microtask (semaphore.ts, the finally block of process_capture_job). *)
THEOREM BrowsersAreBounded == Spec => []BrowserBound
<1>1. SlotInv => BrowserBound
  <2>1. At(HoldsBrowser) = Those(pc, HoldsBrowser, Job)
    BY DEF At, Those
  <2>. QED
    BY <2>1 DEF SlotInv, InUse, Taken, Count, Promised, AtMost, BrowserBound
<1>. QED
  BY <1>1, SlotsHold, PTL

(* Between two callbacks nobody waits in the queue or for a semaphore with a free slot, and
   each slot counted as taken is held: no failure, deletion or order of wakeups loses one. *)
THEOREM NoWakeupIsLost == Spec => []SlotsInUse
<1>1. SlotInv => SlotsInUse
  <2>. SUFFICES ASSUME SlotInv, Idle PROVE
          /\ browser.active = Cardinality(At(HoldsBrowser))
          /\ \A h \in Host : host[h].active = Cardinality({j \in At(HoldsHost) : HostOf[j] = h})
          /\ package.active = Cardinality(At({"packaging"}))
          /\ queue # <<>> \/ browser.waiting # <<>> => browser.active >= BrowserMax
          /\ \A h \in Host : host[h].waiting # <<>> => host[h].active >= HostMax
          /\ package.waiting # <<>> => package.active >= PackageMax
    BY DEF SlotsInUse
  <2>1. Slots
    BY Types DEF SlotInv, Slots
  <2>2. /\ At(HoldsBrowser) = Those(pc, HoldsBrowser, Job)
        /\ At({"packaging"}) = Those(pc, {"packaging"}, Job)
    BY DEF At, Those
  <2>3. \A h \in Host : {j \in At(HoldsHost) : HostOf[j] = h} = Those(pc, HoldsHost, On(h))
    BY DEF At, Those, On
  <2>4. /\ browser.active = Cardinality(Those(pc, HoldsBrowser, Job))
        /\ package.active = Cardinality(Those(pc, {"packaging"}, Job))
        /\ \A h \in Host : host[h].active = Cardinality(Those(pc, HoldsHost, On(h)))
    BY DEF SlotInv, InUse, Taken, Count
  <2>. QED
    BY <2>1, <2>2, <2>3, <2>4, IdleSlots
<1>. QED
  BY <1>1, SlotsHold, PTL

-----------------------------------------------------------------------------
(* The rows and the archives. *)

(* j goes to q, and nobody else goes anywhere but from a line to its wakeup. *)
Goes(j, q) ==
  /\ pc'[j] = q
  /\ \A k \in Job : k # j =>
       \/ pc'[k] = pc[k]
       \/ pc[k] = "waitbrowser" /\ pc'[k] = "wokenbrowser"
       \/ pc[k] = "waithost" /\ pc'[k] = "wokenhost"
       \/ pc[k] = "waitpackage" /\ pc'[k] = "wokenpackage"

LEMMA Goer ==
    ASSUME Slots, NEW j \in Job, NEW q, pc' = [pc EXCEPT ![j] = q]
    PROVE  Goes(j, q)
  BY SlotFacts DEF Goes

LEMMA WokenWait ==
    ASSUME Slots
    PROVE  /\ \A k \in Job : k \in ToSet(Woken(browser)) => pc[k] = "waitbrowser"
           /\ \A k \in Job : k \in ToSet(Woken(package)) => pc[k] = "waitpackage"
           /\ \A h \in Host : \A k \in Job : k \in ToSet(Woken(host[h])) => pc[k] = "waithost"
<1>0. Job \in SUBSET Job /\ pc \in [Job -> Pc] /\ "done" \in Pc
  BY SlotFacts, Places
<1>1. WakesFirst(pc, Wake(pc, browser, "done"), browser, "waitbrowser", "done", Job)
  <2>1. browser \in Semaphore /\ Line(pc, {"waitbrowser"}, Job, browser.waiting)
    BY SlotFacts
  <2>. QED
    BY <1>0, <2>1, Wakes
<1>2. WakesFirst(pc, Wake(pc, package, "done"), package, "waitpackage", "done", Job)
  <2>1. package \in Semaphore /\ Line(pc, {"waitpackage"}, Job, package.waiting)
    BY SlotFacts
  <2>. QED
    BY <1>0, <2>1, Wakes
<1>3. ASSUME NEW h \in Host
      PROVE  WakesFirst(pc, Wake(pc, host[h], "done"), host[h], "waithost", "done", On(h))
  <2>1. /\ host[h] \in Semaphore /\ Line(pc, {"waithost"}, On(h), host[h].waiting)
        /\ On(h) \in SUBSET Job
    BY SlotFacts DEF On
  <2>. QED
    BY <1>0, <2>1, Wakes
<1>. QED
  BY <1>1, <1>2, <1>3 DEF WakesFirst

LEMMA FinishGoes ==
    ASSUME Slots, NEW j \in Job, Finish(j)
    PROVE  Goes(j, "done")
  BY WokenWait, Jobs DEF Finish, Goes

LEMMA ReleaseGoes ==
    ASSUME Slots, NEW j \in Job, NEW q, pc' = Becomes(j, q, Woken(package), "wokenpackage")
    PROVE  Goes(j, q)
  BY WokenWait DEF Becomes, Goes

LEMMA RunningPlaces ==
    /\ {"wokenbrowser", "wokenhost", "wokenpackage", "waitbrowser", "waithost", "waitpackage",
        "hashost", "cooldown", "starting", "packaging", "capturing", "extended", "archiving",
        "archived", "superseding", "mark_failed", "mark_cancelled"} \subseteq Running
    /\ "done" \notin Running
  BY DEF Running, HoldsHost, HoldsBrowser

(* What a step of the capture j leaves the others, and what it owes its own row. *)
OthersKept(j) ==
  /\ UNCHANGED <<handlers, bared, booting>> /\ stranded \subseteq stranded'
  /\ \A k \in Job : k # j =>
       /\ file'[k] = file[k] /\ temp'[k] = temp[k]
       /\ status'[k] = status[k] \/ (status[k] # "none" /\ status'[k] = "superseded")
OwnRow(j, q) ==
  /\ status'[j] = "ready" => q = "done" /\ (file'[j] # "none" \/ Doomed(j) \/ j \in bared)
  /\ q \in Reading => temp'[j] # "none"
  /\ status'[j] # "none" /\ q \in {"archived", "superseding"} =>
       file'[j] # "none" \/ Doomed(j) \/ j \in bared
  /\ status'[j] \in Unfinished =>
       booting \/ j \in stranded' \/ q \in (Running \ {"stuck"}) \cup {"inserted", "queued"}

LEMMA RowsMove ==
    ASSUME RowsHold, NEW j \in Job, NEW q, Goes(j, q), OthersKept(j), OwnRow(j, q)
    PROVE  RowsHold'
<1>. USE DEF RowsHold
<1>1. Swept'
  BY DEF Swept, handlers, OthersKept
<1>2. \A k \in Job : Doomed(k)' <=> Doomed(k)
  BY DEF Doomed, handlers, OthersKept
<1>3. RowOk(j)'
  <2>1. pc'[j] = q
    BY DEF Goes
  <2>. QED
    BY <1>2, <2>1 DEF RowOk, Kept, Worked, OthersKept, OwnRow
<1>4. ASSUME NEW k \in Job, k # j PROVE RowOk(k)'
  <2>1. \/ pc'[k] = pc[k]
        \/ pc[k] = "waitbrowser" /\ pc'[k] = "wokenbrowser"
        \/ pc[k] = "waithost" /\ pc'[k] = "wokenhost"
        \/ pc[k] = "waitpackage" /\ pc'[k] = "wokenpackage"
    BY <1>4 DEF Goes
  <2>2. /\ file'[k] = file[k] /\ temp'[k] = temp[k] /\ (k \in bared' <=> k \in bared)
        /\ status'[k] = status[k] \/ (status[k] # "none" /\ status'[k] = "superseded")
    BY <1>4 DEF OthersKept
  <2>3. RowOk(k)
    OBVIOUS
  <2>4. Kept(k)' <=> Kept(k)
    BY <1>2, <2>2 DEF Kept
  <2>5. Worked(k) => Worked(k)'
    BY <2>1, RunningPlaces DEF Worked, OthersKept
  <2>6. "superseded" \notin Unfinished
    BY DEF Unfinished
  <2>. QED
    BY <2>1, <2>2, <2>3, <2>4, <2>5, <2>6 DEF RowOk, Reading
<1>. QED
  BY <1>1, <1>3, <1>4

(* A step of the capture j to its next place that touches no row and no file. *)
LEMMA RowsGo ==
    ASSUME RowsHold, NEW j \in Job, NEW q, Goes(j, q),
           UNCHANGED <<status, disk, handlers, outer>>, pc[j] # "done",
           q \in (Running \ {"stuck"}) \cup {"queued"}, q \notin {"archived", "superseding"},
           q \in Reading => pc[j] \in Reading
    PROVE  RowsHold'
<1>1. OthersKept(j)
  BY DEF OthersKept, disk, outer, handlers
<1>2. RowOk(j)
  BY DEF RowsHold
<1>3. OwnRow(j, q)
  BY <1>2 DEF OwnRow, RowOk, disk
<1>. QED
  BY <1>1, <1>3, RowsMove

LEMMA PumpRows ==
    ASSUME Slots, RowsHold, PumpTakes
    PROVE  RowsHold'
<1>. DEFINE j == queue[Picked]
<1>1. j \in Job /\ pc[j] \in {"queued"}
  <2>1. pc \in [Job -> Pc] /\ Line(pc, {"queued"}, Job, queue) /\ Job \in SUBSET Job
    BY SlotFacts
  <2>2. Picked \in 1..Len(queue)
    BY SlotFacts, PickedInQueue DEF PumpTakes, HasCapacity
  <2>. QED
    BY <2>1, <2>2, LineMember
<1>2. PICK q \in {"hashost", "waithost"} : pc' = [pc EXCEPT ![j] = q]
  BY DEF PumpTakes
<1>3. UNCHANGED <<status, disk, handlers, outer>>
  BY DEF PumpTakes
<1>. HIDE DEF j
<1>4. Goes(j, q)
  BY <1>1, <1>2, Goer
<1>5. q \in Running \ {"stuck"} /\ q \notin Reading /\ q \notin {"archived", "superseding"}
  BY RunningPlaces DEF Reading
<1>. QED
  BY <1>1, <1>3, <1>4, <1>5, RowsGo

(* Every other step that only takes a job on. *)
LEMMA QuietRows ==
    ASSUME Slots, RowsHold, NEW j \in Job,
           Enqueue(j) \/ MicroStep(j) \/ EndCooldown(j) \/ RequestPackaging(j)
    PROVE  RowsHold'
<1>1. UNCHANGED <<status, disk, handlers, outer>>
  BY DEF Enqueue, MicroStep, HostWakes, HostGranted, BrowserWakes, PackageWakes, Microtask,
         EndCooldown, RequestPackaging
<1>2. PICK q : /\ pc' = [pc EXCEPT ![j] = q]
               /\ \/ pc[j] = "inserted" /\ q = "queued"
                  \/ pc[j] \in {"wokenhost", "hashost", "wokenbrowser", "cooldown"}
                     /\ q \in {"hashost", "cooldown", "starting", "waitbrowser"}
                  \/ pc[j] \in {"wokenpackage", "extended"} /\ q \in {"packaging", "waitpackage"}
  BY DEF Enqueue, MicroStep, HostWakes, HostGranted, AcquireBrowser, BrowserWakes, PackageWakes,
         EndCooldown, RequestPackaging
<1>3. Goes(j, q)
  BY <1>2, Goer
<1>4. /\ pc[j] # "done" /\ q \in (Running \ {"stuck"}) \cup {"queued"}
      /\ q \notin {"archived", "superseding"} /\ (q \in Reading => pc[j] \in Reading)
  BY <1>2, RunningPlaces DEF Reading
<1>. QED
  BY <1>1, <1>3, <1>4, RowsGo

LEMMA UpdatedRow ==
    ASSUME RestType, NEW j \in Job, NEW s, UpdateStatus(j, s)
    PROVE  /\ status'[j] = IF status[j] = "none" THEN "none" ELSE s
           /\ \A k \in Job : k # j => status'[k] = status[k]
  BY DEF UpdateStatus, RestType

LEMMA ThrownRows ==
    ASSUME Slots, RestType, RowsHold, NEW j \in Job,
           NEW q \in {"mark_failed", "mark_cancelled"}, Goes(j, q), pc[j] # "done",
           file' = [file EXCEPT ![j] = "none"], temp' = [temp EXCEPT ![j] = "none"],
           UNCHANGED <<status, handlers, bared, booting, stranded>>
    PROVE  RowsHold'
<1>1. OthersKept(j)
  BY DEF OthersKept, handlers, RestType
<1>2. OwnRow(j, q)
  BY RunningPlaces DEF OwnRow, RowsHold, RowOk, Reading
<1>. QED
  BY <1>1, <1>2, RowsMove

LEMMA FailingRows ==
    ASSUME Slots, RestType, RowsHold, NEW j \in Job,
           CaptureFails(j) \/ PackagingFails(j) \/ ReadyFails(j)
    PROVE  RowsHold'
<1>1. /\ file' = [file EXCEPT ![j] = "none"] /\ temp' = [temp EXCEPT ![j] = "none"]
      /\ UNCHANGED <<status, handlers, bared, booting, stranded>> /\ pc[j] # "done"
  BY DEF CaptureFails, PackagingFails, ReadyFails, Throw, Fault, outer
<1>2. \E q \in {"mark_failed", "mark_cancelled"} :
        \/ pc' = [pc EXCEPT ![j] = q]
        \/ pc' = Becomes(j, q, Woken(package), "wokenpackage")
  BY DEF CaptureFails, PackagingFails, ReadyFails, Throw
<1>3. PICK q \in {"mark_failed", "mark_cancelled"} : Goes(j, q)
  BY <1>2, Goer, ReleaseGoes
<1>. QED
  BY <1>1, <1>3, ThrownRows

LEMMA CapturingRows ==
    ASSUME Slots, RestType, RowsHold, NEW j \in Job,
           InsertRow(j) \/ Start(j) \/ VisibleComplete(j) \/ SetPackaging(j) \/ Archive(j)
           \/ SupersedePrevious(j) \/ StartFails(j)
    PROVE  RowsHold'
<1>. USE DEF outer, disk, handlers
<1>1. CASE InsertRow(j)
  <2>1. Goes(j, "inserted")
    BY <1>1, Goer DEF InsertRow
  <2>2. OthersKept(j)
    BY <1>1 DEF InsertRow, OthersKept, RestType
  <2>3. OwnRow(j, "inserted")
    BY <1>1 DEF InsertRow, OwnRow, RestType, Reading
  <2>. QED
    BY <2>1, <2>2, <2>3, RowsMove
<1>2. CASE Start(j)
  <2>1. Goes(j, "capturing")
    BY <1>2, Goer DEF Start
  <2>2. OthersKept(j)
    BY <1>2, UpdatedRow DEF Start, OthersKept, RestType
  <2>3. status'[j] # "ready" /\ temp'[j] = "whole"
    BY <1>2, UpdatedRow DEF Start, RestType
  <2>4. OwnRow(j, "capturing")
    BY <2>3, RunningPlaces DEF OwnRow
  <2>. QED
    BY <2>1, <2>2, <2>4, RowsMove
<1>3. CASE VisibleComplete(j)
  <2>1. Goes(j, "extended")
    BY <1>3, Goer DEF VisibleComplete
  <2>2. OthersKept(j)
    BY <1>3, UpdatedRow DEF VisibleComplete, OthersKept
  <2>3. status'[j] # "ready" /\ temp'[j] # "none"
    BY <1>3, UpdatedRow DEF VisibleComplete, RowsHold, RowOk, Reading
  <2>4. OwnRow(j, "extended")
    BY <2>3, RunningPlaces DEF OwnRow
  <2>. QED
    BY <2>1, <2>2, <2>4, RowsMove
<1>4. CASE SetPackaging(j)
  <2>1. Goes(j, "archiving")
    BY <1>4, ReleaseGoes DEF SetPackaging
  <2>2. OthersKept(j)
    BY <1>4, UpdatedRow DEF SetPackaging, OthersKept
  <2>3. status'[j] # "ready" /\ temp'[j] # "none"
    BY <1>4, UpdatedRow DEF SetPackaging, RowsHold, RowOk, Reading
  <2>4. OwnRow(j, "archiving")
    BY <2>3, RunningPlaces DEF OwnRow
  <2>. QED
    BY <2>1, <2>2, <2>4, RowsMove
<1>5. CASE Archive(j)
  <2>1. Goes(j, "archived")
    BY <1>5, Goer DEF Archive
  <2>2. OthersKept(j)
    BY <1>5 DEF Archive, OthersKept, RestType
  <2>3. status'[j] # "ready" /\ file'[j] # "none"
    BY <1>5 DEF Archive, RowsHold, RowOk, Reading, RestType
  <2>4. OwnRow(j, "archived")
    BY <2>3, RunningPlaces DEF OwnRow, Reading
  <2>. QED
    BY <2>1, <2>2, <2>4, RowsMove
<1>6. CASE SupersedePrevious(j)
  <2>1. Goes(j, "superseding")
    BY <1>6, Goer DEF SupersedePrevious
  <2>2. OthersKept(j)
    BY <1>6 DEF SupersedePrevious, OthersKept, RestType
  <2>3. status'[j] = status[j] /\ status[j] # "ready"
        /\ (status[j] # "none" => file'[j] # "none" \/ Doomed(j) \/ j \in bared)
    BY <1>6 DEF SupersedePrevious, RowsHold, RowOk, Kept, RestType
  <2>4. OwnRow(j, "superseding")
    BY <2>3, RunningPlaces DEF OwnRow, Reading
  <2>. QED
    BY <2>1, <2>2, <2>4, RowsMove
<1>7. CASE StartFails(j)
  <2>1. Goes(j, "stuck")
    BY <1>7, Goer DEF StartFails
  <2>2. OthersKept(j)
    BY <1>7 DEF StartFails, Fault, OthersKept
  <2>3. status'[j] # "ready" /\ j \in stranded'
    BY <1>7 DEF StartFails, RowsHold, RowOk
  <2>4. OwnRow(j, "stuck")
    BY <2>3 DEF OwnRow, Reading
  <2>. QED
    BY <2>1, <2>2, <2>4, RowsMove
<1>. QED
  BY <1>1, <1>2, <1>3, <1>4, <1>5, <1>6, <1>7

LEMMA FinishingRows ==
    ASSUME Slots, RestType, RowsHold, NEW j \in Job,
           MakeReady(j) \/ RecordFailure(j) \/ RecordFails(j)
    PROVE  RowsHold'
<1>. USE DEF outer, disk, handlers
<1>1. Goes(j, "done")
  BY FinishGoes DEF MakeReady, RecordFailure, RecordFails
<1>2. UNCHANGED <<file, temp, handlers, bared, booting>>
  BY DEF MakeReady, RecordFailure, RecordFails, Finish, Fault
<1>3. CASE MakeReady(j)
  <2>1. OthersKept(j)
    BY <1>2, <1>3, UpdatedRow DEF MakeReady, OthersKept
  <2>2. /\ status'[j] \in {"none", "ready"}
        /\ status'[j] = "ready" => file'[j] # "none" \/ Doomed(j) \/ j \in bared
    BY <1>2, <1>3, UpdatedRow DEF MakeReady, RowsHold, RowOk, Kept
  <2>3. OwnRow(j, "done")
    BY <2>2 DEF OwnRow, Reading, Unfinished
  <2>. QED
    BY <1>1, <2>1, <2>3, RowsMove
<1>4. CASE RecordFailure(j)
  <2>1. OthersKept(j)
    BY <1>2, <1>4, UpdatedRow DEF RecordFailure, OthersKept
  <2>2. status'[j] \in {"none", "failed", "cancelled"}
    BY <1>4, UpdatedRow DEF RecordFailure
  <2>3. OwnRow(j, "done")
    BY <2>2 DEF OwnRow, Reading, Unfinished
  <2>. QED
    BY <1>1, <2>1, <2>3, RowsMove
<1>5. CASE RecordFails(j)
  <2>1. OthersKept(j)
    BY <1>2, <1>5 DEF RecordFails, OthersKept
  <2>2. status'[j] # "ready" /\ j \in stranded'
    BY <1>5 DEF RecordFails, RowsHold, RowOk
  <2>3. OwnRow(j, "done")
    BY <2>2 DEF OwnRow, Reading
  <2>. QED
    BY <1>1, <2>1, <2>3, RowsMove
<1>. QED
  BY <1>3, <1>4, <1>5

-----------------------------------------------------------------------------
(* Deletions. *)

LEMMA TempsStay ==
    ASSUME RestType, NEW S, RemoveTemps(S)
    PROVE  \A k \in Job : temp'[k] = "none" => temp[k] = "none"
<1>. PICK lucky \in SUBSET {k \in S : pc[k] \in {"capturing", "archiving"}} :
       temp' = [k \in Job |-> IF k \in lucky \/ k \notin S \/ temp[k] = "none" THEN temp[k]
                              ELSE IF pc[k] \in {"capturing", "extended"} THEN "torn" ELSE "gone"]
  BY DEF RemoveTemps
<1>. QED
  OBVIOUS

(* What a step of a deletion does to the row of k. *)
Spares(k) ==
  /\ temp'[k] = "none" => temp[k] = "none"
  /\ \/ status'[k] = status[k]
     \/ status'[k] = "none"
     \/ status[k] # "none" /\ status'[k] = "cancelled"
  /\ status'[k] # "none" /\ Kept(k) => Kept(k)'

LEMMA RowsSpared ==
    ASSUME RowsHold, UNCHANGED <<pc, booting, stranded>>, Swept', \A k \in Job : Spares(k)
    PROVE  RowsHold'
<1>1. "none" \notin Unfinished /\ "cancelled" \notin Unfinished
  BY DEF Unfinished
<1>2. ASSUME NEW k \in Job PROVE RowOk(k)'
  <2>1. Spares(k) /\ RowOk(k)
    BY DEF RowsHold
  <2>. QED
    BY <1>1, <2>1 DEF Spares, RowOk, Worked
<1>. QED
  BY <1>2 DEF RowsHold

LEMMA DeletionRows ==
    ASSUME RestType, RowsHold, NEW j \in Job, AskDelete(j) \/ DeleteStep(j)
    PROVE  RowsHold'
<1>. USE DEF NotADeletion, disk, handlers, outer
<1>1. UNCHANGED <<pc, booting, stranded, sweep>>
  BY DEF AskDelete, DeleteStep, DeleteFiles, DeleteRow, CancelJob, CancelFiles, CancelRow
<1>2. Swept'
  BY <1>1 DEF RowsHold, Swept
<1>3. CASE AskDelete(j)
  <2>1. \A k \in Job : Spares(k)
    BY <1>1, <1>3 DEF AskDelete, Spares, Kept, Doomed, RestType
  <2>. QED
    BY <1>1, <1>2, <2>1, RowsSpared
<1>4. CASE DeleteFiles(j)
  <2>1. \A k \in Job : temp'[k] = "none" => temp[k] = "none"
    BY <1>4, TempsStay DEF DeleteFiles, RemoveFiles
  <2>2. \A k \in Job : Spares(k)
    BY <1>1, <1>4, <2>1 DEF DeleteFiles, RemoveFiles, Spares, Kept, Doomed, RestType
  <2>. QED
    BY <1>1, <1>2, <2>2, RowsSpared
<1>5. CASE DeleteRow(j)
  <2>1. \A k \in Job : Spares(k)
    BY <1>1, <1>5 DEF DeleteRow, Spares, Kept, Doomed, RestType
  <2>. QED
    BY <1>1, <1>2, <2>1, RowsSpared
<1>6. CASE CancelJob(j)
  <2>1. \A k \in Job : Spares(k)
    BY <1>1, <1>6 DEF CancelJob, Spares, Kept, Doomed, RestType
  <2>. QED
    BY <1>1, <1>2, <2>1, RowsSpared
<1>7. CASE CancelFiles(j)
  <2>1. \A k \in Job : temp'[k] = "none" => temp[k] = "none"
    BY <1>7, TempsStay DEF CancelFiles, RemoveFiles
  <2>2. \A k \in Job : Spares(k)
    BY <1>1, <1>7, <2>1 DEF CancelFiles, RemoveFiles, Spares, Kept, Doomed, RestType
  <2>. QED
    BY <1>1, <1>2, <2>2, RowsSpared
<1>8. CASE CancelRow(j)
  <2>1. \A k \in Job : status'[k] = status[k] \/ (status[k] # "none" /\ status'[k] = "cancelled")
    BY <1>8, UpdatedRow DEF CancelRow
  <2>2. \A k \in Job : Spares(k)
    BY <1>1, <1>8, <2>1 DEF CancelRow, Spares, Kept, Doomed, RestType
  <2>. QED
    BY <1>1, <1>2, <2>2, RowsSpared
<1>. QED
  BY <1>3, <1>4, <1>5, <1>6, <1>7, <1>8 DEF DeleteStep

LEMMA SweepRowsHold ==
    ASSUME RestType, RowsHold, NEW s \in Sample, AskSweep(s) \/ SweepStep(s)
    PROVE  RowsHold'
<1>. USE DEF NotADeletion, disk, handlers, outer
<1>1. UNCHANGED <<pc, booting, stranded, bared, del>>
  BY DEF AskSweep, SweepStep, SweepFiles, SweepTemps, SweepRows
<1>2. sweep \in [Sample -> Sweep] /\ Swept
  BY DEF RestType, RowsHold
<1>3. \A k \in Job : SampleOf[k] \in Sample
  BY JobAssumption
<1>4. CASE AskSweep(s)
  <2>. DEFINE ids == {j \in Job : SampleOf[j] = s /\ status[j] # "none"}
  <2>1. sweep' = [sweep EXCEPT ![s] = [stage |-> "files", ids |-> ids, left |-> ids]]
        /\ UNCHANGED <<status, file, temp>> /\ sweep[s].stage = "idle"
    BY <1>4 DEF AskSweep
  <2>2. /\ sweep'[s] = [stage |-> "files", ids |-> ids, left |-> ids]
        /\ \A x \in Sample : x # s => sweep'[x] = sweep[x]
    BY <1>2, <2>1
  <2>3. Swept'
    BY <1>2, <2>2 DEF Swept
  <2>4. \A k \in Job : Doomed(k) => Doomed(k)'
    BY <1>1, <1>2, <1>3, <2>1, <2>2 DEF Doomed, Swept
  <2>5. \A k \in Job : Spares(k)
    BY <1>1, <2>1, <2>4 DEF Spares, Kept
  <2>. QED
    BY <1>1, <2>3, <2>5, RowsSpared
<1>5. CASE SweepFiles(s)
  <2>1. PICK j \in sweep[s].left :
         /\ file' = [file EXCEPT ![j] = "none"]
         /\ RemoveTemps({j})
         /\ sweep' = [sweep EXCEPT ![s].left = @ \ {j},
                                   ![s].stage = IF sweep[s].left = {j} THEN "temps" ELSE @]
    BY <1>5 DEF SweepFiles
  <2>2. sweep[s].stage = "files" /\ UNCHANGED status
    BY <1>5 DEF SweepFiles
  <2>3. /\ sweep'[s].ids = sweep[s].ids /\ sweep'[s].left = sweep[s].left \ {j}
        /\ sweep'[s].stage # "idle"
        /\ \A x \in Sample : x # s => sweep'[x] = sweep[x]
    BY <1>2, <2>1, <2>2 DEF Sweep
  <2>4. Swept'
    BY <1>2, <2>3 DEF Swept
  <2>5. \A k \in Job : Doomed(k) => Doomed(k)'
    BY <1>1, <1>2, <1>3, <2>3 DEF Doomed
  <2>6. j \in sweep[s].ids => Doomed(j)'
    BY <1>2, <2>3 DEF Doomed, Swept
  <2>7. \A k \in Job : temp'[k] = "none" => temp[k] = "none"
    BY <2>1, TempsStay
  <2>8. j \in sweep[s].ids
    BY <1>2 DEF Swept
  <2>9. \A k \in Job : k # j => file'[k] = file[k]
    BY <2>1 DEF RestType
  <2>10. \A k \in Job : Spares(k)
    BY <1>1, <2>2, <2>5, <2>6, <2>7, <2>8, <2>9 DEF Spares, Kept
  <2>. QED
    BY <1>1, <2>4, <2>10, RowsSpared
<1>6. CASE SweepTemps(s)
  <2>1. /\ RemoveTemps(OfAudit(AuditOf[s])) /\ UNCHANGED <<status, file>>
        /\ sweep' = [sweep EXCEPT ![s].stage = "rows"]
    BY <1>6 DEF SweepTemps
  <2>2. /\ sweep'[s].ids = sweep[s].ids /\ sweep'[s].left = sweep[s].left
        /\ sweep'[s].stage # "idle"
        /\ \A x \in Sample : x # s => sweep'[x] = sweep[x]
    BY <1>2, <2>1 DEF Sweep
  <2>3. Swept'
    BY <1>2, <2>2 DEF Swept
  <2>4. \A k \in Job : Doomed(k) => Doomed(k)'
    BY <1>1, <1>3, <2>2 DEF Doomed
  <2>5. \A k \in Job : temp'[k] = "none" => temp[k] = "none"
    BY <2>1, TempsStay
  <2>6. \A k \in Job : Spares(k)
    BY <1>1, <2>1, <2>4, <2>5 DEF Spares, Kept
  <2>. QED
    BY <1>1, <2>3, <2>6, RowsSpared
<1>7. CASE SweepRows(s)
  <2>1. /\ \A j \in Job : status'[j] = IF SampleOf[j] = s THEN "none" ELSE status[j]
        /\ sweep' = [sweep EXCEPT ![s] = NoSweep] /\ UNCHANGED <<file, temp>>
    BY <1>7 DEF SweepRows
  <2>2. /\ sweep'[s] = NoSweep /\ \A x \in Sample : x # s => sweep'[x] = sweep[x]
    BY <1>2, <2>1
  <2>3. Swept'
    BY <1>2, <2>2 DEF Swept, NoSweep
  <2>4. \A k \in Job : SampleOf[k] # s /\ Doomed(k) => Doomed(k)'
    BY <1>1, <1>3, <2>2 DEF Doomed
  <2>5. \A k \in Job : Spares(k)
    BY <1>1, <2>1, <2>4 DEF Spares, Kept
  <2>. QED
    BY <1>1, <2>3, <2>5, RowsSpared
<1>. QED
  BY <1>4, <1>5, <1>6, <1>7 DEF SweepStep

(* What a deletion gives up is bared. *)
LEMMA DeletionFailsRows ==
    ASSUME RestType, RowsHold, DeletionFails
    PROVE  RowsHold'
<1>1. UNCHANGED <<pc, status, file, temp, booting, stranded>>
  BY DEF DeletionFails, DeleteRowFails, CancelJobFails, CancelRowFails, SweepRowsFails,
         DeletionFault, disk
<1>2. sweep \in [Sample -> Sweep] /\ DOMAIN del = Job /\ Swept
  BY DEF RestType, RowsHold
<1>3. \A k \in Job : SampleOf[k] \in Sample
  BY JobAssumption
<1>4. Swept' /\ bared \subseteq bared' /\ \A k \in Job : Doomed(k) => Doomed(k)' \/ k \in bared'
  <2>1. ASSUME NEW j \in Job, DeleteRowFails(j) \/ CancelJobFails(j) \/ CancelRowFails(j)
        PROVE  /\ Swept' /\ bared \subseteq bared'
               /\ \A k \in Job : Doomed(k) => Doomed(k)' \/ k \in bared'
    <3>1. /\ sweep' = sweep /\ bared \subseteq bared' /\ \A k \in Job : k # j => del'[k] = del[k]
          /\ del[j] = "row" => j \in bared'
      BY <1>2, <2>1 DEF DeleteRowFails, CancelJobFails, CancelRowFails
    <3>. QED
      BY <1>2, <3>1 DEF Swept, Doomed
  <2>2. ASSUME NEW s \in Sample, SweepRowsFails(s)
        PROVE  /\ Swept' /\ bared \subseteq bared'
               /\ \A k \in Job : Doomed(k) => Doomed(k)' \/ k \in bared'
    <3>1. /\ sweep'[s] = NoSweep /\ \A x \in Sample : x # s => sweep'[x] = sweep[x]
          /\ bared' = bared \cup sweep[s].ids /\ del' = del
      BY <1>2, <2>2 DEF SweepRowsFails
    <3>2. Swept'
      BY <1>2, <3>1 DEF Swept, NoSweep
    <3>. QED
      BY <1>3, <3>1, <3>2 DEF Doomed
  <2>. QED
    BY <2>1, <2>2 DEF DeletionFails
<1>5. \A k \in Job : Spares(k)
  BY <1>1, <1>4 DEF Spares, Kept
<1>. QED
  BY <1>1, <1>4, <1>5, RowsSpared

-----------------------------------------------------------------------------
(* Every step. *)

LEMMA RowsFrozen ==
    ASSUME RowsHold, UNCHANGED <<pc, status, file, temp, del, sweep, booting, stranded, bared>>
    PROVE  RowsHold'
  BY DEF RowsHold, Swept, RowOk, Kept, Worked, Doomed

LEMMA RestartRows ==
    ASSUME RestType, RowsHold, Restart
    PROVE  RowsHold'
<1>1. /\ pc' = [j \in Job |-> IF pc[j] \in {"new", "done"} THEN pc[j] ELSE "gone"]
      /\ sweep' = [s \in Sample |-> NoSweep] /\ booting' = TRUE
      /\ bared' = bared \cup {j \in Job : Doomed(j)} /\ UNCHANGED <<status, file>>
  BY DEF Restart
<1>2. Swept'
  BY <1>1 DEF Swept, NoSweep
<1>3. ASSUME NEW k \in Job PROVE RowOk(k)'
  <2>1. RowOk(k)
    BY DEF RowsHold
  <2>2. Kept(k) => Kept(k)'
    BY <1>1 DEF Kept
  <2>3. pc'[k] \in {"new", "done", "gone"} /\ (pc[k] = "done" => pc'[k] = "done")
    BY <1>1
  <2>4. Worked(k)'
    BY <1>1 DEF Worked
  <2>. QED
    BY <1>1, <2>1, <2>2, <2>3, <2>4 DEF RowOk, Reading
<1>. QED
  BY <1>2, <1>3 DEF RowsHold

LEMMA RecoverRows ==
    ASSUME RestType, RowsHold, Recover \/ RecoverFails
    PROVE  RowsHold'
<1>1. UNCHANGED <<pc, file, temp, del, sweep, bared>>
  BY DEF Recover, RecoverFails, disk, handlers
<1>2. Swept'
  BY <1>1 DEF RowsHold, Swept
<1>3. ASSUME NEW k \in Job PROVE RowOk(k)'
  <2>1. RowOk(k) /\ "failed" \notin Unfinished
    BY DEF RowsHold, Unfinished
  <2>2. Kept(k)' <=> Kept(k)
    BY <1>1 DEF Kept, Doomed
  <2>3. CASE Recover
    <3>1. status'[k] = IF status[k] \in Unfinished THEN "failed" ELSE status[k]
      BY <2>3 DEF Recover
    <3>2. status[k] \in Unfinished => status[k] # "none"
      BY DEF Unfinished
    <3>. QED
      BY <1>1, <2>1, <2>2, <3>1, <3>2 DEF RowOk
  <2>4. CASE RecoverFails
    <3>1. status' = status /\ (status[k] \in Unfinished => k \in stranded')
      BY <2>4 DEF RecoverFails
    <3>. QED
      BY <1>1, <2>1, <2>2, <3>1 DEF RowOk, Worked
  <2>. QED
    BY <2>3, <2>4
<1>. QED
  BY <1>2, <1>3 DEF RowsHold

LEMMA InitRows == Init => RowsHold
<1>. SUFFICES ASSUME Init PROVE RowsHold
  OBVIOUS
<1>1. Swept
  BY DEF Init, Swept, NoSweep
<1>2. \A k \in Job : status[k] = "none" /\ pc[k] = "new"
  BY DEF Init
<1>3. \A k \in Job : RowOk(k)
  BY <1>2 DEF RowOk, Reading, Unfinished
<1>. QED
  BY <1>1, <1>3 DEF RowsHold

LEMMA RowsStep ==
    ASSUME RowInv, [Next]_vars
    PROVE  RowsHold'
<1>0. RowsHold /\ Slots /\ RestType
  BY Types DEF RowInv, SlotInv, Slots
<1>1. CASE UNCHANGED vars
  BY <1>0, <1>1, RowsFrozen DEF vars, disk, handlers, outer
<1>2. CASE PumpTakes
  BY <1>0, <1>2, PumpRows
<1>3. CASE PumpStops
  BY <1>0, <1>3, RowsFrozen DEF PumpStops, disk, handlers, outer
<1>4. ASSUME NEW j \in Job, InsertRow(j) PROVE RowsHold'
  BY <1>0, <1>4, CapturingRows
<1>5. ASSUME NEW j \in Job, MicroStep(j) PROVE RowsHold'
  BY <1>0, <1>5, QuietRows
<1>6. ASSUME NEW j \in Job, CaptureStep(j) PROVE RowsHold'
  BY <1>0, <1>6, QuietRows, CapturingRows, FailingRows, FinishingRows DEF CaptureStep
<1>7. ASSUME NEW j \in Job, StatementFails(j) PROVE RowsHold'
  BY <1>0, <1>7, CapturingRows, FailingRows, FinishingRows DEF StatementFails
<1>8. ASSUME NEW j \in Job, AskDelete(j) \/ DeleteStep(j) PROVE RowsHold'
  BY <1>0, <1>8, DeletionRows
<1>9. ASSUME NEW h \in Host, HostCools(h) PROVE RowsHold'
  BY <1>0, <1>9, RowsFrozen DEF HostCools, disk, handlers, outer
<1>10. ASSUME NEW s \in Sample, AskSweep(s) \/ SweepStep(s) PROVE RowsHold'
  BY <1>0, <1>10, SweepRowsHold
<1>11. CASE Restart
  BY <1>0, <1>11, RestartRows
<1>12. CASE Recover \/ RecoverFails
  BY <1>0, <1>12, RecoverRows
<1>13. CASE DeletionFails
  BY <1>0, <1>13, DeletionFailsRows
<1>14. CASE Next
  BY <1>2, <1>3, <1>4, <1>5, <1>6, <1>7, <1>8, <1>9, <1>10, <1>11, <1>12, <1>13, <1>14 DEF Next
<1>. QED
  BY <1>1, <1>14

(* A ready row has its archive or a deletion at work on it, a capture under way has its
   directory, and an unfinished row somebody to finish it. *)
THEOREM RowsAreAccountedFor == Spec => []RowInv
<1>1. Init => RowsHold
  BY InitRows
<1>2. RowInv /\ [Next]_vars => RowsHold'
  BY RowsStep
<1>. QED
  BY <1>1, <1>2, SlotsHold, PTL DEF Spec, RowInv

(* A row that says its capture is on its way belongs to a job that will finish it, or to a
   recovery yet to come, unless the statement about this row failed (the catch and finally
   blocks, initialize_snapshot_job_service). *)
THEOREM UnfinishedRowsAreWorkedOn == Spec => []UnfinishedHasWorker
<1>1. RowInv => UnfinishedHasWorker
  BY DEF RowInv, RowsHold, RowOk, Worked, UnfinishedHasWorker
<1>. QED
  BY <1>1, RowsAreAccountedFor, PTL

(* A row offered for download has its archive, unless a deletion has removed the file and is
   about to remove the row, or never came to it: the server stopped between the two, or the
   DELETE of the row failed (purge_audit_snapshot_by_id, purge_audit_snapshots_for_sample). *)
THEOREM ReadyRowsHaveArchives == Spec => []ReadyHasArchive
<1>1. RowInv => ReadyHasArchive
  BY DEF RowInv, RowsHold, RowOk, Kept, ReadyHasArchive
<1>. QED
  BY <1>1, RowsAreAccountedFor, PTL
=============================================================================
