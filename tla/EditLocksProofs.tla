--------------------------- MODULE EditLocksProofs ---------------------------
(***************************************************************************)
(* Theorems about EditLocks: its types, the timer of the heartbeat, who    *)
(* may end a lease, and the refinement of Lease.  They hold for fields of  *)
(* audits and of rule files alike, any number of tabs and users, and with  *)
(* no bound on what users, network and pushes do but that it is a number.  *)
(***************************************************************************)
EXTENDS EditLocks, TLAPS

USE DEF TabOrNone, AcqAt, RelAt

(* Every variable has its type in every reachable state, and a lease that has
   not run out is some tab's. *)
LEMMA TypeInit == Init => TypeOK
BY BoundAssumption DEF Init, TypeOK, Free

LEMMA RowType ==
  TypeOK => /\ row \in [tab : TabOrNone, valid : BOOLEAN]
            /\ row.valid => row.tab \in Tab
BY DEF TypeOK

LEMMA HolderType == TypeOK => holder \in TabOrNone
BY DEF TypeOK, holder

(* A list request leaves at most what there was of the row. *)
LEMMA ListKeepsRow ==
  ASSUME TypeOK, ListLocks
  PROVE  /\ row' \in [tab : TabOrNone, valid : BOOLEAN]
         /\ row'.valid => row'.tab \in Tab
         /\ holder' = holder
BY DEF TypeOK, ListLocks, Free, holder

LEMMA TypeStep == TypeOK /\ [Next]_vars => TypeOK'
<1> SUFFICES ASSUME TypeOK, [Next]_vars PROVE TypeOK'
  OBVIOUS
<1>1. holder \in TabOrNone
  BY HolderType
<1>2. ASSUME NEW b \in DOMAIN Bound, Uses(b) PROVE used' \in [DOMAIN Bound -> Nat]
  BY <1>2 DEF Uses, TypeOK
<1>3. "focus" \in DOMAIN Bound /\ "fault" \in DOMAIN Bound /\ "push" \in DOMAIN Bound
  BY BoundAssumption
<1>4. ASSUME NEW t \in Tab, AcquireStep(t) PROVE TypeOK'
  <2>1. CASE TakeLease(t)
    <3>1. /\ row' \in [tab : TabOrNone, valid : BOOLEAN]
          /\ row'.valid => row'.tab \in Tab
      <4>1. row' = [tab |-> t, valid |-> TRUE] \/ row' = row
        BY <2>1 DEF TakeLease
      <4>2. CASE row' = [tab |-> t, valid |-> TRUE]
        BY <4>2
      <4> QED BY <4>1, <4>2, RowType
    <3>2. acq' \in [Tab -> AcqAt]
      BY <2>1 DEF TakeLease, TypeOK
    <3> QED BY <2>1, <3>1, <3>2 DEF TakeLease, TypeOK
  <2>2. CASE Granted(t)
    BY <2>2 DEF Granted, TypeOK
  <2>3. CASE Refused(t)
    BY <2>3, <1>1, ListKeepsRow DEF Refused, TypeOK
  <2>4. CASE StartHeartbeat(t)
    BY <2>4, <1>1, ListKeepsRow DEF StartHeartbeat, TypeOK
  <2>5. CASE CheckFocus(t)
    BY <2>5 DEF CheckFocus, TypeOK
  <2> QED BY <1>4, <2>1, <2>2, <2>3, <2>4, <2>5 DEF AcquireStep
<1>5. ASSUME NEW t \in Tab, ReleaseStep(t) PROVE TypeOK'
  <2>1. CASE DropLease(t)
    BY <2>1 DEF DropLease, Free, TypeOK
  <2>2. CASE Left(t)
    BY <2>2 DEF Left, TypeOK
  <2>3. CASE StopHeartbeatIfIdle(t)
    BY <2>3, <1>1, ListKeepsRow DEF StopHeartbeatIfIdle, TypeOK
  <2> QED BY <1>5, <2>1, <2>2, <2>3 DEF ReleaseStep
<1>6. ASSUME NEW t \in Tab, BeatStep(t) PROVE TypeOK'
  <2>1. CASE Heartbeat(t)
    <3>1. /\ row' \in [tab : TabOrNone, valid : BOOLEAN]
          /\ row'.valid => row'.tab \in Tab
      <4>1. \/ row.tab = t /\ row' = [row EXCEPT !.valid = TRUE]
            \/ row' = row
        BY <2>1 DEF Heartbeat
      <4> QED BY <4>1, RowType
    <3>2. beat' \in [Tab -> BOOLEAN]
      BY <2>1 DEF Heartbeat, TypeOK
    <3> QED BY <2>1, <3>1, <3>2 DEF Heartbeat, TypeOK
  <2>2. CASE HeartbeatRefused(t)
    BY <2>2, <1>1, ListKeepsRow DEF HeartbeatRefused, TypeOK
  <2> QED BY <1>6, <2>1, <2>2 DEF BeatStep
<1>7. ASSUME NEW t \in Tab, Refreshed(t) PROVE TypeOK'
  BY <1>7 DEF Refreshed, TypeOK
<1>8. ASSUME NEW t \in Tab, Event(t) PROVE TypeOK'
  <2>1. CASE Focus(t)
    BY <2>1, <1>2, <1>3 DEF Focus, TypeOK
  <2>2. CASE Blur(t)
    BY <2>2 DEF Blur, TypeOK
  <2>3. CASE LocksChanged(t)
    BY <2>3, <1>1, <1>2, <1>3, ListKeepsRow DEF LocksChanged, TypeOK
  <2>4. CASE AcquireLost(t)
    BY <2>4, <1>2, <1>3 DEF AcquireLost, TypeOK
  <2>5. CASE ReleaseLost(t)
    BY <2>5, <1>2, <1>3 DEF ReleaseLost, TypeOK
  <2>6. CASE Reload(t)
    BY <2>6, <1>2, <1>3 DEF Reload, TypeOK
  <2> QED BY <1>8, <2>1, <2>2, <2>3, <2>4, <2>5, <2>6 DEF Event
<1>9. CASE Expire
  BY <1>9 DEF Expire, client, TypeOK
<1>10. CASE UNCHANGED vars
  BY <1>10 DEF vars, client, TypeOK
<1> QED
  BY <1>4, <1>5, <1>6, <1>7, <1>8, <1>9, <1>10 DEF Next, Step

THEOREM TypeCorrect == Spec => []TypeOK
BY TypeInit, TypeStep, PTL DEF Spec

------------------------------------------------------------------------------
(* Steps by what they do to the variables of ActiveIsProlonged. *)
LEMMA ProlongedStep ==
  TypeOK /\ ActiveIsProlonged /\ [Next]_vars => ActiveIsProlonged'
<1> SUFFICES ASSUME TypeOK, ActiveIsProlonged, [Next]_vars,
                    NEW s \in Tab, active'[s]
             PROVE  beating'[s] \/ acq'[s] = "taken"
  BY DEF ActiveIsProlonged
<1> USE DEF TypeOK
<1>1. active[s] => beating[s] \/ acq[s] = "taken"
  BY DEF ActiveIsProlonged
<1>2. ASSUME NEW t \in Tab, AcquireStep(t) PROVE beating'[s] \/ acq'[s] = "taken"
  <2>1. CASE TakeLease(t)
    BY <2>1, <1>1 DEF TakeLease
  <2>2. CASE Granted(t)
    BY <2>2, <1>1 DEF Granted
  <2>3. CASE Refused(t)
    BY <2>3, <1>1 DEF Refused
  <2>4. CASE StartHeartbeat(t)
    BY <2>4, <1>1 DEF StartHeartbeat
  <2>5. CASE CheckFocus(t)
    BY <2>5, <1>1 DEF CheckFocus
  <2> QED BY <1>2, <2>1, <2>2, <2>3, <2>4, <2>5 DEF AcquireStep
<1>3. ASSUME NEW t \in Tab, ReleaseStep(t) PROVE beating'[s] \/ acq'[s] = "taken"
  <2>1. CASE DropLease(t)
    BY <2>1, <1>1 DEF DropLease
  <2>2. CASE Left(t)
    BY <2>2, <1>1 DEF Left
  <2>3. CASE StopHeartbeatIfIdle(t)
    BY <2>3, <1>1 DEF StopHeartbeatIfIdle
  <2> QED BY <1>3, <2>1, <2>2, <2>3 DEF ReleaseStep
<1>4. ASSUME NEW t \in Tab, BeatStep(t) \/ Refreshed(t) PROVE beating'[s] \/ acq'[s] = "taken"
  BY <1>4, <1>1 DEF BeatStep, Heartbeat, HeartbeatRefused, Refreshed
<1>5. ASSUME NEW t \in Tab, Event(t) PROVE beating'[s] \/ acq'[s] = "taken"
  <2>1. CASE Focus(t) \/ Blur(t) \/ LocksChanged(t) \/ ReleaseLost(t)
    BY <2>1, <1>1 DEF Focus, Blur, LocksChanged, ReleaseLost
  <2>2. CASE AcquireLost(t)
    BY <2>2, <1>1 DEF AcquireLost
  <2>3. CASE Reload(t)
    BY <2>3, <1>1 DEF Reload
  <2> QED BY <1>5, <2>1, <2>2, <2>3 DEF Event
<1>6. CASE Expire
  BY <1>6, <1>1 DEF Expire, client
<1>7. CASE UNCHANGED vars
  BY <1>7, <1>1 DEF vars, client
<1> QED
  BY <1>2, <1>3, <1>4, <1>5, <1>6, <1>7 DEF Next, Step

(* What a tab believes it holds is prolonged, however its acquisitions and
   releases overlap. *)
THEOREM Prolonged == Spec => []ActiveIsProlonged
<1>1. Init => ActiveIsProlonged
  BY DEF Init, ActiveIsProlonged
<1> QED BY <1>1, TypeCorrect, ProlongedStep, PTL DEF Spec

------------------------------------------------------------------------------
(* What a step does to the holder: the table of the two theorems below. *)
LEMMA HolderStep ==
  ASSUME TypeOK, [Next]_vars
  PROVE  /\ user' = user
         /\ \/ holder' = holder
            \/ Expire /\ holder' = NoTab
            \/ \E t \in Tab : /\ holder = t
                              /\ rel[t] = "sent" /\ rel'[t] = "done"
                              /\ holder' = NoTab
            \/ \E t \in Tab : /\ holder # NoTab => user[holder] = user[t]
                              /\ holder' = t
<1> USE DEF TypeOK, holder
<1>1. ASSUME NEW t \in Tab, TakeLease(t)
      PROVE  /\ user' = user
             /\ \/ holder' = holder
                \/ /\ holder # NoTab => user[holder] = user[t]
                   /\ holder' = t
  BY <1>1 DEF TakeLease
<1>2. ASSUME NEW t \in Tab, DropLease(t)
      PROVE  /\ user' = user
             /\ \/ holder' = holder
                \/ /\ holder = t
                   /\ rel[t] = "sent" /\ rel'[t] = "done"
                   /\ holder' = NoTab
  BY <1>2, NoTabAssumption DEF DropLease, Free
<1>3. ASSUME NEW t \in Tab, Heartbeat(t)
      PROVE  /\ user' = user
             /\ \/ holder' = holder
                \/ /\ holder # NoTab => user[holder] = user[t]
                   /\ holder' = t
  BY <1>3 DEF Heartbeat
<1>4. ASSUME NEW t \in Tab,
             \/ Refused(t) \/ StartHeartbeat(t) \/ StopHeartbeatIfIdle(t)
             \/ HeartbeatRefused(t) \/ LocksChanged(t)
      PROVE  user' = user /\ holder' = holder
  BY <1>4, ListKeepsRow
     DEF Refused, StartHeartbeat, StopHeartbeatIfIdle, HeartbeatRefused, LocksChanged
<1>5. ASSUME NEW t \in Tab,
             \/ Granted(t) \/ CheckFocus(t) \/ Left(t) \/ Refreshed(t) \/ Focus(t)
             \/ Blur(t) \/ AcquireLost(t) \/ ReleaseLost(t) \/ Reload(t)
      PROVE  user' = user /\ holder' = holder
  BY <1>5 DEF Granted, CheckFocus, Left, Refreshed, Focus, Blur, AcquireLost,
              ReleaseLost, Reload
<1>6. CASE Expire
  BY <1>6 DEF Expire
<1>7. CASE UNCHANGED vars
  BY <1>7 DEF vars
<1> HIDE DEF TypeOK, holder
<1> QED
  BY <1>1, <1>2, <1>3, <1>4, <1>5, <1>6, <1>7
     DEF Next, Step, Event, AcquireStep, ReleaseStep, BeatStep

(* A lease ends by its lease_until, its own tab or a tab of its user. *)
THEOREM LeaseEnds == Spec => NobodyElseEndsALease
<1>1. TypeOK /\ [Next]_vars
        => [\A t \in Tab :
              holder = t /\ holder' # t
                => \/ Expire
                   \/ rel[t] = "sent" /\ rel'[t] = "done"
                   \/ holder' \in Tab /\ user[holder'] = user[t]]_vars
  BY HolderStep, NoTabAssumption
<1> QED BY <1>1, TypeCorrect, PTL DEF Spec, NobodyElseEndsALease

(* The table with its handlers, and whatever the tabs send, is a lease. *)
THEOREM LocksImplementLease == Spec => ImplementsLease
<1>1. Init => Row!Init
  BY DEF Init, Row!Init, holder, Free
<1>2. TypeOK /\ [Next]_vars => [Row!Next]_(Row!vars)
  <2> SUFFICES ASSUME TypeOK, [Next]_vars PROVE [Row!Next]_(Row!vars)
    OBVIOUS
  <2> QED BY HolderStep DEF Row!Next, Row!Take, Row!Lose, Row!vars
<1> QED BY <1>1, <1>2, TypeCorrect, PTL DEF Spec, ImplementsLease, Row!Spec
=============================================================================
