------------------------------ MODULE EditLocks ------------------------------
(***************************************************************************)
(* The lock of one text field: its row on the server                       *)
(* (server/routes/audits.js:384-515 and, statement for statement the same, *)
(* server/routes/rules.js:76-212) and the tabs that take, prolong and      *)
(* release it (js/logic/audit_lock_service.js, rulefile_lock_service.js)   *)
(* when the field gets and loses the focus.                                *)
(*                                                                         *)
(* An action is the code between two awaits, or one handler of the server. *)
(* Requests of one tab may overtake one another.  A lease runs out at any  *)
(* time: timers of hidden tabs are throttled below the 15 s of the         *)
(* heartbeat, and machines sleep.  At most one acquisition, one release,   *)
(* and one refresh of a tab are under way; a GET on which an acquisition   *)
(* or a release waits is answered in the step that reads the table, and a  *)
(* heartbeat reaches the server in the step that sends it.                 *)
(***************************************************************************)
EXTENDS Naturals

CONSTANTS Tab, User,
          NoTab,                 \* no tab: the field is free
          ChecksFocus,           \* TRUE: fields of rule files, FALSE: of audits
          Bound                  \* how often the users, the network and pushes act

NoList == "no list"

ASSUME NoTabAssumption == NoTab \notin Tab /\ NoList \notin Tab \cup {NoTab}
ASSUME ChecksFocusAssumption == ChecksFocus \in BOOLEAN
ASSUME BoundAssumption == Bound \in [{"focus", "fault", "push"} -> Nat]

VARIABLES
    user,       \* who is logged in in a tab; the same user may have several
    row,        \* the row of the lock table: whose, and lease_until >= now
    focus,      \* the field has the focus
    active,     \* it is in active_locks_by_part
    beating,    \* heartbeat_timer is set
    known,      \* its entry of known_remote_locks_by_part
    acquired,   \* gvLockAcquired (fields of rule files only)
    acq, rel,   \* try_acquire and release: where they stand
    beat,       \* a refused heartbeat is about to load the locks
    look,       \* the list a refresh_remote_locks is about to be answered
    used        \* how much of Bound is used up

client == <<focus, active, beating, known, acquired, acq, rel, beat, look>>
vars == <<user, row, client, used>>

TabOrNone == Tab \cup {NoTab}

AcqAt == {"none", "posted", "granted", "refused", "taken", "check"}
RelAt == {"none", "sent", "done", "left"}

Free == [tab |-> NoTab, valid |-> FALSE]

(* The tab whose lease has not run out. *)
holder == IF row.valid THEN row.tab ELSE NoTab

Init ==
    /\ user \in [Tab -> User]
    /\ row = Free
    /\ focus = [t \in Tab |-> FALSE]
    /\ active = [t \in Tab |-> FALSE]
    /\ beating = [t \in Tab |-> FALSE]
    /\ known = [t \in Tab |-> NoTab]
    /\ acquired = [t \in Tab |-> FALSE]
    /\ acq = [t \in Tab |-> "none"]
    /\ rel = [t \in Tab |-> "none"]
    /\ beat = [t \in Tab |-> FALSE]
    /\ look = [t \in Tab |-> NoList]
    /\ used = [b \in DOMAIN Bound |-> 0]

(* One more of what Bound limits. *)
Uses(b) == /\ used[b] < Bound[b]
           /\ used' = [used EXCEPT ![b] = @ + 1]

------------------------------------------------------------------------------
(* The server.                                                             *)

(* Seeded fault: the upsert without its WHERE clause. *)
TakeAnyLease(t) ==
    /\ acq[t] = "posted"
    /\ row' = [tab |-> t, valid |-> TRUE]
    /\ acq' = [acq EXCEPT ![t] = "granted"]
    /\ UNCHANGED <<user, focus, active, beating, known, acquired, rel, beat, look, used>>

(* POST locks: remove what has run out, insert, take over the user's own. *)
TakeLease(t) ==
    /\ acq[t] = "posted"
    /\ \/ /\ holder # NoTab => user[holder] = user[t]
          /\ row' = [tab |-> t, valid |-> TRUE]
          /\ acq' = [acq EXCEPT ![t] = "granted"]
       \/ /\ holder # NoTab
          /\ user[holder] # user[t]
          /\ acq' = [acq EXCEPT ![t] = "refused"]
          /\ UNCHANGED row
    /\ UNCHANGED <<user, focus, active, beating, known, acquired, rel, beat, look, used>>

(* Seeded fault: DELETE by part, without the client_lock_id. *)
DropAnyLease(t) ==
    /\ rel[t] = "sent"
    /\ row' = Free
    /\ rel' = [rel EXCEPT ![t] = "done"]
    /\ UNCHANGED <<user, focus, active, beating, known, acquired, acq, beat, look, used>>

(* DELETE lock; that the row is another's (409) is ignored by the client. *)
DropLease(t) ==
    /\ rel[t] = "sent"
    /\ row' = IF row.tab = t THEN Free ELSE row
    /\ rel' = [rel EXCEPT ![t] = "done"]
    /\ UNCHANGED <<user, focus, active, beating, known, acquired, acq, beat, look, used>>

(* GET locks removes what has run out and lists the rest. *)
ListLocks == row' = IF row.valid THEN row ELSE Free

(* lease_until passes. *)
Expire ==
    /\ row.valid
    /\ row' = [row EXCEPT !.valid = FALSE]
    /\ UNCHANGED <<user, client, used>>

------------------------------------------------------------------------------
(* The focus.                                                              *)

(* focusin, focus: try_acquire_audit_part_lock, try_acquire_rulefile_part_lock. *)
Focus(t) ==
    /\ Uses("focus")
    /\ ~focus[t]
    /\ acq[t] = "none"
    /\ focus' = [focus EXCEPT ![t] = TRUE]
    /\ acq' = [acq EXCEPT ![t] = "posted"]
    /\ UNCHANGED <<user, row, active, beating, known, acquired, rel, beat, look>>

(* focusout releases whatever it is; blur only what gvLockAcquired says. *)
Blur(t) ==
    /\ focus[t]
    /\ rel[t] = "none"
    /\ focus' = [focus EXCEPT ![t] = FALSE]
    /\ rel' = IF ChecksFocus /\ ~acquired[t] THEN rel
              ELSE [rel EXCEPT ![t] = "sent"]
    /\ acquired' = [acquired EXCEPT ![t] = FALSE]
    /\ UNCHANGED <<user, row, active, beating, known, acq, beat, look, used>>

------------------------------------------------------------------------------
(* try_acquire_..._part_lock.                                              *)

Granted(t) ==
    /\ acq[t] = "granted"
    /\ active' = [active EXCEPT ![t] = TRUE]
    /\ acq' = [acq EXCEPT ![t] = "taken"]
    /\ UNCHANGED <<user, row, focus, beating, known, acquired, rel, beat, look, used>>

(* The catch block: only the list of locks is loaded again. *)
Refused(t) ==
    /\ acq[t] = "refused"
    /\ ListLocks
    /\ known' = [known EXCEPT ![t] = holder]
    /\ acq' = [acq EXCEPT ![t] = "none"]
    /\ UNCHANGED <<user, focus, active, beating, acquired, rel, beat, look, used>>

StartHeartbeat(t) ==
    /\ acq[t] = "taken"
    /\ ListLocks
    /\ known' = [known EXCEPT ![t] = holder]
    /\ beating' = [beating EXCEPT ![t] = TRUE]
    /\ acq' = [acq EXCEPT ![t] = IF ChecksFocus THEN "check" ELSE "none"]
    /\ UNCHANGED <<user, focus, active, acquired, rel, beat, look, used>>

(* Seeded fault: the focus is not looked at after the awaits. *)
CheckNothing(t) ==
    /\ acq[t] = "check"
    /\ acquired' = [acquired EXCEPT ![t] = TRUE]
    /\ acq' = [acq EXCEPT ![t] = "none"]
    /\ UNCHANGED <<user, row, focus, active, beating, known, rel, beat, look, used>>

(* The focus handler of a rule file's field, after its awaits. *)
CheckFocus(t) ==
    /\ acq[t] = "check"
    /\ \/ /\ focus[t]
          /\ acquired' = [acquired EXCEPT ![t] = TRUE]
          /\ UNCHANGED rel
       \/ /\ ~focus[t]
          /\ rel[t] = "none"
          /\ rel' = [rel EXCEPT ![t] = "sent"]
          /\ UNCHANGED acquired
    /\ acq' = [acq EXCEPT ![t] = "none"]
    /\ UNCHANGED <<user, row, focus, active, beating, known, beat, look, used>>

------------------------------------------------------------------------------
(* release_..._part_lock: the finally block.                               *)

(* Seeded fault: the timer is stopped whatever active_locks_by_part holds. *)
StopHeartbeat(t) ==
    /\ rel[t] = "left"
    /\ ListLocks
    /\ known' = [known EXCEPT ![t] = holder]
    /\ beating' = [beating EXCEPT ![t] = FALSE]
    /\ rel' = [rel EXCEPT ![t] = "none"]
    /\ UNCHANGED <<user, focus, active, acquired, acq, beat, look, used>>

Left(t) ==
    /\ rel[t] = "done"
    /\ active' = [active EXCEPT ![t] = FALSE]
    /\ rel' = [rel EXCEPT ![t] = "left"]
    /\ UNCHANGED <<user, row, focus, beating, known, acquired, acq, beat, look, used>>

StopHeartbeatIfIdle(t) ==
    /\ rel[t] = "left"
    /\ ListLocks
    /\ known' = [known EXCEPT ![t] = holder]
    /\ beating' = [beating EXCEPT ![t] = @ /\ active[t]]
    /\ rel' = [rel EXCEPT ![t] = "none"]
    /\ UNCHANGED <<user, focus, active, acquired, acq, beat, look, used>>

------------------------------------------------------------------------------
(* The heartbeat, and refreshes.                                           *)

(* Seeded fault: whatever row there is, or is not, is taken for prolonged. *)
HeartbeatUnmatched(t) ==
    /\ beating[t]
    /\ active[t]
    /\ row' = [row EXCEPT !.valid = TRUE]
    /\ UNCHANGED <<user, client, used>>

(* The UPDATE matches user and client_lock_id, not lease_until. *)
Heartbeat(t) ==
    /\ beating[t]
    /\ active[t]
    /\ ~beat[t]
    /\ \/ /\ row.tab = t
          /\ row' = [row EXCEPT !.valid = TRUE]
          /\ UNCHANGED beat
       \/ /\ row.tab # t
          /\ beat' = [beat EXCEPT ![t] = TRUE]
          /\ UNCHANGED row
    /\ UNCHANGED <<user, focus, active, beating, known, acquired, acq, rel, look, used>>

(* Seeded fault: the refusal is swallowed. *)
HeartbeatIgnored(t) ==
    /\ beat[t]
    /\ beat' = [beat EXCEPT ![t] = FALSE]
    /\ UNCHANGED <<user, row, focus, active, beating, known, acquired, acq, rel, look, used>>

(* The catch block loads the locks and keeps the entry. *)
HeartbeatRefused(t) ==
    /\ beat[t]
    /\ ListLocks
    /\ known' = [known EXCEPT ![t] = holder]
    /\ beat' = [beat EXCEPT ![t] = FALSE]
    /\ UNCHANGED <<user, focus, active, beating, acquired, acq, rel, look, used>>

(* A push, a message of another tab, or the poll: the server lists the locks. *)
LocksChanged(t) ==
    /\ Uses("push")
    /\ look[t] = NoList
    /\ ListLocks
    /\ look' = [look EXCEPT ![t] = holder]
    /\ UNCHANGED <<user, focus, active, beating, known, acquired, acq, rel, beat>>

Refreshed(t) ==
    /\ look[t] # NoList
    /\ known' = [known EXCEPT ![t] = look[t]]
    /\ look' = [look EXCEPT ![t] = NoList]
    /\ UNCHANGED <<user, row, focus, active, beating, acquired, acq, rel, beat, used>>

------------------------------------------------------------------------------
(* Faults: a request or its answer is lost, or the page is loaded anew.    *)

AcquireLost(t) ==
    /\ Uses("fault")
    /\ acq[t] \in {"posted", "granted"}
    /\ acq' = [acq EXCEPT ![t] = "refused"]
    /\ UNCHANGED <<user, row, focus, active, beating, known, acquired, rel, beat, look>>

ReleaseLost(t) ==
    /\ Uses("fault")
    /\ rel[t] = "sent"
    /\ rel' = [rel EXCEPT ![t] = "done"]
    /\ UNCHANGED <<user, row, focus, active, beating, known, acquired, acq, beat, look>>

(* The module state goes; the lock id survives in the session storage. *)
Reload(t) ==
    /\ Uses("fault")
    /\ focus' = [focus EXCEPT ![t] = FALSE]
    /\ active' = [active EXCEPT ![t] = FALSE]
    /\ beating' = [beating EXCEPT ![t] = FALSE]
    /\ known' = [known EXCEPT ![t] = NoTab]
    /\ acquired' = [acquired EXCEPT ![t] = FALSE]
    /\ acq' = [acq EXCEPT ![t] = "none"]
    /\ rel' = [rel EXCEPT ![t] = "none"]
    /\ beat' = [beat EXCEPT ![t] = FALSE]
    /\ look' = [look EXCEPT ![t] = NoList]
    /\ UNCHANGED <<user, row>>

------------------------------------------------------------------------------
(* try_acquire and release run to their end, the timer of the heartbeat
   fires and its callback runs to its end. *)
AcquireStep(t) == \/ TakeLease(t) \/ Granted(t) \/ Refused(t)
                  \/ StartHeartbeat(t) \/ CheckFocus(t)
ReleaseStep(t) == DropLease(t) \/ Left(t) \/ StopHeartbeatIfIdle(t)
BeatStep(t)    == Heartbeat(t) \/ HeartbeatRefused(t)

Step(t) == AcquireStep(t) \/ ReleaseStep(t) \/ BeatStep(t) \/ Refreshed(t)

(* What users, networks and other tabs do. *)
Event(t) ==
    \/ Focus(t) \/ Blur(t) \/ LocksChanged(t)
    \/ AcquireLost(t) \/ ReleaseLost(t) \/ Reload(t)

Next == (\E t \in Tab : Step(t) \/ Event(t)) \/ Expire

Spec == Init /\ [][Next]_vars

(* A lease nobody prolongs runs out. *)
ExpireUnattended == Expire /\ ~active[row.tab]

(* Requests that are not lost are answered, promises continue, the timer of
   the heartbeat fires.  The steps of one operation follow one another, so
   one condition for each operation says as much as one for each step. *)
Fairness ==
    /\ WF_vars(ExpireUnattended)
    /\ \A t \in Tab : /\ WF_vars(AcquireStep(t))
                      /\ WF_vars(ReleaseStep(t))
                      /\ WF_vars(BeatStep(t))
                      /\ WF_vars(Refreshed(t))

FairSpec == Spec /\ Fairness

------------------------------------------------------------------------------
TypeOK ==
    /\ user \in [Tab -> User]
    /\ row \in [tab : TabOrNone, valid : BOOLEAN]
    /\ row.valid => row.tab \in Tab
    /\ focus \in [Tab -> BOOLEAN]
    /\ active \in [Tab -> BOOLEAN]
    /\ beating \in [Tab -> BOOLEAN]
    /\ known \in [Tab -> TabOrNone]
    /\ acquired \in [Tab -> BOOLEAN]
    /\ acq \in [Tab -> AcqAt]
    /\ rel \in [Tab -> RelAt]
    /\ beat \in [Tab -> BOOLEAN]
    /\ look \in [Tab -> TabOrNone \cup {NoList}]
    /\ used \in [DOMAIN Bound -> Nat]

(* A lock the tab believes it holds is prolonged: the timer runs, or the
   acquisition that will start it goes on.  An acquisition and a release that
   overlap must not leave an entry without a timer
   (start_heartbeat, stop_heartbeat_if_idle). *)
ActiveIsProlonged ==
    \A t \in Tab : active[t] => beating[t] \/ acq[t] = "taken"

(* Whether a lease ends is decided by its lease_until, by its own tab and by
   tabs of the same user: late DELETEs, heartbeats and lists of other tabs do
   not touch it. *)
NobodyElseEndsALease ==
    [][\A t \in Tab :
          holder = t /\ holder' # t
            => \/ Expire
               \/ rel[t] = "sent" /\ rel'[t] = "done"
               \/ holder' \in Tab /\ user[holder'] = user[t]]_vars

(* The lock table is a lease, whatever requests of the tabs cross. *)
Row == INSTANCE Lease WITH holder <- holder
ImplementsLease == Row!Spec

(* A tab that goes on as the holder of what another tab has taken gets to see
   whose it is: the refused heartbeat loads the locks. *)
LossIsNoticed ==
    \A t \in Tab :
        active[t] /\ holder \notin {t, NoTab}
          ~> \/ known[t] \notin {t, NoTab}
             \/ ~active[t]
             \/ holder \in {t, NoTab}

(* A field that lost the focus is free some time, whatever was lost on the
   way: DELETE, or the TTL, sees to it. *)
LocksAreFreed ==
    \A t \in Tab : ~focus[t] ~> (holder # t \/ focus[t])
=============================================================================
