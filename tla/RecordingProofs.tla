-------------------------- MODULE RecordingProofs --------------------------
(***************************************************************************)
(* Theorems about the recording of calls and the raising of alerts, for    *)
(* every set of users, calls and requests, every window size and           *)
(* threshold, with failing statements and restarts.                        *)
(*                                                                         *)
(* On either backend the state is well formed and a call is stored with    *)
(* its estimate or not at all.  On file SQLite a user never has two active *)
(* alerts, and the alert table implements AlertBook.  The second argument  *)
(* is mutual exclusion: a transaction holds the database from its first    *)
(* write to its end (LockInv), so nothing changes between a task's count   *)
(* of active alerts and its insertion (CountInv), nor between a request's  *)
(* reading of an alert and its update (ReadInv).                           *)
(*                                                                         *)
(* The second half is about the window that an alert was raised for.  A    *)
(* task keeps the window its detection saw while it awaits the count of    *)
(* active alerts, and other tasks of the user push their calls meanwhile.  *)
(* The argument is that nothing they do touches what was seen: a call's    *)
(* discrepancy never changes once it is estimated (Stable), windows hold   *)
(* estimated calls only (WindowInv), so a window that drifted when it was  *)
(* examined still drifts when the alert is committed (BackedStays).        *)
(***************************************************************************)
EXTENDS Recording, FiniteSetTheorems, TLAPS

AckInTransaction == {"locked", "read"}

\* On SQLite a transaction is in progress exactly when its owner has the lock.
LockInv ==
    /\ \A c \in Calls : pc[c] \in InTransaction <=> lock["database"] = c
    /\ \A r \in Acks : ackPc[r] \in AckInTransaction <=> lock["database"] = r

\* A row exists only once its task has committed, and is unacknowledged
\* exactly while it is active.
RowInv ==
    \A a \in Calls : alerts[a] # NoRow =>
        /\ pc[a] = "recorded"
        /\ alerts[a].status = "active" <=> alerts[a].ackedBy = {}

\* The row a request has found is there to stay, and its user's.
FoundInv ==
    \A r \in Acks : ackPc[r] = "read" =>
        /\ target[r] \in Calls
        /\ alerts[target[r]] # NoRow
        /\ alerts[target[r]].user = KeyUser[AckKey[r]]

\* These hold on either backend.
BaseInv == TypeOK /\ RowInv /\ FoundInv /\ AllOrNothing

\* A count that found no active alert is still right at the insertion.
CountInv == \A c \in Calls : pc[c] = "alerting" => Active(CallUser[c]) = {}

\* The status a request has read is still the row's when it writes.
ReadInv ==
    \A r \in Acks : ackPc[r] = "read" => alerts[target[r]].status = seen[r]

AtMostOne == \A u \in Users : \A a, b \in Active(u) : a = b

\* These need SQLite's one writer.
SqliteInv == LockInv /\ CountInv /\ ReadInv /\ AtMostOne
-----------------------------------------------------------------------------
(* Type correctness *)

LEMMA DistinctStates ==
    /\ InTransaction \subseteq TaskStates
    /\ {"idle", "queued", "recorded", "failed", "lost"} \subseteq TaskStates
    /\ {"idle", "queued", "recorded", "failed", "lost"} \cap InTransaction = {}
  BY DEF InTransaction, Over, TaskStates

LEMMA PushedType ==
    ASSUME NEW w \in Seq(Calls), NEW c \in Calls
    PROVE  Pushed(w, c) \in Seq(Calls)
  <1>1. CASE Len(w) < DefaultWindow
    BY <1>1 DEF Pushed
  <1>2. CASE ~(Len(w) < DefaultWindow)
    <2>1. w # <<>>
      BY <1>2, RecordingAssumption
    <2>2. Tail(w) \in Seq(Calls)
      BY <2>1
    <2> QED
      BY <1>2, <2>2 DEF Pushed
  <1> QED
    BY <1>1, <1>2

LEMMA ReleaseType ==
    ASSUME lock \in [Locks -> Calls \cup Acks \cup {Nobody}], NEW p, Release(p)
    PROVE  lock' \in [Locks -> Calls \cup Acks \cup {Nobody}]
  BY DEF Release

LEMMA AcquireType ==
    ASSUME lock \in [Locks -> Calls \cup Acks \cup {Nobody}],
           NEW p \in Calls \cup Acks, NEW L, Acquire(p, L)
    PROVE  lock' \in [Locks -> Calls \cup Acks \cup {Nobody}]
  BY DEF Acquire

LEMMA InitType == Init => TypeOK
  BY RecordingAssumption DEF Init, TypeOK, TaskStates, AckStates

LEMMA TaskType == ASSUME TypeOK, NEW c \in Calls, Schedule(c) \/ Task(c)
                  PROVE  TypeOK'
  <1>1. CASE Schedule(c)
    BY <1>1, DistinctStates DEF Schedule, TypeOK, ackVars
  <1>2. CASE Insert(c)
    <2>1. lock' \in [Locks -> Calls \cup Acks \cup {Nobody}]
      BY <1>2, AcquireType DEF Insert, TypeOK
    <2> QED
      BY <1>2, <2>1 DEF Insert, TypeOK, ackVars, TaskStates, InTransaction
  <1>3. CASE Estimate(c)
    <2>1. PICK d \in Discrepancies :
            LET u == CallUser[c]
                w == Pushed(window[u], c)
            IN  /\ disc' = [disc EXCEPT ![c] = d]
                /\ window' = [window EXCEPT ![u] = w]
                /\ IF AlertsOn /\ Drifts(w, disc')
                   THEN /\ sustained' = [sustained EXCEPT ![c] = w]
                        /\ pc' = [pc EXCEPT ![c] = "detected"]
                   ELSE /\ pc' = [pc EXCEPT ![c] = "ready"]
                        /\ UNCHANGED sustained
      BY <1>3 DEF Estimate
    <2>2. CallUser[c] \in Users /\ d \in Int
      BY RecordingAssumption
    <2>3. Pushed(window[CallUser[c]], c) \in Seq(Calls)
      BY <2>2, PushedType DEF TypeOK
    <2>4. /\ disc' \in [Calls -> Int]
          /\ window' \in [Users -> Seq(Calls)]
          /\ sustained' \in [Calls -> Seq(Calls)]
      BY <2>1, <2>2, <2>3 DEF TypeOK
    <2>5. pc' \in [Calls -> TaskStates]
      BY <2>1 DEF TypeOK, TaskStates, InTransaction
    <2> QED
      BY <1>3, <2>4, <2>5 DEF Estimate, TypeOK, ackVars
  <1>4. CASE CountActive(c)
    BY <1>4 DEF CountActive, TypeOK, ackVars, TaskStates, InTransaction
  <1>5. CASE Commit(c)
    <2>1. lock' \in [Locks -> Calls \cup Acks \cup {Nobody}]
      BY <1>5, ReleaseType DEF Commit, TypeOK
    <2>2. [status |-> "active", user |-> CallUser[c],
           calls |-> sustained[c], ackedBy |-> {}] \in AlertRow
      BY RecordingAssumption DEF TypeOK, AlertRow
    <2>3. alerts' \in [Calls -> AlertRow \cup {NoRow}]
      BY <1>5, <2>2 DEF Commit, TypeOK
    <2>4. rows' \in SUBSET Calls /\ estimates' \in SUBSET Calls
      BY <1>5 DEF Commit, TypeOK
    <2> QED
      BY <1>5, <2>1, <2>3, <2>4, DistinctStates DEF Commit, TypeOK, ackVars
  <1>6. CASE TaskFails(c)
    <2>1. lock' \in [Locks -> Calls \cup Acks \cup {Nobody}]
      BY <1>6, ReleaseType DEF TaskFails, TypeOK
    <2> QED
      BY <1>6, <2>1, DistinctStates DEF TaskFails, TypeOK, ackVars
  <1> QED
    BY <1>1, <1>2, <1>3, <1>4, <1>5, <1>6 DEF Task, Works

LEMMA AckType == ASSUME TypeOK, FoundInv, NEW r \in Acks, AckBegin(r) \/ Ack(r)
                 PROVE  TypeOK'
  <1>1. CASE AckBegin(r)
    <2>1. lock' \in [Locks -> Calls \cup Acks \cup {Nobody}]
      BY <1>1, AcquireType DEF AckBegin, TypeOK
    <2> QED
      BY <1>1, <2>1 DEF AckBegin, TypeOK, taskVars, AckStates
  <1>2. CASE AckFinds(r)
    <2>1. alerts[target[r]].status \in {"active", "acknowledged"}
      BY <1>2 DEF AckFinds, Visible, TypeOK, AlertRow
    <2> QED
      BY <1>2, <2>1 DEF AckFinds, TypeOK, taskVars, AckStates
  <1>3. CASE AckNotFound(r)
    <2>1. lock' \in [Locks -> Calls \cup Acks \cup {Nobody}]
      BY <1>3, ReleaseType DEF AckNotFound, TypeOK
    <2> QED
      BY <1>3, <2>1 DEF AckNotFound, TypeOK, taskVars, AckStates
  <1>4. CASE AckCommit(r)
    <2>1. lock' \in [Locks -> Calls \cup Acks \cup {Nobody}]
      BY <1>4, ReleaseType DEF AckCommit, TypeOK
    <2> DEFINE t == target[r]
               new == [alerts[t] EXCEPT !.status = "acknowledged", !.ackedBy = {r}]
    <2>2. t \in Calls /\ alerts[t] \in AlertRow
      BY <1>4 DEF AckCommit, FoundInv, TypeOK
    <2>3. new \in AlertRow
      BY <2>2 DEF AlertRow
    <2>4. alerts' = alerts \/ alerts' = [alerts EXCEPT ![t] = new]
      BY <1>4 DEF AckCommit
    <2>5. alerts' \in [Calls -> AlertRow \cup {NoRow}]
      BY <2>2, <2>3, <2>4 DEF TypeOK
    <2> QED
      BY <1>4, <2>1, <2>5 DEF AckCommit, TypeOK, taskVars, AckStates
  <1>5. CASE AckFails(r)
    <2>1. lock' \in [Locks -> Calls \cup Acks \cup {Nobody}]
      BY <1>5, ReleaseType DEF AckFails, TypeOK
    <2> QED
      BY <1>5, <2>1 DEF AckFails, TypeOK, taskVars, AckStates
  <1> QED
    BY <1>1, <1>2, <1>3, <1>4, <1>5 DEF Ack, Answers

LEMMA RestartType == ASSUME TypeOK, Restart PROVE TypeOK'
  <1>1. boot' \in 0..MaxBoots
    BY RecordingAssumption DEF Restart, TypeOK
  <1> QED
    BY <1>1 DEF Restart, TypeOK, TaskStates, Over, AckStates
-----------------------------------------------------------------------------
(* What holds on either backend *)

LEMMA InitBase == Init => BaseInv
  BY InitType DEF BaseInv, Init, RowInv, FoundInv, AllOrNothing

LEMMA NextBase == BaseInv /\ [Next]_vars => BaseInv'
  <1> SUFFICES ASSUME BaseInv, [Next]_vars PROVE BaseInv'
    OBVIOUS
  <1>0. TypeOK /\ RowInv /\ FoundInv /\ AllOrNothing
    BY DEF BaseInv
  <1>1. ASSUME NEW c \in Calls, Schedule(c) \/ Task(c)
        PROVE  BaseInv'
    <2>1. TypeOK'
      BY <1>0, <1>1, TaskType
    <2>2. CASE Commit(c)
      <3> DEFINE row == [status |-> "active", user |-> CallUser[c],
                         calls |-> sustained[c], ackedBy |-> {}]
      <3>1. /\ pc[c] # "recorded" /\ pc' = [pc EXCEPT ![c] = "recorded"]
            /\ alerts' = alerts \/ alerts' = [alerts EXCEPT ![c] = row]
            /\ ackPc' = ackPc /\ target' = target
        BY <2>2 DEF Commit, ackVars
      <3>2. alerts[c] = NoRow
        BY <1>0, <3>1 DEF RowInv
      <3>3. RowInv'
        BY <1>0, <3>1 DEF RowInv, TypeOK
      <3>4. FoundInv'
        BY <1>0, <3>1, <3>2 DEF FoundInv, TypeOK
      <3>5. AllOrNothing'
        BY <1>0, <2>2 DEF AllOrNothing, Commit
      <3> QED
        BY <2>1, <3>3, <3>4, <3>5 DEF BaseInv
    <2>3. CASE ~Commit(c)
      <3>1. /\ pc[c] # "recorded"
            /\ \E s \in TaskStates : pc' = [pc EXCEPT ![c] = s]
            /\ UNCHANGED <<alerts, rows, estimates, ackPc, target>>
        BY <1>1, <2>3 DEF Task, Works, Schedule, Insert, Estimate, CountActive,
             TaskFails, ackVars, TaskStates, Over, InTransaction
      <3>2. RowInv'
        BY <1>0, <3>1 DEF RowInv, TypeOK
      <3>3. FoundInv' /\ AllOrNothing'
        BY <1>0, <3>1 DEF FoundInv, AllOrNothing
      <3> QED
        BY <2>1, <3>2, <3>3 DEF BaseInv
    <2> QED
      BY <2>2, <2>3
  <1>2. ASSUME NEW r \in Acks, AckBegin(r) \/ Ack(r)
        PROVE  BaseInv'
    <2>1. TypeOK'
      BY <1>0, <1>2, AckType
    <2>2. AllOrNothing' /\ pc' = pc
      BY <1>0, <1>2 DEF AllOrNothing, AckBegin, Ack, Answers, AckFinds, AckNotFound,
           AckCommit, AckFails, taskVars
    <2>3. CASE AckCommit(r)
      <3> DEFINE t == target[r]
                 new == [alerts[t] EXCEPT !.status = "acknowledged", !.ackedBy = {r}]
      <3>1. t \in Calls /\ alerts[t] \in AlertRow /\ alerts[t] # NoRow
        BY <1>0, <2>3 DEF AckCommit, FoundInv, TypeOK
      <3>2. /\ alerts' = alerts \/ alerts' = [alerts EXCEPT ![t] = new]
            /\ ackPc' = [ackPc EXCEPT ![r] = "answered"]
            /\ target' = target
        BY <2>3 DEF AckCommit
      <3>3. /\ new.status = "acknowledged" /\ new.user = alerts[t].user
            /\ new.ackedBy # {}
            /\ new # NoRow
        BY <3>1 DEF AlertRow, NoRow
      <3> HIDE DEF new
      <3>4. RowInv'
        BY <1>0, <2>2, <3>1, <3>2, <3>3 DEF RowInv, TypeOK
      <3>5. FoundInv'
        BY <1>0, <3>1, <3>2, <3>3 DEF FoundInv, TypeOK
      <3> QED
        BY <2>1, <2>2, <3>4, <3>5 DEF BaseInv
    <2>4. CASE AckFinds(r)
      BY <1>0, <2>1, <2>2, <2>4
         DEF AckFinds, Visible, BaseInv, RowInv, FoundInv, TypeOK
    <2>5. CASE AckBegin(r) \/ AckNotFound(r) \/ AckFails(r)
      <3>1. /\ alerts' = alerts
            /\ \E s \in {"locked", "refused"} : ackPc' = [ackPc EXCEPT ![r] = s]
            /\ \A q \in Acks : q # r => target'[q] = target[q]
        BY <1>0, <2>5 DEF AckBegin, AckNotFound, AckFails, TypeOK
      <3>2. RowInv'
        BY <1>0, <2>2, <3>1 DEF RowInv
      <3>3. FoundInv'
        BY <1>0, <3>1 DEF FoundInv, TypeOK
      <3> QED
        BY <2>1, <2>2, <3>2, <3>3 DEF BaseInv
    <2> QED
      BY <1>2, <2>3, <2>4, <2>5 DEF Ack, Answers
  <1>3. CASE Restart
    <2>1. TypeOK'
      BY <1>0, <1>3, RestartType
    <2>2. RowInv' /\ FoundInv' /\ AllOrNothing'
      BY <1>0, <1>3 DEF Restart, RowInv, FoundInv, AllOrNothing, TypeOK,
           InTransaction
    <2> QED
      BY <2>1, <2>2 DEF BaseInv
  <1>4. CASE Idle \/ UNCHANGED vars
    BY <1>0, <1>4 DEF Idle, vars, BaseInv, TypeOK, RowInv, FoundInv, AllOrNothing
  <1> QED
    BY <1>1, <1>2, <1>3, <1>4 DEF Next

LEMMA Base == Spec => []BaseInv
  BY InitBase, NextBase, PTL DEF Spec

\* The rows, windows, transactions and requests are well formed whatever the
\* interleaving, the failures and the restarts (_record_and_estimate).
THEOREM TypeCorrect == Spec => []TypeOK
  <1>1. BaseInv => TypeOK
    BY DEF BaseInv
  <1> QED
    BY Base, <1>1, PTL

\* A call is stored with its estimate or not at all, on either backend
\* (_record_and_estimate flushes early and commits once).
THEOREM StoredTogether == Spec => []AllOrNothing
  <1>1. BaseInv => AllOrNothing
    BY DEF BaseInv
  <1> QED
    BY Base, <1>1, PTL
-----------------------------------------------------------------------------
(* What needs SQLite's one writer *)

LEMMA InitSqlite == Init => SqliteInv
  <1> SUFFICES ASSUME Init PROVE SqliteInv
    OBVIOUS
  <1>1. LockInv
    BY RecordingAssumption DEF Init, LockInv, InTransaction, AckInTransaction, Locks
  <1>2. \A u \in Users : Active(u) = {}
    BY DEF Init, Active, NoRow
  <1> QED
    BY <1>1, <1>2 DEF SqliteInv, Init, CountInv, ReadInv, AtMostOne

\* A step that leaves the alerts alone and lets no one else begin a
\* transaction keeps what the invariant says of them.
LEMMA TaskSqlite ==
    ASSUME Backend = "sqlite", BaseInv, SqliteInv,
           NEW c \in Calls, Schedule(c) \/ Task(c)
    PROVE  SqliteInv'
  <1>0. /\ TypeOK /\ RowInv /\ FoundInv
        /\ LockInv /\ CountInv /\ ReadInv /\ AtMostOne
    BY DEF BaseInv, SqliteInv
  <1>1. TaskLocks = {"database"} /\ "database" \in Locks
    BY DEF TaskLocks, Locks
  <1>2. /\ \A p \in Calls \cup Acks : p # Nobody
        /\ \A r \in Acks : r # c
    BY RecordingAssumption
  <1>3. ackPc' = ackPc /\ target' = target /\ seen' = seen
    BY DEF Schedule, Task, Works, Insert, Estimate, CountActive, Commit, TaskFails, ackVars
  <1>4. CASE Commit(c)
    <2> DEFINE row == [status |-> "active", user |-> CallUser[c],
                       calls |-> sustained[c], ackedBy |-> {}]
    <2>1. /\ pc[c] \in InTransaction
          /\ pc' = [pc EXCEPT ![c] = "recorded"]
          /\ alerts' = IF pc[c] = "ready" THEN alerts
                       ELSE [alerts EXCEPT ![c] = row]
          /\ pc[c] \in {"ready", "alerting"}
          /\ lock' = [l \in Locks |-> IF lock[l] = c THEN Nobody ELSE lock[l]]
      BY <1>4 DEF Commit, Release, InTransaction
    <2>2. lock["database"] = c /\ lock'["database"] = Nobody
      BY <1>0, <1>1, <2>1 DEF LockInv
    \* The lock was this task's, so no other transaction is in progress.
    <2>3. /\ \A d \in Calls : d # c => pc'[d] \notin InTransaction
          /\ \A r \in Acks : ackPc[r] \notin AckInTransaction
          /\ pc'[c] \notin InTransaction
      BY <1>0, <1>2, <2>1, <2>2 DEF LockInv, TypeOK, InTransaction
    <2>4. LockInv'
      BY <1>2, <1>3, <2>2, <2>3 DEF LockInv
    <2>5. CountInv' /\ ReadInv'
      BY <1>3, <2>3 DEF CountInv, ReadInv, InTransaction, AckInTransaction
    <2>6. AtMostOne'
      <3>1. CASE pc[c] = "ready"
        BY <1>0, <2>1, <3>1 DEF AtMostOne, Active
      <3>2. CASE pc[c] = "alerting"
        <4>1. Active(CallUser[c]) = {}
          BY <1>0, <3>2 DEF CountInv
        <4>2. /\ alerts' = [alerts EXCEPT ![c] = row]
              /\ alerts'[c] = row
              /\ \A a \in Calls : a # c => alerts'[a] = alerts[a]
          BY <1>0, <2>1, <3>2 DEF TypeOK
        <4>3. \A u \in Users : \A a \in Active(u)' :
                 \/ a \in Active(u)
                 \/ a = c /\ u = CallUser[c]
          BY <4>2 DEF Active
        <4> QED
          BY <1>0, <4>1, <4>3 DEF AtMostOne
      <3> QED
        BY <2>1, <3>1, <3>2
    <2> QED
      BY <2>4, <2>5, <2>6 DEF SqliteInv
  <1>5. CASE Schedule(c) \/ Insert(c) \/ Estimate(c) \/ CountActive(c) \/ TaskFails(c)
    <2>1. alerts' = alerts
      BY <1>5 DEF Schedule, Insert, Estimate, CountActive, TaskFails
    <2>2. /\ \A u \in Users : Active(u)' = Active(u)
          /\ Active(CallUser[c])' = Active(CallUser[c])
      BY <2>1 DEF Active
    <2>3. ReadInv' /\ AtMostOne'
      BY <1>0, <1>3, <2>1, <2>2 DEF ReadInv, AtMostOne
    <2>4. \A d \in Calls : d # c => pc'[d] = pc[d]
      BY <1>0, <1>5 DEF TypeOK, Schedule, Insert, Estimate, CountActive, TaskFails
    <2>5. CountInv'
      <3>1. pc'[c] = "alerting" => Active(CallUser[c]) = {}
        BY <1>0, <1>5 DEF TypeOK, Schedule, Insert, Estimate, CountActive, TaskFails
      <3>2. \A d \in Calls : CallUser[d] \in Users
        BY RecordingAssumption
      <3> QED
        BY <1>0, <2>2, <2>4, <3>1, <3>2 DEF CountInv
    <2>6. LockInv'
      <3>1. CASE Schedule(c)
        BY <1>0, <1>3, <3>1 DEF Schedule, LockInv, TypeOK, InTransaction
      <3>2. CASE Insert(c)
        <4>1. /\ lock["database"] = Nobody /\ lock'["database"] = c
              /\ pc'[c] \in InTransaction
          BY <1>0, <1>1, <3>2 DEF Insert, Acquire, TypeOK, InTransaction
        <4> QED
          BY <1>0, <1>2, <1>3, <2>4, <4>1 DEF LockInv
      <3>3. CASE Estimate(c) \/ CountActive(c)
        <4>1. lock' = lock /\ pc[c] \in InTransaction /\ pc'[c] \in InTransaction
          BY <1>0, <3>3 DEF Estimate, CountActive, TypeOK, InTransaction
        <4> QED
          BY <1>0, <1>3, <2>4, <4>1 DEF LockInv
      <3>4. CASE TaskFails(c)
        <4>1. /\ lock'["database"] = IF lock["database"] = c THEN Nobody
                                                             ELSE lock["database"]
              /\ pc'[c] \notin InTransaction
          BY <1>0, <1>1, <3>4 DEF TaskFails, Release, TypeOK, InTransaction
        <4> QED
          BY <1>0, <1>2, <1>3, <2>4, <4>1 DEF LockInv
      <3> QED
        BY <1>5, <3>1, <3>2, <3>3, <3>4
    <2> QED
      BY <2>3, <2>5, <2>6 DEF SqliteInv
  <1> QED
    BY <1>4, <1>5 DEF Task, Works

LEMMA AckSqlite ==
    ASSUME Backend = "sqlite", BaseInv, SqliteInv,
           NEW r \in Acks, AckBegin(r) \/ Ack(r)
    PROVE  SqliteInv'
  <1>0. /\ TypeOK /\ RowInv /\ FoundInv
        /\ LockInv /\ CountInv /\ ReadInv /\ AtMostOne
    BY DEF BaseInv, SqliteInv
  <1>1. AckLocks(r) = {"database"} /\ "database" \in Locks
    BY DEF AckLocks, Locks
  <1>2. /\ \A p \in Calls \cup Acks : p # Nobody
        /\ \A c \in Calls : r # c
    BY RecordingAssumption
  <1>3. pc' = pc
    BY DEF AckBegin, Ack, Answers, AckFinds, AckNotFound, AckCommit, AckFails, taskVars
  <1>4. \A q \in Acks : q # r => /\ ackPc'[q] = ackPc[q]
                                 /\ target'[q] = target[q]
                                 /\ seen'[q] = seen[q]
    BY <1>0 DEF AckBegin, Ack, Answers, AckFinds, AckNotFound, AckCommit, AckFails, TypeOK
  <1>5. \A c \in Calls : CallUser[c] \in Users
    BY RecordingAssumption
  <1>6. LockInv'
    <2>1. CASE AckBegin(r)
      <3>1. /\ lock["database"] = Nobody /\ lock'["database"] = r
            /\ ackPc'[r] \in AckInTransaction
        BY <1>0, <1>1, <2>1 DEF AckBegin, Acquire, TypeOK, AckInTransaction
      <3> QED
        BY <1>0, <1>2, <1>3, <1>4, <3>1 DEF LockInv
    <2>2. CASE AckFinds(r)
      <3>1. /\ lock' = lock /\ ackPc[r] \in AckInTransaction
            /\ ackPc'[r] \in AckInTransaction
        BY <1>0, <2>2 DEF AckFinds, TypeOK, AckInTransaction
      <3> QED
        BY <1>0, <1>3, <1>4, <3>1 DEF LockInv
    <2>3. CASE AckNotFound(r) \/ AckCommit(r) \/ AckFails(r)
      <3>1. /\ lock'["database"] = IF lock["database"] = r THEN Nobody
                                                           ELSE lock["database"]
            /\ ackPc'[r] \notin AckInTransaction
        BY <1>0, <1>1, <2>3
           DEF AckNotFound, AckCommit, AckFails, Release, TypeOK, AckInTransaction
      <3> QED
        BY <1>0, <1>2, <1>3, <1>4, <3>1 DEF LockInv
    <2> QED
      BY <2>1, <2>2, <2>3 DEF Ack, Answers
  <1>7. CASE AckCommit(r)
    <2> DEFINE t == target[r]
               new == [alerts[t] EXCEPT !.status = "acknowledged", !.ackedBy = {r}]
    <2>1. t \in Calls /\ alerts[t] \in AlertRow
      BY <1>0, <1>7 DEF AckCommit, FoundInv, TypeOK
    <2>2. new.status = "acknowledged"
      BY <2>1 DEF AlertRow
    <2>3. alerts' = alerts \/ alerts' = [alerts EXCEPT ![t] = new]
      BY <1>7 DEF AckCommit
    <2> HIDE DEF new
    \* An acknowledgement only takes alerts out of the active ones.
    <2>4. \A u : Active(u)' \subseteq Active(u)
      BY <1>0, <2>1, <2>2, <2>3 DEF Active, TypeOK
    <2>5. CountInv' /\ AtMostOne'
      BY <1>0, <1>3, <2>4 DEF CountInv, AtMostOne
    <2>6. \A q \in Acks : ackPc'[q] # "read"
      <3>1. lock["database"] = r /\ ackPc'[r] = "answered"
        BY <1>0, <1>7 DEF AckCommit, LockInv, AckInTransaction, TypeOK
      <3> QED
        BY <1>0, <1>4, <3>1 DEF LockInv, AckInTransaction
    <2> QED
      BY <1>6, <2>5, <2>6 DEF SqliteInv, ReadInv
  <1>8. CASE ~AckCommit(r)
    <2>1. alerts' = alerts
      BY <1>8 DEF AckBegin, Ack, Answers, AckFinds, AckNotFound, AckFails
    <2>2. \A u : Active(u)' = Active(u)
      BY <2>1 DEF Active
    <2>3. CountInv' /\ AtMostOne'
      BY <1>0, <1>3, <2>2 DEF CountInv, AtMostOne
    <2>4. ackPc'[r] = "read" => alerts[target'[r]].status = seen'[r]
      BY <1>0, <1>8 DEF AckBegin, Ack, Answers, AckFinds, AckNotFound, AckFails, TypeOK
    <2>5. ReadInv'
      BY <1>0, <1>4, <2>1, <2>4 DEF ReadInv
    <2> QED
      BY <1>6, <2>3, <2>5 DEF SqliteInv
  <1> QED
    BY <1>7, <1>8

LEMMA NextSqlite ==
    ASSUME Backend = "sqlite"
    PROVE  BaseInv /\ SqliteInv /\ [Next]_vars => SqliteInv'
  <1> SUFFICES ASSUME BaseInv, SqliteInv, [Next]_vars PROVE SqliteInv'
    OBVIOUS
  <1>1. ASSUME NEW c \in Calls, Schedule(c) \/ Task(c) PROVE SqliteInv'
    BY <1>1, TaskSqlite
  <1>2. ASSUME NEW r \in Acks, AckBegin(r) \/ Ack(r) PROVE SqliteInv'
    BY <1>2, AckSqlite
  <1>3. CASE Restart
    <2>1. /\ \A c \in Calls : pc'[c] \notin InTransaction
          /\ \A r \in Acks : ackPc'[r] \notin AckInTransaction
          /\ lock'["database"] = Nobody
          /\ alerts' = alerts
      BY <1>3 DEF Restart, InTransaction, AckInTransaction, Locks
    <2>2. LockInv'
      BY <2>1, RecordingAssumption DEF LockInv
    <2>3. CountInv' /\ ReadInv'
      BY <2>1 DEF CountInv, ReadInv, InTransaction, AckInTransaction
    <2>4. AtMostOne'
      BY <2>1 DEF SqliteInv, AtMostOne, Active
    <2> QED
      BY <2>2, <2>3, <2>4 DEF SqliteInv
  <1>4. CASE Idle \/ UNCHANGED vars
    BY <1>4 DEF Idle, vars, SqliteInv, LockInv, CountInv, ReadInv, AtMostOne, Active
  <1> QED
    BY <1>1, <1>2, <1>3, <1>4 DEF Next

LEMMA Sqlite == ASSUME Backend = "sqlite" PROVE Spec => [](BaseInv /\ SqliteInv)
  <1>1. BaseInv /\ SqliteInv /\ [Next]_vars => SqliteInv'
    BY NextSqlite
  <1> QED
    BY <1>1, InitSqlite, Base, PTL DEF Spec

\* On file SQLite no user ever has two active alerts, however many of his
\* calls are being recorded at once (maybe_persist_sustained_discrepancy_alert).
THEOREM NeverTwoActive ==
    ASSUME Backend = "sqlite"
    PROVE  Spec => []OneActiveAlert
  <1>1. BaseInv /\ SqliteInv => OneActiveAlert
    <2> SUFFICES ASSUME SqliteInv, NEW u \in Users
                 PROVE  Cardinality(Active(u)) <= 1
      BY DEF OneActiveAlert
    <2>1. CASE Active(u) = {}
      BY <2>1, FS_EmptySet
    <2>2. CASE Active(u) # {}
      <3>1. PICK a : a \in Active(u)
        BY <2>2
      <3>2. Active(u) = {a}
        BY <3>1 DEF SqliteInv, AtMostOne
      <3>3. Cardinality({a}) = 1
        BY FS_Singleton
      <3> QED
        BY <3>2, <3>3
    <2> QED
      BY <2>1, <2>2
  <1> QED
    BY <1>1, Sqlite, PTL

\* On file SQLite the alert table does what AlertBook promises: no alert is
\* raised beside an active one, none is acknowledged twice or by a stranger,
\* none is reopened or lost (alert_persistence.py, acknowledge_alert).
THEOREM ImplementsBook ==
    ASSUME Backend = "sqlite"
    PROVE  Spec => KeepsBook
  <1> DEFINE shown == [a \in Calls |->
               IF alerts[a].status = "none" THEN [user |-> {}, ackedBy |-> {}]
               ELSE [user |-> {alerts[a].user}, ackedBy |-> alerts[a].ackedBy]]
  <1>1. Init => Book!BookInit
    BY DEF Init, NoRow, Book!BookInit, Book!Unwritten
  <1>2. BaseInv /\ SqliteInv /\ [Next]_vars => [Book!BookNext]_shown
    <2> SUFFICES ASSUME BaseInv, SqliteInv, [Next]_vars
                 PROVE  [Book!BookNext]_shown
      OBVIOUS
    <2>0. TypeOK /\ RowInv /\ FoundInv /\ CountInv /\ ReadInv
      BY DEF BaseInv, SqliteInv
    <2>1. CASE alerts' = alerts
      BY <2>1
    <2>2. ASSUME NEW c \in Calls, Commit(c), pc[c] = "alerting"
          PROVE  Book!Raise(c, CallUser[c])
      <3> DEFINE row == [status |-> "active", user |-> CallUser[c],
                         calls |-> sustained[c], ackedBy |-> {}]
      <3>1. alerts' = [alerts EXCEPT ![c] = row] /\ alerts[c] = NoRow
        BY <2>0, <2>2 DEF Commit, RowInv
      <3>2. shown[c] = [user |-> {}, ackedBy |-> {}]
        BY <3>1 DEF NoRow
      <3>3. \A a \in Calls : shown[a] # [user |-> {CallUser[c]}, ackedBy |-> {}]
        <4> SUFFICES ASSUME NEW a \in Calls,
                            shown[a] = [user |-> {CallUser[c]}, ackedBy |-> {}]
                     PROVE  FALSE
          OBVIOUS
        <4>1. /\ alerts[a].status # "none"
              /\ alerts[a].user = CallUser[c]
              /\ alerts[a].ackedBy = {}
          OBVIOUS
        <4>2. alerts[a].status = "active"
          BY <2>0, <4>1 DEF RowInv, NoRow
        <4> QED
          BY <2>0, <2>2, <4>1, <4>2 DEF CountInv, Active
      <3>4. shown' = [shown EXCEPT ![c] = [user |-> {CallUser[c]}, ackedBy |-> {}]]
        BY <2>0, <3>1 DEF TypeOK
      <3> HIDE DEF shown
      <3> QED
        BY <3>2, <3>3, <3>4
           DEF Book!Raise, Book!Unwritten, Book!Outstanding, shown
    <2>3. ASSUME NEW r \in Acks, AckCommit(r), seen[r] # "acknowledged"
          PROVE  Book!Acknowledge(target[r], r)
      <3> DEFINE t == target[r]
                 new == [alerts[t] EXCEPT !.status = "acknowledged", !.ackedBy = {r}]
      <3>1. /\ t \in Calls /\ alerts[t] \in AlertRow /\ alerts[t] # NoRow
            /\ alerts[t].user = KeyUser[AckKey[r]]
            /\ alerts[t].status = seen[r]
            /\ alerts' = [alerts EXCEPT ![t] = new]
        BY <2>0, <2>3 DEF AckCommit, FoundInv, ReadInv, TypeOK
      <3>2. alerts[t].status = "active" /\ alerts[t].ackedBy = {}
        BY <2>0, <2>3, <3>1 DEF AlertRow, RowInv
      <3>3. /\ new.status = "acknowledged" /\ new.ackedBy = {r}
            /\ new.user = alerts[t].user
        BY <3>1 DEF AlertRow
      <3> HIDE DEF new
      <3>4. shown[t] = [user |-> {KeyUser[AckKey[r]]}, ackedBy |-> {}]
        BY <3>1, <3>2
      <3>5. shown' = [shown EXCEPT ![t] =
                        [user |-> {KeyUser[AckKey[r]]}, ackedBy |-> {r}]]
        BY <2>0, <3>1, <3>3 DEF TypeOK
      <3> HIDE DEF shown
      <3> QED
        BY <3>4, <3>5 DEF Book!Acknowledge, shown
    <2>4. alerts' # alerts =>
            \/ \E c \in Calls : Commit(c) /\ pc[c] = "alerting"
            \/ \E r \in Acks : AckCommit(r) /\ seen[r] # "acknowledged"
      BY DEF Next, Schedule, Task, Works, Insert, Estimate, CountActive, Commit,
         TaskFails, AckBegin, Ack, Answers, AckFinds, AckNotFound, AckCommit, AckFails,
         Restart, Idle, vars
    <2>5. /\ \A c \in Calls : CallUser[c] \in Users
          /\ \A r \in Acks : AckCommit(r) => target[r] \in Calls
      BY <2>0, RecordingAssumption DEF AckCommit, FoundInv
    <2> QED
      BY <2>1, <2>2, <2>3, <2>4, <2>5 DEF Book!BookNext
  <1> QED
    BY <1>1, <1>2, Sqlite, PTL DEF Spec, KeepsBook, Book!BookSpec
-----------------------------------------------------------------------------
(* The window an alert was raised for *)

\* Said of values of pc and disc, so that it can be said of the next ones.
Estimated(p, c) == p[c] \notin {"idle", "queued", "inserted"}

\* What AlertsAreBacked asks of an alert of call a, said of a window w.
Backed(a, w, p, d) ==
    /\ w \in Seq(Calls)
    /\ Magnitude(Total(w, d)) >= Threshold * Len(w)
    /\ DefaultWindow <= 2 * Len(w) + 1
    /\ Len(w) > 0 /\ Len(w) <= DefaultWindow
    /\ w[Len(w)] = a
    /\ \A i, j \in DOMAIN w : w[i] = w[j] => i = j
    /\ \A i \in DOMAIN w : CallUser[w[i]] = CallUser[a] /\ Estimated(p, w[i])

\* A user's window holds distinct estimated calls of that user.
WindowInv ==
    \A u \in Users :
        LET w == window[u]
        IN  /\ Len(w) <= DefaultWindow
            /\ \A i, j \in DOMAIN w : w[i] = w[j] => i = j
            /\ \A i \in DOMAIN w : CallUser[w[i]] = u /\ Estimated(pc, w[i])

\* A task that detected a drift has kept the window that showed it.
DriftInv ==
    \A c \in Calls : pc[c] \in {"detected", "alerting"} => Backed(c, sustained[c], pc, disc)

\* The alert it has committed rests on that window.
AlertInv ==
    \A a \in Calls : alerts[a] # NoRow =>
        alerts[a].user = CallUser[a] /\ Backed(a, alerts[a].calls, pc, disc)

EvidenceInv == WindowInv /\ DriftInv /\ AlertInv

\* What a step does to a call that is estimated.
Stable ==
    \A c \in Calls : Estimated(pc, c) => Estimated(pc', c) /\ disc'[c] = disc[c]
-----------------------------------------------------------------------------
LEMMA TotalSame ==
    ASSUME NEW w, NEW d, NEW e, \A i \in DOMAIN w : d[w[i]] = e[w[i]]
    PROVE  Total(w, d) = Total(w, e)
  <1>1. [i \in DOMAIN w |-> d[w[i]]] = [i \in DOMAIN w |-> e[w[i]]]
    OBVIOUS
  <1> QED
    BY <1>1 DEF Total

LEMMA BackedStays ==
    ASSUME Stable, NEW a, NEW w, Backed(a, w, pc, disc)
    PROVE  Backed(a, w, pc', disc')
  <1>1. w \in Seq(Calls) /\ \A i \in DOMAIN w : w[i] \in Calls /\ Estimated(pc, w[i])
    BY DEF Backed
  <1>2. \A i \in DOMAIN w : disc'[w[i]] = disc[w[i]] /\ Estimated(pc', w[i])
    BY <1>1 DEF Stable
  <1>3. Total(w, disc') = Total(w, disc)
    BY <1>2, TotalSame
  <1> QED
    BY <1>2, <1>3 DEF Backed

LEMMA NextStable == ASSUME BaseInv, [Next]_vars PROVE Stable
  <1>0. TypeOK
    BY DEF BaseInv
  <1>1. ASSUME NEW c \in Calls, Schedule(c) \/ Task(c) PROVE Stable
    <2>1. CASE Estimate(c)
      <3>1. /\ pc[c] = "inserted"
            /\ \E d : disc' = [disc EXCEPT ![c] = d]
            /\ \E s \in {"detected", "ready"} : pc' = [pc EXCEPT ![c] = s]
        BY <2>1 DEF Estimate
      <3> QED
        BY <1>0, <3>1 DEF Stable, Estimated, TypeOK
    <2>2. CASE Schedule(c) \/ Insert(c) \/ CountActive(c) \/ Commit(c) \/ TaskFails(c)
      <3>1. /\ disc' = disc
            /\ \E s \in TaskStates :
                  /\ pc' = [pc EXCEPT ![c] = s]
                  /\ s \in {"idle", "queued", "inserted"} =>
                        pc[c] \in {"idle", "queued", "inserted"}
        BY <2>2, DistinctStates
           DEF Schedule, Insert, CountActive, Commit, TaskFails, TaskStates, InTransaction
      <3> QED
        BY <1>0, <3>1 DEF Stable, Estimated, TypeOK
    <2> QED
      BY <1>1, <2>1, <2>2 DEF Task, Works
  <1>2. ASSUME NEW r \in Acks, AckBegin(r) \/ Ack(r) PROVE Stable
    BY <1>2 DEF Stable, Estimated, AckBegin, Ack, Answers, AckFinds, AckNotFound, AckCommit,
       AckFails, taskVars
  <1>3. CASE Restart
    BY <1>0, <1>3 DEF Stable, Estimated, Restart, TypeOK, InTransaction
  <1>4. CASE Idle \/ UNCHANGED vars
    BY <1>4 DEF Stable, Estimated, Idle, vars
  <1> QED
    BY <1>1, <1>2, <1>3, <1>4 DEF Next

\* deque.append on a window of distinct calls, for a call it does not hold.
LEMMA PushedHolds ==
    ASSUME NEW w \in Seq(Calls), NEW c \in Calls, Len(w) <= DefaultWindow,
           \A i, j \in DOMAIN w : w[i] = w[j] => i = j,
           \A i \in DOMAIN w : w[i] # c
    PROVE  LET v == Pushed(w, c)
           IN  /\ v \in Seq(Calls)
               /\ Len(v) > 0 /\ Len(v) <= DefaultWindow
               /\ v[Len(v)] = c
               /\ \A i, j \in DOMAIN v : v[i] = v[j] => i = j
               /\ \A i \in DOMAIN v : v[i] = c \/ \E j \in DOMAIN w : v[i] = w[j]
  <1>0. DefaultWindow \in Nat /\ DefaultWindow > 0
    BY RecordingAssumption
  <1>1. CASE Len(w) < DefaultWindow
    <2>1. Pushed(w, c) = Append(w, c)
      BY <1>1 DEF Pushed
    <2> QED
      BY <1>0, <1>1, <2>1
  <1>2. CASE ~(Len(w) < DefaultWindow)
    <2> DEFINE v == Append(Tail(w), c)
    <2>1. Pushed(w, c) = v
      BY <1>2 DEF Pushed
    <2>2. Len(w) = DefaultWindow /\ w # <<>>
      BY <1>0, <1>2
    <2>3. /\ Tail(w) \in Seq(Calls) /\ Len(Tail(w)) = Len(w) - 1
          /\ \A i \in 1..(Len(w) - 1) : Tail(w)[i] = w[i + 1]
      BY <2>2
    <2>4. /\ v \in Seq(Calls) /\ Len(v) = Len(w) /\ v[Len(w)] = c
          /\ \A i \in 1..(Len(w) - 1) : v[i] = w[i + 1]
      BY <2>2, <2>3
    <2> HIDE DEF v
    <2>5. \A i \in DOMAIN v : v[i] = c \/ \E j \in DOMAIN w : v[i] = w[j]
      <3> SUFFICES ASSUME NEW i \in 1..Len(w), v[i] # c
                   PROVE  \E j \in DOMAIN w : v[i] = w[j]
        BY <2>4
      <3>1. i \in 1..(Len(w) - 1) /\ i + 1 \in DOMAIN w
        BY <2>4
      <3> QED
        BY <2>4, <3>1
    <2>6. \A i, j \in DOMAIN v : v[i] = v[j] => i = j
      <3> SUFFICES ASSUME NEW i \in 1..Len(w), NEW j \in 1..Len(w), v[i] = v[j]
                   PROVE  i = j
        BY <2>4
      <3>1. CASE i = Len(w) \/ j = Len(w)
        <4>1. \A k \in 1..(Len(w) - 1) : k + 1 \in DOMAIN w /\ v[k] = w[k + 1]
          BY <2>4
        <4>2. \A k \in 1..(Len(w) - 1) : v[k] # c
          BY <4>1
        <4>3. CASE i = Len(w)
          BY <2>4, <4>2, <4>3
        <4>4. CASE j = Len(w)
          BY <2>4, <4>2, <4>4
        <4> QED
          BY <3>1, <4>3, <4>4
      <3>2. CASE i # Len(w) /\ j # Len(w)
        <4>1. i + 1 \in DOMAIN w /\ j + 1 \in DOMAIN w /\ w[i + 1] = w[j + 1]
          BY <2>4, <3>2
        <4>2. i + 1 = j + 1
          BY <4>1
        <4> QED
          BY <4>2
      <3> QED
        BY <3>1, <3>2
    <2> QED
      BY <1>0, <2>1, <2>2, <2>4, <2>5, <2>6
  <1> QED
    BY <1>1, <1>2
-----------------------------------------------------------------------------
(* The evidence is kept by every step *)

LEMMA InitEvidence == Init => EvidenceInv
  BY RecordingAssumption
     DEF Init, EvidenceInv, WindowInv, DriftInv, AlertInv, NoRow

\* A step that leaves the windows alone, or empties them, keeps WindowInv.
LEMMA WindowStays ==
    ASSUME TypeOK, WindowInv, Stable,
           \A u \in Users : window'[u] \in {window[u], <<>>}
    PROVE  WindowInv'
  <1> SUFFICES ASSUME NEW u \in Users
               PROVE  LET w == window'[u]
                      IN  /\ Len(w) <= DefaultWindow
                          /\ \A i, j \in DOMAIN w : w[i] = w[j] => i = j
                          /\ \A i \in DOMAIN w : CallUser[w[i]] = u /\ Estimated(pc', w[i])
    BY DEF WindowInv
  <1>1. CASE window'[u] = <<>>
    BY <1>1, RecordingAssumption
  <1>2. CASE window'[u] = window[u]
    <2>1. \A i \in DOMAIN window[u] : window[u][i] \in Calls
      BY DEF TypeOK
    <2> QED
      BY <1>2, <2>1 DEF WindowInv, Stable
  <1> QED
    BY <1>1, <1>2

\* A task whose step is not the examination of its window keeps what it saw.
LEMMA DriftStays ==
    ASSUME DriftInv, Stable, UNCHANGED sustained,
           \A c \in Calls : pc'[c] \in {"detected", "alerting"} =>
                                pc[c] \in {"detected", "alerting"}
    PROVE  DriftInv'
  BY BackedStays DEF DriftInv

LEMMA AlertsStay ==
    ASSUME AlertInv, Stable,
           \A a \in Calls : alerts'[a] # NoRow =>
               /\ alerts[a] # NoRow
               /\ alerts'[a].user = alerts[a].user
               /\ alerts'[a].calls = alerts[a].calls
    PROVE  AlertInv'
  BY BackedStays DEF AlertInv

LEMMA EstimateEvidence ==
    ASSUME BaseInv, EvidenceInv, Stable, NEW c \in Calls, Estimate(c)
    PROVE  EvidenceInv'
  <1> DEFINE u == CallUser[c]
             v == Pushed(window[u], c)
  <1>0. TypeOK /\ WindowInv /\ DriftInv /\ AlertInv /\ u \in Users
    BY RecordingAssumption DEF BaseInv, EvidenceInv
  <1>1. /\ pc[c] = "inserted"
        /\ window' = [window EXCEPT ![u] = v]
        /\ alerts' = alerts
    BY DEF Estimate
  <1>2. \/ /\ Drifts(v, disc')
           /\ sustained' = [sustained EXCEPT ![c] = v]
           /\ pc' = [pc EXCEPT ![c] = "detected"]
        \/ /\ pc' = [pc EXCEPT ![c] = "ready"]
           /\ sustained' = sustained
    BY DEF Estimate
  <1>3. /\ window[u] \in Seq(Calls) /\ Len(window[u]) <= DefaultWindow
        /\ \A i, j \in DOMAIN window[u] : window[u][i] = window[u][j] => i = j
        /\ \A i \in DOMAIN window[u] :
              /\ window[u][i] \in Calls /\ Estimated(pc, window[u][i])
              /\ CallUser[window[u][i]] = u
              /\ window[u][i] # c
    BY <1>0, <1>1 DEF TypeOK, WindowInv, Estimated
  <1>4. /\ v \in Seq(Calls) /\ Len(v) > 0 /\ Len(v) <= DefaultWindow
        /\ v[Len(v)] = c
        /\ \A i, j \in DOMAIN v : v[i] = v[j] => i = j
        /\ \A i \in DOMAIN v : v[i] = c \/ \E j \in DOMAIN window[u] : v[i] = window[u][j]
    BY <1>3, PushedHolds
  <1>5. Estimated(pc', c)
    BY <1>0, <1>2 DEF TypeOK, Estimated
  <1>6. \A i \in DOMAIN v : CallUser[v[i]] = u /\ Estimated(pc', v[i])
    BY <1>3, <1>4, <1>5 DEF Stable
  <1> HIDE DEF v
  <1>7. WindowInv'
    <2> SUFFICES ASSUME NEW x \in Users
                 PROVE  LET w == window'[x]
                        IN  /\ Len(w) <= DefaultWindow
                            /\ \A i, j \in DOMAIN w : w[i] = w[j] => i = j
                            /\ \A i \in DOMAIN w : CallUser[w[i]] = x /\ Estimated(pc', w[i])
      BY DEF WindowInv
    <2>1. CASE x = u
      <3>1. window'[x] = v
        BY <1>0, <1>1, <2>1 DEF TypeOK
      <3> QED
        BY <1>4, <1>6, <2>1, <3>1
    <2>2. CASE x # u
      <3>1. window'[x] = window[x] /\ \A i \in DOMAIN window[x] : window[x][i] \in Calls
        BY <1>0, <1>1, <2>2 DEF TypeOK
      <3> QED
        BY <1>0, <3>1 DEF WindowInv, Stable
    <2> QED
      BY <2>1, <2>2
  <1>8. DriftInv'
    <2> SUFFICES ASSUME NEW x \in Calls, pc'[x] \in {"detected", "alerting"}
                 PROVE  Backed(x, sustained'[x], pc', disc')
      BY DEF DriftInv
    <2>1. CASE x = c
      <3>1. Drifts(v, disc') /\ sustained'[x] = v
        BY <1>0, <1>2, <2>1 DEF TypeOK
      <3>2. /\ Magnitude(Total(v, disc')) >= Threshold * Len(v)
            /\ DefaultWindow <= 2 * Len(v) + 1
        BY <1>4, <3>1, RecordingAssumption DEF Drifts, MinCalls
      <3> QED
        BY <1>4, <1>6, <2>1, <3>1, <3>2 DEF Backed
    <2>2. CASE x # c
      <3>1. pc[x] \in {"detected", "alerting"} /\ sustained'[x] = sustained[x]
        BY <1>0, <1>2, <2>2 DEF TypeOK
      <3>2. Backed(x, sustained[x], pc, disc)
        BY <1>0, <3>1 DEF DriftInv
      <3> QED
        BY <3>1, <3>2, BackedStays
    <2> QED
      BY <2>1, <2>2
  <1>9. AlertInv'
    BY <1>0, <1>1, AlertsStay
  <1> QED
    BY <1>7, <1>8, <1>9 DEF EvidenceInv

LEMMA CommitEvidence ==
    ASSUME BaseInv, EvidenceInv, Stable, NEW c \in Calls, Commit(c)
    PROVE  EvidenceInv'
  <1> DEFINE row == [status |-> "active", user |-> CallUser[c],
                     calls |-> sustained[c], ackedBy |-> {}]
  <1>0. TypeOK /\ WindowInv /\ DriftInv /\ AlertInv
    BY DEF BaseInv, EvidenceInv
  <1>1. /\ pc[c] \in {"ready", "alerting"} /\ pc' = [pc EXCEPT ![c] = "recorded"]
        /\ alerts' = IF pc[c] = "ready" THEN alerts ELSE [alerts EXCEPT ![c] = row]
        /\ window' = window /\ sustained' = sustained
    BY DEF Commit
  <1>2. WindowInv'
    BY <1>0, <1>1, WindowStays
  <1>3. \A x \in Calls : pc'[x] \in {"detected", "alerting"} =>
                             pc[x] \in {"detected", "alerting"}
    BY <1>0, <1>1 DEF TypeOK
  <1>4. DriftInv'
    BY <1>0, <1>1, <1>3, DriftStays
  <1>5. AlertInv'
    <2>1. CASE pc[c] = "ready"
      BY <1>0, <1>1, <2>1, AlertsStay
    <2>2. CASE pc[c] = "alerting"
      <3>1. Backed(c, sustained'[c], pc', disc')
        <4>1. Backed(c, sustained[c], pc, disc)
          BY <1>0, <2>2 DEF DriftInv
        <4> QED
          BY <1>1, <4>1, BackedStays
      <3>2. /\ alerts'[c] = row
            /\ \A a \in Calls : a # c => alerts'[a] = alerts[a]
        BY <1>0, <1>1, <2>2 DEF TypeOK
      <3> SUFFICES ASSUME NEW a \in Calls, alerts'[a] # NoRow
                   PROVE  alerts'[a].user = CallUser[a] /\ Backed(a, alerts'[a].calls, pc', disc')
        BY DEF AlertInv
      <3>3. CASE a = c
        <4>1. alerts'[a].user = CallUser[a] /\ alerts'[a].calls = sustained'[c]
          BY <1>1, <3>2, <3>3
        <4> QED
          BY <3>1, <3>3, <4>1
      <3>4. CASE a # c
        <4>1. alerts'[a] = alerts[a] /\ Backed(a, alerts[a].calls, pc, disc)
              /\ alerts[a].user = CallUser[a]
          BY <1>0, <3>2, <3>4 DEF AlertInv
        <4> QED
          BY <4>1, BackedStays
      <3> QED
        BY <3>3, <3>4
    <2> QED
      BY <1>1, <2>1, <2>2
  <1> QED
    BY <1>2, <1>4, <1>5 DEF EvidenceInv

LEMMA NextEvidence == BaseInv /\ EvidenceInv /\ [Next]_vars => EvidenceInv'
  <1> SUFFICES ASSUME BaseInv, EvidenceInv, [Next]_vars PROVE EvidenceInv'
    OBVIOUS
  <1>0. /\ Stable /\ TypeOK /\ FoundInv
        /\ WindowInv /\ DriftInv /\ AlertInv
    BY NextStable DEF BaseInv, EvidenceInv
  <1>1. ASSUME NEW c \in Calls, Schedule(c) \/ Task(c) PROVE EvidenceInv'
    <2>1. CASE Estimate(c)
      BY <1>0, <2>1, EstimateEvidence
    <2>2. CASE Commit(c)
      BY <1>0, <2>2, CommitEvidence
    <2>3. CASE Schedule(c) \/ Insert(c) \/ CountActive(c) \/ TaskFails(c)
      <3>1. window' = window /\ alerts' = alerts /\ sustained' = sustained
        BY <2>3 DEF Schedule, Insert, CountActive, TaskFails
      <3>2. \A x \in Calls : pc'[x] \in {"detected", "alerting"} =>
                                 pc[x] \in {"detected", "alerting"}
        BY <1>0, <2>3 DEF TypeOK, Schedule, Insert, CountActive, TaskFails
      <3>3. WindowInv' /\ DriftInv' /\ AlertInv'
        BY <1>0, <3>1, <3>2, WindowStays, DriftStays, AlertsStay
      <3> QED
        BY <3>3 DEF EvidenceInv
    <2> QED
      BY <1>1, <2>1, <2>2, <2>3 DEF Task, Works
  <1>2. ASSUME NEW r \in Acks, AckBegin(r) \/ Ack(r) PROVE EvidenceInv'
    <2>1. pc' = pc /\ window' = window /\ sustained' = sustained
      BY <1>2 DEF AckBegin, Ack, Answers, AckFinds, AckNotFound, AckCommit, AckFails, taskVars
    <2>2. WindowInv' /\ DriftInv'
      BY <1>0, <2>1, WindowStays, DriftStays
    <2>3. AlertInv'
      <3>1. CASE AckCommit(r)
        <4> DEFINE t == target[r]
                   new == [alerts[t] EXCEPT !.status = "acknowledged", !.ackedBy = {r}]
        <4>1. /\ t \in Calls /\ alerts[t] \in AlertRow /\ alerts[t] # NoRow
              /\ alerts' = alerts \/ alerts' = [alerts EXCEPT ![t] = new]
          BY <1>0, <3>1 DEF AckCommit, FoundInv, TypeOK
        <4>2. new.user = alerts[t].user /\ new.calls = alerts[t].calls
          BY <4>1 DEF AlertRow
        <4> HIDE DEF new
        <4>3. \A a \in Calls : alerts'[a] # NoRow =>
                 /\ alerts[a] # NoRow
                 /\ alerts'[a].user = alerts[a].user
                 /\ alerts'[a].calls = alerts[a].calls
          BY <1>0, <4>1, <4>2 DEF TypeOK
        <4> QED
          BY <1>0, <4>3, AlertsStay
      <3>2. CASE ~AckCommit(r)
        <4>1. alerts' = alerts
          BY <1>2, <3>2 DEF AckBegin, Ack, Answers, AckFinds, AckNotFound, AckFails
        <4> QED
          BY <1>0, <4>1, AlertsStay
      <3> QED
        BY <3>1, <3>2
    <2> QED
      BY <2>2, <2>3 DEF EvidenceInv
  <1>3. CASE Restart
    <2>1. /\ \A u \in Users : window'[u] = <<>>
          /\ alerts' = alerts /\ sustained' = sustained
          /\ \A x \in Calls : pc'[x] \notin {"detected", "alerting"}
      BY <1>0, <1>3 DEF Restart, TypeOK, InTransaction
    <2>2. WindowInv' /\ DriftInv' /\ AlertInv'
      BY <1>0, <2>1, WindowStays, DriftStays, AlertsStay
    <2> QED
      BY <2>2 DEF EvidenceInv
  <1>4. CASE Idle \/ UNCHANGED vars
    <2>1. UNCHANGED <<pc, window, sustained, alerts>>
      BY <1>4 DEF Idle, vars
    <2>2. WindowInv' /\ DriftInv' /\ AlertInv'
      BY <1>0, <2>1, WindowStays, DriftStays, AlertsStay
    <2> QED
      BY <2>2 DEF EvidenceInv
  <1> QED
    BY <1>1, <1>2, <1>3, <1>4 DEF Next

LEMMA Kept == Spec => [](BaseInv /\ EvidenceInv)
  BY InitEvidence, NextEvidence, Base, PTL DEF Spec

\* An alert's window is a real one, whatever other tasks did to the user's
\* window between its examination and the alert's commit, on either backend,
\* with failing statements and restarts (maybe_persist_sustained_discrepancy_
\* alert, DiscrepancyAggregator).
THEOREM EvidenceIsReal == Spec => []AlertsAreBacked
  <1>1. BaseInv /\ EvidenceInv => AlertsAreBacked
    <2> SUFFICES ASSUME BaseInv, EvidenceInv, NEW a \in Alerts
                 PROVE  LET w == alerts[a].calls
                        IN  /\ Magnitude(Total(w, disc)) >= Threshold * Len(w)
                            /\ DefaultWindow <= 2 * Len(w) + 1
                            /\ Len(w) <= DefaultWindow
                            /\ w[Len(w)] = a
                            /\ \A i, j \in DOMAIN w : w[i] = w[j] => i = j
                            /\ \A c \in Evidence(a) :
                                  /\ CallUser[c] = alerts[a].user
                                  /\ pc[c] \notin {"idle", "queued"}
      BY DEF AlertsAreBacked
    <2>1. a \in Calls /\ alerts[a] # NoRow
      BY DEF Alerts, NoRow
    <2>2. alerts[a].user = CallUser[a] /\ Backed(a, alerts[a].calls, pc, disc)
      BY <2>1 DEF EvidenceInv, AlertInv
    <2> QED
      BY <2>2 DEF Backed, Evidence, Estimated
  <1> QED
    BY <1>1, Kept, PTL
-----------------------------------------------------------------------------
(* Alerts and the audit trail *)

\* What a window counts is stored, being stored, or of a task that failed;
\* what a task has seen in it is stored or failed, but for its own call, which
\* it stores with the alert.
TrailInv ==
    /\ \A u \in Users : \A i \in DOMAIN window[u] :
          window[u][i] \in Trail \/ pc[window[u][i]] \in InTransaction
    /\ \A c \in Calls : pc[c] \in {"detected", "alerting"} =>
          \A i \in DOMAIN sustained[c] : sustained[c][i] \in Trail \cup {c}
    /\ AlertsCountStoredCalls

LEMMA EvidenceIsCalls ==
    ASSUME BaseInv, NEW a \in Alerts
    PROVE  a \in Calls /\ alerts[a].calls \in Seq(Calls)
  BY DEF BaseInv, TypeOK, Alerts, AlertRow, NoRow

\* Committed calls stay, and a task that failed is not run again.
LEMMA TrailGrows ==
    ASSUME TypeOK, [Next]_vars
    PROVE  Trail \subseteq Trail'
  <1>1. ASSUME NEW c \in Calls, Schedule(c) \/ Task(c) PROVE Trail \subseteq Trail'
    BY <1>1 DEF TypeOK, Trail, Schedule, Task, Works, Insert, Estimate,
                CountActive, Commit, TaskFails
  <1>2. ASSUME NEW r \in Acks, AckBegin(r) \/ Ack(r) PROVE Trail \subseteq Trail'
    BY <1>2 DEF Trail, AckBegin, Ack, Answers, AckFinds, AckNotFound, AckCommit,
                AckFails, taskVars
  <1>3. CASE Restart
    BY <1>3 DEF TypeOK, Trail, Restart, InTransaction
  <1>4. CASE Idle \/ UNCHANGED vars
    BY <1>4 DEF Idle, vars, Trail
  <1> QED
    BY <1>1, <1>2, <1>3, <1>4 DEF Next

LEMMA TaskTrail ==
    ASSUME Backend = "sqlite", BaseInv, SqliteInv, EvidenceInv, TrailInv,
           NEW c \in Calls, Schedule(c) \/ Task(c)
    PROVE  TrailInv'
  <1>0. TypeOK /\ LockInv /\ WindowInv
    BY DEF BaseInv, SqliteInv, EvidenceInv
  <1>00. Trail \subseteq Trail'
    BY <1>0, TrailGrows DEF Next
  <1>1. CASE Estimate(c)
    <2> DEFINE u == CallUser[c]
               v == Pushed(window[u], c)
    <2>1. /\ pc[c] = "inserted" /\ u \in Users
          /\ window' = [window EXCEPT ![u] = v]
          /\ \/ /\ sustained' = [sustained EXCEPT ![c] = v]
                /\ pc' = [pc EXCEPT ![c] = "detected"]
             \/ /\ pc' = [pc EXCEPT ![c] = "ready"]
                /\ sustained' = sustained
          /\ alerts' = alerts /\ rows' = rows
      BY <1>1, RecordingAssumption DEF Estimate
    \* On SQLite nobody else is in a transaction.
    <2>2. \A d \in Calls : d # c => pc[d] \notin InTransaction
      BY <1>0, <2>1 DEF LockInv, InTransaction
    <2>3. /\ window[u] \in Seq(Calls) /\ Len(window[u]) <= DefaultWindow
          /\ \A i, j \in DOMAIN window[u] : window[u][i] = window[u][j] => i = j
          /\ \A i \in DOMAIN window[u] : window[u][i] \in Calls /\ window[u][i] # c
      BY <1>0, <2>1 DEF TypeOK, WindowInv, Estimated
    <2>4. \A i \in DOMAIN window[u] : window[u][i] \in Trail
      BY <1>00, <2>1, <2>2, <2>3 DEF TrailInv
    <2>5. \A i \in DOMAIN v : v[i] = c \/ \E j \in DOMAIN window[u] : v[i] = window[u][j]
      BY <2>3, PushedHolds
    <2>6. \A i \in DOMAIN v : v[i] \in Trail \cup {c}
      BY <2>4, <2>5
    <2> HIDE DEF v
    <2>7. pc'[c] \in InTransaction /\ \A d \in Calls : d # c => pc'[d] = pc[d]
      BY <1>0, <2>1 DEF TypeOK, InTransaction
    <2>8. \A x \in Users : \A i \in DOMAIN window'[x] :
             window'[x][i] \in Trail' \/ pc'[window'[x][i]] \in InTransaction
      <3> SUFFICES ASSUME NEW x \in Users, NEW i \in DOMAIN window'[x]
                   PROVE  window'[x][i] \in Trail' \/ pc'[window'[x][i]] \in InTransaction
        OBVIOUS
      <3>1. CASE x = u
        <4>1. window'[x] = v
          BY <1>0, <2>1, <3>1 DEF TypeOK
        <4> QED
          BY <1>00, <2>1, <2>6, <2>7, <4>1
      <3>2. CASE x # u
        <4>1. window'[x] = window[x] /\ window[x][i] \in Calls
          BY <1>0, <2>1, <3>2 DEF TypeOK
        <4> QED
          BY <1>00, <2>1, <2>2, <2>7, <4>1 DEF TrailInv
      <3> QED
        BY <3>1, <3>2
    <2>9. \A d \in Calls : pc'[d] \in {"detected", "alerting"} =>
             \A i \in DOMAIN sustained'[d] : sustained'[d][i] \in Trail' \cup {d}
      <3> SUFFICES ASSUME NEW d \in Calls, pc'[d] \in {"detected", "alerting"}
                   PROVE  \A i \in DOMAIN sustained'[d] : sustained'[d][i] \in Trail' \cup {d}
        OBVIOUS
      <3>1. CASE d = c
        <4>1. sustained'[d] = v
          BY <1>0, <2>1, <3>1 DEF TypeOK
        <4> QED
          BY <1>00, <2>1, <2>6, <3>1, <4>1
      <3>2. CASE d # c
        <4>1. sustained'[d] = sustained[d] /\ pc[d] \in {"detected", "alerting"}
          BY <1>0, <2>1, <3>2 DEF TypeOK
        <4> QED
          BY <1>00, <2>1, <4>1 DEF TrailInv
      <3> QED
        BY <3>1, <3>2
    <2> QED
      BY <1>00, <2>1, <2>8, <2>9 DEF TrailInv, AlertsCountStoredCalls, Alerts, Evidence
  <1>2. CASE Commit(c)
    <2> DEFINE row == [status |-> "active", user |-> CallUser[c],
                       calls |-> sustained[c], ackedBy |-> {}]
    <2>1. /\ pc[c] \in {"ready", "alerting"} /\ pc' = [pc EXCEPT ![c] = "recorded"]
          /\ alerts' = IF pc[c] = "ready" THEN alerts ELSE [alerts EXCEPT ![c] = row]
          /\ window' = window /\ sustained' = sustained
          /\ rows' = rows \cup {c}
      BY <1>2 DEF Commit
    <2>0. c \in Trail'
      BY <2>1 DEF Trail
    <2>2. /\ pc'[c] = "recorded"
          /\ \A d \in Calls : d # c => pc'[d] = pc[d]
          /\ \A u \in Users : \A i \in DOMAIN window[u] : window[u][i] \in Calls
      BY <1>0, <2>1 DEF TypeOK
    <2>3. \A u \in Users : \A i \in DOMAIN window'[u] :
             window'[u][i] \in Trail' \/ pc'[window'[u][i]] \in InTransaction
      BY <1>00, <2>0, <2>1, <2>2 DEF TrailInv
    <2>4. \A d \in Calls : pc'[d] \in {"detected", "alerting"} =>
             \A i \in DOMAIN sustained'[d] : sustained'[d][i] \in Trail' \cup {d}
      BY <1>00, <2>0, <2>1, <2>2 DEF TrailInv
    <2>5. AlertsCountStoredCalls'
      <3> SUFFICES ASSUME NEW a \in Calls, alerts'[a].status # "none",
                          NEW i \in DOMAIN alerts'[a].calls
                   PROVE  alerts'[a].calls[i] \in Trail'
        BY DEF AlertsCountStoredCalls, Alerts, Evidence
      <3>1. CASE alerts'[a] = alerts[a]
        BY <1>00, <2>1, <3>1 DEF TrailInv, AlertsCountStoredCalls, Alerts, Evidence
      <3>2. CASE alerts'[a] # alerts[a]
        <4>1. a = c /\ pc[c] = "alerting" /\ alerts'[a] = row
          BY <1>0, <2>1, <3>2 DEF TypeOK
        <4> QED
          BY <1>00, <2>0, <2>1, <4>1 DEF TrailInv
      <3> QED
        BY <3>1, <3>2
    <2> QED
      BY <2>3, <2>4, <2>5 DEF TrailInv
  <1>3. CASE Schedule(c) \/ Insert(c) \/ CountActive(c)
    <2>1. UNCHANGED <<window, alerts, sustained, rows>>
      BY <1>3 DEF Schedule, Insert, CountActive
    <2>2. \A d \in Calls :
             /\ pc[d] \in InTransaction => pc'[d] \in InTransaction
             /\ pc'[d] \in {"detected", "alerting"} => pc[d] \in {"detected", "alerting"}
      BY <1>0, <1>3 DEF TypeOK, Schedule, Insert, CountActive, InTransaction
    <2>3. \A u \in Users : \A i \in DOMAIN window[u] : window[u][i] \in Calls
      BY <1>0 DEF TypeOK
    <2> QED
      BY <1>00, <2>1, <2>2, <2>3 DEF TrailInv, AlertsCountStoredCalls, Alerts, Evidence
  <1>4. CASE TaskFails(c)
    <2>1. /\ UNCHANGED <<window, alerts, sustained, rows>>
          /\ pc' = [pc EXCEPT ![c] = "failed"]
      BY <1>4 DEF TaskFails
    <2>2. c \in Trail'
      BY <1>0, <2>1 DEF TypeOK, Trail
    <2>3. \A u \in Users : \A i \in DOMAIN window[u] : window[u][i] \in Calls
      BY <1>0 DEF TypeOK
    <2>4. \A d \in Calls : d # c => pc'[d] = pc[d]
      BY <1>0, <2>1 DEF TypeOK
    <2>5. pc'[c] = "failed"
      BY <1>0, <2>1 DEF TypeOK
    <2>6. AlertsCountStoredCalls'
      BY <1>00, <2>1 DEF TrailInv, AlertsCountStoredCalls, Alerts, Evidence
    <2> QED
      BY <1>00, <2>1, <2>2, <2>3, <2>4, <2>5, <2>6 DEF TrailInv
  <1> QED
    BY <1>1, <1>2, <1>3, <1>4 DEF Task, Works

LEMMA NextTrail ==
    ASSUME Backend = "sqlite"
    PROVE  BaseInv /\ SqliteInv /\ EvidenceInv /\ TrailInv /\ [Next]_vars => TrailInv'
  <1> SUFFICES ASSUME BaseInv, SqliteInv, EvidenceInv, TrailInv, [Next]_vars
               PROVE  TrailInv'
    OBVIOUS
  <1>0. TypeOK /\ FoundInv /\ Trail \subseteq Trail'
    BY TrailGrows DEF BaseInv
  <1>1. ASSUME NEW c \in Calls, Schedule(c) \/ Task(c) PROVE TrailInv'
    BY <1>1, TaskTrail
  <1>2. ASSUME NEW r \in Acks, AckBegin(r) \/ Ack(r) PROVE TrailInv'
    <2>1. UNCHANGED <<pc, window, sustained, rows>>
      BY <1>2 DEF AckBegin, Ack, Answers, AckFinds, AckNotFound, AckCommit, AckFails, taskVars
    <2>2. CASE AckCommit(r)
      <3> DEFINE t == target[r]
                 new == [alerts[t] EXCEPT !.status = "acknowledged", !.ackedBy = {r}]
      <3>1. /\ t \in Calls /\ alerts[t] \in AlertRow /\ alerts[t] # NoRow
            /\ alerts[t].status # "none"
            /\ alerts' = alerts \/ alerts' = [alerts EXCEPT ![t] = new]
        BY <1>0, <2>2 DEF AckCommit, FoundInv, TypeOK, AlertRow
      <3>2. new.calls = alerts[t].calls
        BY <3>1 DEF AlertRow
      <3> HIDE DEF new
      <3>3. \A a \in Calls : alerts'[a].status # "none" =>
               alerts[a].status # "none" /\ alerts'[a].calls = alerts[a].calls
        BY <1>0, <3>1, <3>2 DEF TypeOK
      <3>4. AlertsCountStoredCalls'
        BY <1>0, <2>1, <3>3 DEF TrailInv, AlertsCountStoredCalls, Alerts, Evidence
      <3> QED
        BY <1>0, <2>1, <3>4 DEF TrailInv
    <2>3. CASE ~AckCommit(r)
      <3>1. alerts' = alerts
        BY <1>2, <2>3 DEF AckBegin, Ack, Answers, AckFinds, AckNotFound, AckFails
      <3> QED
        BY <1>0, <2>1, <3>1 DEF TrailInv, AlertsCountStoredCalls, Alerts, Evidence
    <2> QED
      BY <2>2, <2>3
  <1>3. CASE Restart
    <2>1. /\ \A u \in Users : window'[u] = <<>>
          /\ UNCHANGED <<alerts, sustained, rows>>
          /\ \A x \in Calls : pc'[x] \notin {"detected", "alerting"}
      BY <1>0, <1>3 DEF Restart, TypeOK, InTransaction
    <2> QED
      BY <1>0, <2>1 DEF TrailInv, AlertsCountStoredCalls, Alerts, Evidence
  <1>4. CASE Idle \/ UNCHANGED vars
    BY <1>0, <1>4 DEF Idle, vars, Trail, TrailInv, AlertsCountStoredCalls, Alerts, Evidence
  <1> QED
    BY <1>1, <1>2, <1>3, <1>4 DEF Next

\* On file SQLite every call an alert counts is in the audit trail, unless its
\* own task failed, wherever the process dies and whatever other statement
\* fails (_record_and_estimate).
THEOREM AlertsRestOnTheTrail ==
    ASSUME Backend = "sqlite"
    PROVE  Spec => []AlertsCountStoredCalls
  <1>1. Init => TrailInv
    BY DEF Init, TrailInv, AlertsCountStoredCalls, Alerts, NoRow
  <1>2. BaseInv /\ SqliteInv /\ EvidenceInv /\ TrailInv /\ [Next]_vars => TrailInv'
    BY NextTrail
  <1>3. TrailInv => AlertsCountStoredCalls
    BY DEF TrailInv
  <1> QED
    BY <1>1, <1>2, <1>3, Kept, Sqlite, PTL DEF Spec
-----------------------------------------------------------------------------
\* On file SQLite an acknowledged alert is never written again, whoever
\* acknowledges it a second time (acknowledge_alert).
THEOREM AcknowledgedOnce ==
    ASSUME Backend = "sqlite"
    PROVE  Spec => AckIsFinal
  <1>1. BaseInv /\ SqliteInv /\ [Next]_vars =>
            [\A a \in Calls : alerts[a].status = "acknowledged"
                                 => alerts'[a] = alerts[a]]_alerts
    <2> SUFFICES ASSUME BaseInv, SqliteInv, [Next]_vars,
                        NEW a \in Calls, alerts[a].status = "acknowledged"
                 PROVE  alerts'[a] = alerts[a]
      OBVIOUS
    <2>0. TypeOK /\ RowInv /\ FoundInv /\ ReadInv /\ alerts[a] # NoRow
      BY DEF BaseInv, SqliteInv, NoRow
    <2>1. ASSUME NEW c \in Calls, Commit(c) PROVE alerts'[a] = alerts[a]
      <3>1. pc[a] = "recorded" /\ pc[c] # "recorded"
        BY <2>0, <2>1 DEF RowInv, Commit
      <3>2. alerts' = alerts \/ \E row : alerts' = [alerts EXCEPT ![c] = row]
        BY <2>1 DEF Commit
      <3> QED
        BY <2>0, <3>1, <3>2 DEF TypeOK
    <2>2. ASSUME NEW r \in Acks, AckCommit(r) PROVE alerts'[a] = alerts[a]
      <3>1. /\ target[r] \in Calls /\ alerts[target[r]].status = seen[r]
            /\ \/ alerts' = alerts
               \/ /\ seen[r] # "acknowledged"
                  /\ \E new : alerts' = [alerts EXCEPT ![target[r]] = new]
        BY <2>0, <2>2 DEF AckCommit, FoundInv, ReadInv
      <3> QED
        BY <2>0, <3>1 DEF TypeOK
    <2>3. alerts' = alerts \/ (\E c \in Calls : Commit(c)) \/ (\E r \in Acks : AckCommit(r))
      BY DEF Next, Schedule, Task, Works, Insert, Estimate, CountActive, TaskFails, AckBegin,
         Ack, Answers, AckFinds, AckNotFound, AckFails, Restart, Idle, vars
    <2> QED
      BY <2>1, <2>2, <2>3
  <1> QED
    BY <1>1, Sqlite, PTL DEF Spec, AckIsFinal
=============================================================================
