----------------------------- MODULE Recording -----------------------------
(***************************************************************************)
(* What happens to a proxied call after its response: the background task  *)
(* _record_and_estimate of proxy/api/routes.py stores the call, estimates  *)
(* it, adds its discrepancy to the user's in-memory window, and raises an  *)
(* alert when the window shows sustained drift and the user has no active  *)
(* alert.  Users acknowledge alerts concurrently.                          *)
(*                                                                         *)
(* A task runs between awaits without interruption; an action is one such  *)
(* run.  What the database lets two transactions see of each other depends *)
(* on Backend: file SQLite gives the one writer the whole database from    *)
(* its first INSERT or UPDATE to its COMMIT, Postgres (READ COMMITTED)     *)
(* shows each statement what is committed by then and locks single rows.   *)
(*                                                                         *)
(* An alert row is identified by the call whose task inserted it, since a  *)
(* task inserts at most one.                                               *)
(***************************************************************************)
EXTENDS Integers, Sequences, FiniteSets

LOCAL INSTANCE Functions

CONSTANTS
    Users,
    Calls,          \* proxied calls whose response came from the provider
    CallUser,       \* CallUser[c]: the user who made call c
    Acks,           \* acknowledge requests
    AckKey,         \* AckKey[r]: the API key request r authenticates with
    KeyUser,        \* KeyUser[k]: the user key k belongs to
    Keys,
    Backend,        \* "sqlite" or "postgres"
    EstimationOn,   \* settings.estimation_enabled
    AlertsOn,       \* discrepancy_alert_threshold_pct < 999
    DefaultWindow,  \* _DEFAULT_WINDOW_SIZE
    Threshold,      \* discrepancy_alert_threshold_pct
    Discrepancies,  \* the discrepancy percentages a call may show
    Faults,         \* whether statements, and the work between them, may fail
    MaxBoots,       \* bound: so many restarts of the process
    Nobody

ASSUME RecordingAssumption ==
    /\ CallUser \in [Calls -> Users]
    /\ AckKey \in [Acks -> Keys]
    /\ KeyUser \in [Keys -> Users]
    /\ Backend \in {"sqlite", "postgres"}
    /\ EstimationOn \in BOOLEAN
    /\ AlertsOn \in BOOLEAN
    /\ Faults \in BOOLEAN
    /\ DefaultWindow \in Nat \ {0}
    /\ Threshold \in Nat
    /\ Discrepancies \subseteq Int
    /\ MaxBoots \in Nat
    /\ Calls \cap Acks = {}
    /\ Nobody \notin Calls \cup Acks
    /\ "database" \notin Keys

VARIABLES
    pc,             \* where the task of each call stands
    disc,           \* disc[c]: the discrepancy computed for call c
    window,         \* aggregator._windows: per user, the calls it holds
    sustained,      \* sustained[c]: the window the detection saw, or <<>>
    rows,           \* committed api_call_logs
    estimates,      \* committed estimation_results
    alerts,         \* committed discrepancy_alerts
    lock,           \* who holds the write lock of the database or of a row
    ackPc, target, seen,    \* the acknowledge requests
    boot

vars == <<pc, disc, window, sustained, rows, estimates, alerts, lock,
          ackPc, target, seen, boot>>
taskVars == <<pc, disc, window, sustained, rows, estimates>>
ackVars == <<ackPc, target, seen>>

InTransaction == {"inserted", "detected", "ready", "alerting"}
Over == {"recorded", "failed", "lost"}
TaskStates == {"idle", "queued"} \cup Over \cup InTransaction
AckStates == {"idle", "locked", "read", "answered", "refused"}
Locks == {"database"} \cup Keys

NoRow == [status |-> "none"]
AlertRow == [status : {"active", "acknowledged"}, user : Users,
             calls : Seq(Calls), ackedBy : SUBSET Acks]

TypeOK ==
    /\ pc \in [Calls -> TaskStates]
    /\ disc \in [Calls -> Int]
    /\ window \in [Users -> Seq(Calls)]
    /\ sustained \in [Calls -> Seq(Calls)]
    /\ rows \in SUBSET Calls
    /\ estimates \in SUBSET Calls
    /\ alerts \in [Calls -> AlertRow \cup {NoRow}]
    /\ lock \in [Locks -> Calls \cup Acks \cup {Nobody}]
    /\ ackPc \in [Acks -> AckStates]
    /\ target \in [Acks -> Calls \cup {Nobody}]
    /\ seen \in [Acks -> {"none", "active", "acknowledged"}]
    /\ boot \in 0..MaxBoots

Init ==
    /\ pc = [c \in Calls |-> "idle"]
    /\ disc = [c \in Calls |-> 0]
    /\ window = [u \in Users |-> <<>>]
    /\ sustained = [c \in Calls |-> <<>>]
    /\ rows = {}
    /\ estimates = {}
    /\ alerts = [c \in Calls |-> NoRow]
    /\ lock = [l \in Locks |-> Nobody]
    /\ ackPc = [r \in Acks |-> "idle"]
    /\ target = [r \in Acks |-> Nobody]
    /\ seen = [r \in Acks |-> "none"]
    /\ boot = 0
-----------------------------------------------------------------------------
(* The database *)

\* The locks a transaction takes with its first write and keeps to its end:
\* SQLite's write lock, or on Postgres the row the statement updates (an
\* INSERT locks no row another transaction writes).
TaskLocks == IF Backend = "sqlite" THEN {"database"} ELSE {}
AckLocks(r) == IF Backend = "sqlite" THEN {"database"} ELSE {AckKey[r]}

Acquire(p, wanted) ==
    /\ \A l \in wanted : lock[l] = Nobody
    /\ lock' = [l \in Locks |-> IF l \in wanted THEN p ELSE lock[l]]

Release(p) == lock' = [l \in Locks |-> IF lock[l] = p THEN Nobody ELSE lock[l]]

Active(u) == {a \in Calls : alerts[a].status = "active" /\ alerts[a].user = u}
-----------------------------------------------------------------------------
(* The aggregator: record_discrepancy and detect_sustained_discrepancy *)

MinCalls == DefaultWindow \div 2

\* deque(maxlen = window_size): the oldest entry leaves a full window.
Pushed(w, c) ==
    IF Len(w) < DefaultWindow THEN Append(w, c) ELSE Append(Tail(w), c)

Total(w, d) == SumFunction([i \in DOMAIN w |-> d[w[i]]])
Magnitude(t) == IF t < 0 THEN -t ELSE t

\* Variant: discrepancies of opposite sign do not cancel.
DriftsEitherWay(w, d) ==
    /\ w # <<>>
    /\ Len(w) >= MinCalls
    /\ SumFunction([i \in DOMAIN w |-> Magnitude(d[w[i]])]) >= Threshold * Len(w)

\* |average| >= threshold over at least half a default window.
Drifts(w, d) ==
    /\ w # <<>>
    /\ Len(w) >= MinCalls
    /\ Magnitude(Total(w, d)) >= Threshold * Len(w)
-----------------------------------------------------------------------------
(* The background task of call c *)

\* add_task in proxy_request, after the provider has answered.
Schedule(c) ==
    /\ pc[c] = "idle"
    /\ pc' = [pc EXCEPT ![c] = "queued"]
    /\ UNCHANGED <<disc, window, sustained, rows, estimates, alerts, lock,
                   ackVars, boot>>

\* session.add(call_log); flush: the INSERT opens the transaction.
Insert(c) ==
    /\ pc[c] = "queued"
    /\ Acquire(c, TaskLocks)
    /\ pc' = [pc EXCEPT ![c] = IF EstimationOn THEN "inserted" ELSE "ready"]
    /\ UNCHANGED <<disc, window, sustained, rows, estimates, alerts,
                   ackVars, boot>>

\* From the return of palace_estimator.predict to the next database
\* statement: the estimate is made and added to the session, the discrepancy
\* recorded in the window, and the window examined.
Estimate(c) ==
    /\ pc[c] = "inserted"
    /\ \E d \in Discrepancies :
        LET u == CallUser[c]
            w == Pushed(window[u], c)
        IN  /\ disc' = [disc EXCEPT ![c] = d]
            /\ window' = [window EXCEPT ![u] = w]
            /\ IF AlertsOn /\ Drifts(w, disc')
               THEN /\ sustained' = [sustained EXCEPT ![c] = w]
                    /\ pc' = [pc EXCEPT ![c] = "detected"]
               ELSE /\ pc' = [pc EXCEPT ![c] = "ready"]
                    /\ UNCHANGED sustained
    /\ UNCHANGED <<rows, estimates, alerts, lock, ackVars, boot>>

\* Variant: no count, an alert for every drift.
CountNothing(c) ==
    /\ pc[c] = "detected"
    /\ pc' = [pc EXCEPT ![c] = "alerting"]
    /\ UNCHANGED <<disc, window, sustained, rows, estimates, alerts, lock,
                   ackVars, boot>>

\* Variant: the count's test is inverted.
CountInverted(c) ==
    /\ pc[c] = "detected"
    /\ pc' = [pc EXCEPT ![c] = IF Active(CallUser[c]) = {} THEN "ready"
                                                           ELSE "alerting"]
    /\ UNCHANGED <<disc, window, sustained, rows, estimates, alerts, lock,
                   ackVars, boot>>

\* The count of the user's active alerts: only a user with none gets one.
CountActive(c) ==
    /\ pc[c] = "detected"
    /\ pc' = [pc EXCEPT ![c] = IF Active(CallUser[c]) = {} THEN "alerting"
                                                           ELSE "ready"]
    /\ UNCHANGED <<disc, window, sustained, rows, estimates, alerts, lock,
                   ackVars, boot>>

\* session.commit() of everything the task added.
Commit(c) ==
    /\ pc[c] \in {"ready", "alerting"}
    /\ pc' = [pc EXCEPT ![c] = "recorded"]
    /\ rows' = rows \cup {c}
    /\ estimates' = IF EstimationOn THEN estimates \cup {c} ELSE estimates
    /\ alerts' = IF pc[c] = "ready" THEN alerts
                 ELSE [alerts EXCEPT ![c] =
                         [status |-> "active", user |-> CallUser[c],
                          calls |-> sustained[c], ackedBy |-> {}]]
    /\ Release(c)
    /\ UNCHANGED <<disc, window, sustained, ackVars, boot>>

\* A statement fails ("database is locked" after 30 s, a lost connection), or
\* predict, estimate or the aggregation raises (a count that is null, latencies
\* that are all equal): the exception is logged and dropped, the transaction
\* rolled back, and a window that was pushed keeps the discrepancy of a call
\* that was never stored.
TaskFails(c) ==
    /\ Faults
    /\ pc[c] = "queued" \/ pc[c] \in InTransaction
    /\ pc' = [pc EXCEPT ![c] = "failed"]
    /\ Release(c)
    /\ UNCHANGED <<disc, window, sustained, rows, estimates, alerts,
                   ackVars, boot>>
-----------------------------------------------------------------------------
(* acknowledge_alert, request r *)

\* validate_api_key updates last_used_at: the request's transaction begins.
AckBegin(r) ==
    /\ ackPc[r] = "idle"
    /\ Acquire(r, AckLocks(r))
    /\ ackPc' = [ackPc EXCEPT ![r] = "locked"]
    /\ \E a \in Calls : target' = [target EXCEPT ![r] = a]
    /\ UNCHANGED <<taskVars, alerts, seen, boot>>

\* Variant: the alert is looked up by its id alone.
VisibleToAll(r) == target[r] \in Calls /\ alerts[target[r]] # NoRow

\* SELECT ... WHERE id = alert_id AND user_id = current_user.id finds it.
Visible(r) == /\ target[r] \in Calls
              /\ alerts[target[r]] # NoRow
              /\ alerts[target[r]].user = KeyUser[AckKey[r]]

AckFinds(r) ==
    /\ ackPc[r] = "locked"
    /\ Visible(r)
    /\ seen' = [seen EXCEPT ![r] = alerts[target[r]].status]
    /\ ackPc' = [ackPc EXCEPT ![r] = "read"]
    /\ UNCHANGED <<taskVars, alerts, lock, target, boot>>

\* Variant: the 404 leaves the transaction open.
AckNotFoundKeepsLock(r) ==
    /\ ackPc[r] = "locked"
    /\ ~Visible(r)
    /\ ackPc' = [ackPc EXCEPT ![r] = "refused"]
    /\ UNCHANGED <<taskVars, alerts, lock, target, seen, boot>>

\* No such alert of this user: 404, and get_db rolls back.
AckNotFound(r) ==
    /\ ackPc[r] = "locked"
    /\ ~Visible(r)
    /\ ackPc' = [ackPc EXCEPT ![r] = "refused"]
    /\ Release(r)
    /\ UNCHANGED <<taskVars, alerts, target, seen, boot>>

\* Variant: a repeated acknowledgement is written again.
AckCommitAgain(r) ==
    /\ ackPc[r] = "read"
    /\ alerts' = [alerts EXCEPT ![target[r]] =
                     [@ EXCEPT !.status = "acknowledged", !.ackedBy = {r}]]
    /\ ackPc' = [ackPc EXCEPT ![r] = "answered"]
    /\ Release(r)
    /\ UNCHANGED <<taskVars, target, seen, boot>>

\* Variant: a status that no reader of the table looks for.
AckCommitCloses(r) ==
    /\ ackPc[r] = "read"
    /\ alerts' = [alerts EXCEPT ![target[r]].status = "closed"]
    /\ ackPc' = [ackPc EXCEPT ![r] = "answered"]
    /\ Release(r)
    /\ UNCHANGED <<taskVars, target, seen, boot>>

\* Unless the row read was acknowledged already, write it; then get_db
\* commits.
AckCommit(r) ==
    /\ ackPc[r] = "read"
    /\ alerts' = IF seen[r] = "acknowledged" THEN alerts
                 ELSE [alerts EXCEPT ![target[r]] =
                         [@ EXCEPT !.status = "acknowledged", !.ackedBy = {r}]]
    /\ ackPc' = [ackPc EXCEPT ![r] = "answered"]
    /\ Release(r)
    /\ UNCHANGED <<taskVars, target, seen, boot>>

\* A statement of the request fails, or its wait for the lock times out.
AckFails(r) ==
    /\ Faults
    /\ ackPc[r] \in {"idle", "locked", "read"}
    /\ ackPc' = [ackPc EXCEPT ![r] = "refused"]
    /\ Release(r)
    /\ UNCHANGED <<taskVars, alerts, target, seen, boot>>
-----------------------------------------------------------------------------
\* Variant: the windows survive the tasks that filled them.
RestartKeepsWindows ==
    /\ boot < MaxBoots
    /\ boot' = boot + 1
    /\ pc' = [c \in Calls |-> IF pc[c] = "queued" \/ pc[c] \in InTransaction
                              THEN "lost" ELSE pc[c]]
    /\ ackPc' = [r \in Acks |-> IF ackPc[r] \in {"locked", "read"}
                                THEN "refused" ELSE ackPc[r]]
    /\ lock' = [l \in Locks |-> Nobody]
    /\ UNCHANGED <<disc, window, sustained, rows, estimates, alerts, target, seen>>

\* The process dies and comes back: tasks and windows are gone, transactions
\* are rolled back, committed rows remain.
Restart ==
    /\ boot < MaxBoots
    /\ boot' = boot + 1
    /\ pc' = [c \in Calls |-> IF pc[c] = "queued" \/ pc[c] \in InTransaction
                              THEN "lost" ELSE pc[c]]
    /\ ackPc' = [r \in Acks |-> IF ackPc[r] \in {"locked", "read"}
                                THEN "refused" ELSE ackPc[r]]
    /\ window' = [u \in Users |-> <<>>]
    /\ lock' = [l \in Locks |-> Nobody]
    /\ UNCHANGED <<disc, sustained, rows, estimates, alerts, target, seen>>

Works(c) == Insert(c) \/ Estimate(c) \/ CountActive(c) \/ Commit(c)
Task(c) == Works(c) \/ TaskFails(c)
Answers(r) == AckFinds(r) \/ AckNotFound(r) \/ AckCommit(r)
Ack(r) == Answers(r) \/ AckFails(r)

Finished == /\ \A c \in Calls : pc[c] \in Over
            /\ \A r \in Acks : ackPc[r] \in {"answered", "refused"}

\* Nothing is left to do.
Idle == Finished /\ UNCHANGED vars

Next == \/ \E c \in Calls : Schedule(c) \/ Task(c)
        \/ \E r \in Acks : AckBegin(r) \/ Ack(r)
        \/ Restart
        \/ Idle

Spec == Init /\ [][Next]_vars

\* The event loop runs every task that can run, and a request that has begun
\* goes on; statements need not fail, and whether calls and acknowledgements
\* are made is up to the clients.
FairSpec == /\ Spec
            /\ \A c \in Calls : WF_vars(Works(c))
            /\ \A r \in Acks : WF_vars(Answers(r))
-----------------------------------------------------------------------------
(* Properties *)

Alerts == {a \in Calls : alerts[a].status # "none"}
Evidence(a) == {alerts[a].calls[i] : i \in DOMAIN alerts[a].calls}
Trail == rows \cup {c \in Calls : pc[c] = "failed"}

\* A user has at most one active alert: maybe_persist_sustained_discrepancy_
\* alert counts the active ones before it inserts, in the same transaction.
OneActiveAlert == \A u \in Users : Cardinality(Active(u)) <= 1

\* A call and its estimate reach the database together or not at all, though
\* the call is flushed long before the estimate exists and any statement in
\* between may fail (_record_and_estimate has one commit, at its end).
AllOrNothing == estimates = IF EstimationOn THEN rows ELSE {}

\* An alert's window is a real one: distinct calls of the alert's own user,
\* ending with the call that raised it, drifting by the threshold or more
\* over at least half a window, whatever other tasks did to the window while
\* this one awaited the count; and none of them is a call not yet proxied.
AlertsAreBacked ==
    \A a \in Alerts :
        LET w == alerts[a].calls
        IN  /\ Magnitude(Total(w, disc)) >= Threshold * Len(w)
            /\ DefaultWindow <= 2 * Len(w) + 1
            /\ Len(w) <= DefaultWindow
            /\ w[Len(w)] = a
            /\ \A i, j \in DOMAIN w : w[i] = w[j] => i = j
            /\ \A c \in Evidence(a) : /\ CallUser[c] = alerts[a].user
                                      /\ pc[c] \notin {"idle", "queued"}

\* Every call an alert counts is in the audit trail, unless its own task
\* failed after the window had counted it: tasks still running count for
\* nobody, and a crash that rolls a call back also empties the window.
AlertsCountStoredCalls ==
    \A a \in Alerts : Evidence(a) \subseteq Trail

\* An acknowledged alert stays acknowledged and keeps its acknowledged_at:
\* a repeated acknowledgement changes nothing.
AckIsFinal ==
    [][\A a \in Calls : alerts[a].status = "acknowledged"
                            => alerts'[a] = alerts[a]]_alerts

\* The alert table implements the promise: raised only for a user with none
\* outstanding, acknowledged once, by a request of the alert's own user.
Book == INSTANCE AlertBook WITH
    Ids <- Calls,
    Requests <- Acks,
    UserOf <- [r \in Acks |-> KeyUser[AckKey[r]]],
    book <- [a \in Calls |->
               IF alerts[a].status = "none" THEN [user |-> {}, ackedBy |-> {}]
               ELSE [user |-> {alerts[a].user}, ackedBy |-> alerts[a].ackedBy]]
KeepsBook == Book!BookSpec

\* Every task ends: no task waits for ever for a lock, or with one.
EveryTaskEnds == \A c \in Calls : pc[c] = "queued" ~> pc[c] \in Over

\* A drift detected is on record: unless its own transaction is lost, the
\* user ends up with an alert, this task's or one raised before.
DriftIsRaised ==
    \A c \in Calls :
        pc[c] = "detected" ~> \/ pc[c] \in {"failed", "lost"}
                              \/ \E a \in Alerts : alerts[a].user = CallUser[c]
=============================================================================
