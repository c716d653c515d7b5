---------------------------- MODULE ProxyRequest ----------------------------
(***************************************************************************)
(* The life of an authenticated HTTP request: the get_db session of        *)
(* proxy/storage/database.py, the checks and the last_used_at update of    *)
(* validate_api_key (proxy/api/auth.py), the call to the provider in       *)
(* proxy_request (proxy/api/routes.py), the response, the end of the       *)
(* session, and the background task that stores the call in a session of   *)
(* its own.  What the task does inside its transaction is Recording.tla.   *)
(*                                                                         *)
(* A session takes a connection from the engine's pool with its first      *)
(* statement and gives it back when it ends; its first write takes the     *)
(* locks that Backend implies, kept to the COMMIT or ROLLBACK.             *)
(*                                                                         *)
(* FastAPI decides when a dependency with yield is left (ExitOrder): up to *)
(* 0.117 before the response is sent, so the session commits first; from   *)
(* 0.118 on after the response and its background tasks, so it commits     *)
(* last.  pyproject.toml admits both.  An error that the handler raises is *)
(* rolled back; an error response that it returns is committed.            *)
(***************************************************************************)
EXTENDS Naturals, FiniteSets

CONSTANTS
    Requests,
    Proxied,        \* the requests to /v1/proxy/...
    Details,        \* the requests to GET /v1/calls/{call_id}
    Keys,           \* API keys that exist and are active
    KeyOf,          \* KeyOf[r]: the key r presents, maybe not in Keys, or Nobody
    Deployments,    \* the ways the proxy is deployed
    Nobody

ASSUME RequestAssumption ==
    /\ Proxied \subseteq Requests
    /\ Details \subseteq Requests \ Proxied
    /\ \A r \in Requests : r \in DOMAIN KeyOf
    /\ Deployments \subseteq [backend : {"sqlite", "postgres"},
                              exitOrder : {"commit_first", "commit_last"},
                              pool : Nat \ {0}, faults : BOOLEAN]
    /\ "database" \notin Keys
    /\ Nobody \notin Keys \cup (Requests \X {"request", "task"})

VARIABLES
    deployment,     \* how this proxy is deployed, for good
    stage,          \* where each request stands
    answer,         \* the HTTP status of the response on its way, 0 before
    status,         \* the HTTP status its client got, 0 before
    task,           \* where its background task stands
    conns,          \* the sessions that hold a connection
    lock,           \* per lock, the session that holds it
    billed,         \* the requests the provider has answered
    touched,        \* the requests whose last_used_at update is committed
    stored          \* the requests whose call log is committed

vars == <<deployment, stage, answer, status, task, conns, lock, billed, touched, stored>>

Backend == deployment.backend
ExitOrder == deployment.exitOrder
PoolSize == deployment.pool     \* connections the engine opens at most
Faults == deployment.faults     \* whether a COMMIT may fail

Stages == {"new", "updating", "handling", "committing", "responding",
           "closing", "done"}
TaskStages == {"none", "queued", "due", "connected", "inserted",
               "stored", "raised", "lost"}
Statuses == {0, 200, 400, 401, 404, 422, 429, 500, 502, 504}
Sessions == Requests \X {"request", "task"}
Locks == {"database"} \cup Keys

TypeOK ==
    /\ deployment \in Deployments
    /\ stage \in [Requests -> Stages]
    /\ answer \in [Requests -> {0, 200, 404, 422}]
    /\ status \in [Requests -> Statuses]
    /\ task \in [Requests -> TaskStages]
    /\ conns \in SUBSET Sessions
    /\ lock \in [Locks -> Sessions \cup {Nobody}]
    /\ billed \in SUBSET Requests
    /\ touched \in SUBSET Requests
    /\ stored \in SUBSET Requests

Init ==
    /\ deployment \in Deployments
    /\ stage = [r \in Requests |-> "new"]
    /\ answer = [r \in Requests |-> 0]
    /\ status = [r \in Requests |-> 0]
    /\ task = [r \in Requests |-> "none"]
    /\ conns = {}
    /\ lock = [l \in Locks |-> Nobody]
    /\ billed = {}
    /\ touched = {}
    /\ stored = {}
-----------------------------------------------------------------------------
(* Sessions *)

Request(r) == <<r, "request">>
TaskOf(r) == <<r, "task">>

PoolHasRoom == Cardinality(conns) < PoolSize
Connect(p) == PoolHasRoom /\ conns' = conns \cup {p}

\* SQLite has one writer; on Postgres the update locks the key's row, and an
\* INSERT waits for nobody.
RequestLocks(r) == IF Backend = "sqlite" THEN {"database"} ELSE {KeyOf[r]}
TaskLocks == IF Backend = "sqlite" THEN {"database"} ELSE {}

AllFree(wanted) == \A l \in wanted : lock[l] = Nobody
Acquire(p, wanted) ==
    /\ AllFree(wanted)
    /\ lock' = [l \in Locks |-> IF l \in wanted THEN p ELSE lock[l]]

\* COMMIT or ROLLBACK: the locks and the connection are given back.
EndSession(p) ==
    /\ conns' = conns \ {p}
    /\ lock' = [l \in Locks |-> IF lock[l] = p THEN Nobody ELSE lock[l]]
-----------------------------------------------------------------------------
(* The request *)

\* Variant: the session commits in a finally, errors or not.
FailWithCommit(r, code) ==
    /\ stage' = [stage EXCEPT ![r] = "done"]
    /\ status' = [status EXCEPT ![r] = code]
    /\ touched' = IF stage[r] = "handling" THEN touched \cup {r} ELSE touched
    /\ EndSession(Request(r))
    /\ UNCHANGED <<deployment, answer, task, billed, stored>>

\* The request ends with an error: the exception passes through get_db, which
\* rolls back, and a handler of main.py turns it into the status code.
FailWith(r, code) ==
    /\ stage' = [stage EXCEPT ![r] = "done"]
    /\ status' = [status EXCEPT ![r] = code]
    /\ EndSession(Request(r))
    /\ UNCHANGED <<deployment, answer, task, billed, touched, stored>>

\* validate_api_key up to the update: the SELECT finds the key and the rate
\* limiter has room for it.
Authenticate(r) ==
    /\ stage[r] = "new"
    /\ KeyOf[r] \in Keys
    /\ Connect(Request(r))
    /\ stage' = [stage EXCEPT ![r] = "updating"]
    /\ UNCHANGED <<deployment, answer, status, task, lock, billed, touched, stored>>

\* Variant: a status that main.py gives to no error.
RefuseForbidden(r) ==
    /\ stage[r] = "new"
    /\ KeyOf[r] = Nobody \/ PoolHasRoom
    /\ IF KeyOf[r] \in Keys THEN FailWith(r, 429) ELSE FailWith(r, 403)

\* InvalidAPIKeyError without a header and of an unknown or inactive key,
\* RateLimitExceededError of a valid one; without a header no statement runs.
Refuse(r) ==
    /\ stage[r] = "new"
    /\ KeyOf[r] = Nobody \/ PoolHasRoom
    /\ IF KeyOf[r] \in Keys THEN FailWith(r, 429) ELSE FailWith(r, 401)

\* No connection within the pool's 30 s.
PoolTimeout(r) ==
    /\ stage[r] = "new"
    /\ KeyOf[r] # Nobody
    /\ ~PoolHasRoom
    /\ FailWith(r, 500)

\* UPDATE api_keys SET last_used_at: the transaction's first write.
Touch(r) ==
    /\ stage[r] = "updating"
    /\ Acquire(Request(r), RequestLocks(r))
    /\ stage' = [stage EXCEPT ![r] = "handling"]
    /\ UNCHANGED <<deployment, answer, status, task, conns, billed, touched, stored>>

\* "database is locked" after the 30 s of connect_args; Postgres has no limit.
LockTimeout(r) ==
    /\ stage[r] = "updating"
    /\ Backend = "sqlite"
    /\ ~AllFree(RequestLocks(r))
    /\ FailWith(r, 500)

Leaving == IF ExitOrder = "commit_first" THEN "committing" ELSE "responding"

\* Variant: the recording starts at once, beside the response.
AnswerAndRecord(r) ==
    /\ stage[r] = "handling"
    /\ r \in Proxied
    /\ billed' = billed \cup {r}
    /\ answer' = [answer EXCEPT ![r] = 200]
    /\ task' = [task EXCEPT ![r] = "due"]
    /\ stage' = [stage EXCEPT ![r] = Leaving]
    /\ UNCHANGED <<deployment, status, conns, lock, touched, stored>>

\* Variant: a path on which the recording is not queued.
AnswerUnrecorded(r) ==
    /\ stage[r] = "handling"
    /\ r \in Proxied
    /\ billed' = billed \cup {r}
    /\ answer' = [answer EXCEPT ![r] = 200]
    /\ stage' = [stage EXCEPT ![r] = Leaving]
    /\ UNCHANGED <<deployment, status, task, conns, lock, touched, stored>>

\* The provider answers, and the recording of the call is queued.
Answer(r) ==
    /\ stage[r] = "handling"
    /\ r \in Proxied
    /\ billed' = billed \cup {r}
    /\ answer' = [answer EXCEPT ![r] = 200]
    /\ task' = [task EXCEPT ![r] = "queued"]
    /\ stage' = [stage EXCEPT ![r] = Leaving]
    /\ UNCHANGED <<deployment, status, conns, lock, touched, stored>>

\* Another route returns its response, computed in the same session: for a
\* call that is not there get_call_detail returns a 404, and raises nothing.
Read(r) ==
    /\ stage[r] = "handling"
    /\ r \notin Proxied
    /\ \E code \in IF r \in Details THEN {200, 404} ELSE {200} :
        answer' = [answer EXCEPT ![r] = code]
    /\ stage' = [stage EXCEPT ![r] = Leaving]
    /\ UNCHANGED <<deployment, status, task, conns, lock, billed, touched, stored>>

\* A parameter fails FastAPI's validation, which raises when the dependencies
\* have been left (up to 0.117), or while they are still entered.
Invalid(r) ==
    /\ stage[r] = "handling"
    /\ r \notin Proxied
    /\ IF ExitOrder = "commit_first"
       THEN /\ answer' = [answer EXCEPT ![r] = 422]
            /\ stage' = [stage EXCEPT ![r] = Leaving]
            /\ UNCHANGED <<deployment, status, task, conns, lock, billed, touched, stored>>
       ELSE FailWith(r, 422)

\* What the handlers raise: an unknown provider, a body that is not JSON, a
\* provider that fails or does not answer in time; an alert that is not there,
\* a group_by or a period that is refused; what nothing foresees.
HandlerFails(r) ==
    /\ stage[r] = "handling"
    /\ \E code \in CASE r \in Proxied -> {400, 500, 502, 504}
                     [] r \in Details -> {500}
                     [] OTHER -> {404, 422, 500} :
        FailWith(r, code)

\* commit_first: the session ends before the response is sent.
CommitThenRespond(r) ==
    /\ stage[r] = "committing"
    /\ stage' = [stage EXCEPT ![r] = "responding"]
    /\ touched' = touched \cup {r}
    /\ EndSession(Request(r))
    /\ UNCHANGED <<deployment, answer, status, task, billed, stored>>

\* The COMMIT fails: the response, and its background task, are dropped.
CommitFails(r) ==
    /\ Faults
    /\ stage[r] = "committing"
    /\ stage' = [stage EXCEPT ![r] = "done"]
    /\ status' = [status EXCEPT ![r] = 500]
    /\ task' = [task EXCEPT ![r] = IF task[r] = "queued" THEN "lost" ELSE @]
    /\ EndSession(Request(r))
    /\ UNCHANGED <<deployment, answer, billed, touched, stored>>

\* The response is sent; then its background task is due.
Respond(r) ==
    /\ stage[r] = "responding"
    /\ status' = [status EXCEPT ![r] = answer[r]]
    /\ task' = [task EXCEPT ![r] = IF task[r] = "queued" THEN "due" ELSE @]
    /\ stage' = [stage EXCEPT ![r] =
                    IF ExitOrder = "commit_first" THEN "done" ELSE "closing"]
    /\ UNCHANGED <<deployment, answer, conns, lock, billed, touched, stored>>

\* commit_last: the session ends when response and task are over, whether
\* its COMMIT succeeds or not.
Close(r) ==
    /\ stage[r] = "closing"
    /\ task[r] \in {"none", "stored", "raised", "lost"}
    /\ stage' = [stage EXCEPT ![r] = "done"]
    /\ \/ touched' = touched \cup {r}
       \/ Faults /\ UNCHANGED touched
    /\ EndSession(Request(r))
    /\ UNCHANGED <<deployment, answer, status, task, billed, stored>>
-----------------------------------------------------------------------------
(* The background task, in its own session *)

TaskConnects(r) ==
    /\ task[r] = "due"
    /\ Connect(TaskOf(r))
    /\ task' = [task EXCEPT ![r] = "connected"]
    /\ UNCHANGED <<deployment, stage, answer, status, lock, billed, touched, stored>>

TaskInserts(r) ==
    /\ task[r] = "connected"
    /\ Acquire(TaskOf(r), TaskLocks)
    /\ task' = [task EXCEPT ![r] = "inserted"]
    /\ UNCHANGED <<deployment, stage, answer, status, conns, billed, touched, stored>>

TaskCommits(r) ==
    /\ task[r] = "inserted"
    /\ task' = [task EXCEPT ![r] = "stored"]
    /\ stored' = stored \cup {r}
    /\ EndSession(TaskOf(r))
    /\ UNCHANGED <<deployment, stage, answer, status, billed, touched>>

\* Variant: the task's session is not closed when the task fails.
TaskGivesUpOpen(r) ==
    /\ \/ task[r] = "due" /\ ~PoolHasRoom
       \/ task[r] = "connected" /\ ~AllFree(TaskLocks)
       \/ task[r] = "inserted" /\ Faults
    /\ task' = [task EXCEPT ![r] = "lost"]
    /\ UNCHANGED <<deployment, stage, answer, status, conns, lock, billed, touched, stored>>

\* Variant: no limit to the wait for the database's lock.
TaskWaitsForLock(r) ==
    /\ \/ task[r] = "due" /\ ~PoolHasRoom
       \/ task[r] = "inserted" /\ Faults
    /\ task' = [task EXCEPT ![r] = "lost"]
    /\ EndSession(TaskOf(r))
    /\ UNCHANGED <<deployment, stage, answer, status, billed, touched, stored>>

\* The pool or the database keeps the task waiting too long, or its COMMIT
\* fails: the exception is logged, and that is all.
TaskGivesUp(r) ==
    /\ \/ task[r] = "due" /\ ~PoolHasRoom
       \/ task[r] = "connected" /\ ~AllFree(TaskLocks)
       \/ task[r] = "inserted" /\ Faults
    /\ task' = [task EXCEPT ![r] = "lost"]
    /\ EndSession(TaskOf(r))
    /\ UNCHANGED <<deployment, stage, answer, status, billed, touched, stored>>

\* Its own work raises, at the INSERT (a count that is null) or after it (the
\* same; latencies that are all equal): this exception, too, is only logged.
TaskRaises(r) ==
    /\ \/ task[r] = "connected" /\ AllFree(TaskLocks)
       \/ task[r] = "inserted"
    /\ task' = [task EXCEPT ![r] = "raised"]
    /\ EndSession(TaskOf(r))
    /\ UNCHANGED <<deployment, stage, answer, status, billed, touched, stored>>
-----------------------------------------------------------------------------
Step(r) ==
    \/ Touch(r) \/ LockTimeout(r)
    \/ Answer(r) \/ Read(r) \/ Invalid(r) \/ HandlerFails(r)
    \/ CommitThenRespond(r) \/ CommitFails(r) \/ Respond(r) \/ Close(r)

TaskStep(r) ==
    \/ TaskConnects(r) \/ TaskInserts(r) \/ TaskCommits(r)
    \/ TaskGivesUp(r) \/ TaskRaises(r)

\* A request whose task will not run, or has run.
Over(r) == stage[r] = "done" /\ task[r] \in {"none", "stored", "raised", "lost"}

Idle == (\A r \in Requests : Over(r)) /\ UNCHANGED vars

Next ==
    \/ \E r \in Requests : \/ Authenticate(r) \/ Refuse(r) \/ PoolTimeout(r)
                           \/ Step(r) \/ TaskStep(r)
    \/ Idle

Spec == Init /\ [][Next]_vars

\* The event loop runs whatever can run; the provider answers, or httpx
\* times out; no client is obliged to send its request.
FairSpec ==
    Spec /\ \A r \in Requests : /\ WF_vars(Step(r))
                                /\ WF_vars(TaskStep(r))
-----------------------------------------------------------------------------
(* Properties *)

\* Whatever way a request and its task end, their connections and locks are
\* given back, and only sessions with a connection hold locks (get_db and
\* the async with of _record_and_estimate).
NothingLeaks ==
    /\ \A r \in Requests :
        /\ stage[r] = "done" => Request(r) \notin conns
        /\ task[r] \in {"none", "queued", "stored", "raised", "lost"}
            => TaskOf(r) \notin conns
    /\ \A l \in Locks : lock[l] # Nobody => lock[l] \in conns

\* The audit trail holds no call whose client was not served: storing a call
\* begins only when its response has been sent.
StoredWasServed == \A r \in stored : r \in billed /\ status[r] = 200

\* Nothing fails once the response is on its way.
CleanExit == ExitOrder = "commit_first" \/ ~Faults

\* The use of a key is on record exactly for the requests whose client got the
\* response they were left with: the answer, the 404 that get_call_detail
\* returns, the 422 that FastAPI raises after leaving the session.  Every other
\* error, a failing COMMIT included, rolls the last_used_at update back.  (A
\* COMMIT that fails after the response cannot be told any more.)
TouchedIffAnswered ==
    CleanExit =>
        \A r \in Requests :
            stage[r] = "done" => (r \in touched <=> status[r] = answer[r])

\* Every request that has a session gets an answer and gives it up, and its
\* task ends, whoever holds what everyone else waits for.
EveryRequestEnds == \A r \in Requests : stage[r] # "new" ~> Over(r)

Roomy == Backend = "postgres" /\ ~Faults /\ PoolSize >= Cardinality(Sessions)

\* A call that was served is stored, unless its own recording raises: with a
\* pool that has a connection for each session, nothing that other requests
\* and tasks do on Postgres keeps the task from committing.
ServedIsStored ==
    \A r \in Proxied :
        Roomy /\ status[r] = 200 ~> r \in stored \/ task[r] = "raised"

\* A task whose own work raises nothing has stored its call when it is over.
TaskStoresCall == \A r \in Requests : task[r] # "lost"
=============================================================================
