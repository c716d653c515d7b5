------------------------------ MODULE Lifecycle -----------------------------
(***************************************************************************)
(* The life of the proxy process (proxy/main.py, storage/database.py): the *)
(* engine, the schema of a development database, requests and the tasks    *)
(* that record them, shutdown; beside it whoever else migrates or fills    *)
(* the same database (make migrate, make demo).                            *)
(*                                                                         *)
(* uvicorn lets a stopping server finish its requests, the background      *)
(* tasks of a response included, before the lifespan goes on.  alembic     *)
(* migrates Postgres in one transaction; on SQLite every statement of DDL  *)
(* is committed by itself, and the revision is stamped at the end.         *)
(***************************************************************************)
EXTENDS Integers, Sequences

CONSTANTS Configurations,  \* what a process finds: DATABASE_URL and OVERAGE_ENV,
                           \* whether scripts/demo_data.py is run (at any time),
                           \* whether processes are killed, and whether the
                           \* database may be out of reach
          Tables,          \* the tables of the revision, in its order
          Calls,           \* requests
          MaxBoots,        \* bound: starts of the process
          None

ASSUME LifecycleAssumption ==
    /\ Configurations \subseteq [database : {"memory", "sqlite", "postgres"},
                                 env : {"development", "production"},
                                 demo : BOOLEAN, kills : BOOLEAN, outages : BOOLEAN]
    /\ Tables \in Seq(STRING)
    /\ \A i, j \in DOMAIN Tables : Tables[i] = Tables[j] => i = j
    /\ MaxBoots \in Nat

VARIABLES settings,        \* the configuration
          phase,           \* how far the process is
          engine,          \* whether _engine and _session_factory are set
          reachable,       \* whether the database answers
          objects,         \* tables and their indexes in the database
          stamped,         \* whether alembic_version holds the revision
          migration,       \* how far each run of alembic is
          filling,         \* what demo_data.py is still to create
          stage, reply,    \* of each request
          boot

vars == <<settings, phase, engine, reachable, objects, stamped, migration, filling,
          stage, reply, boot>>

Migrators == 1..MaxBoots \cup {MaxBoots + 1}   \* one for each start, and make migrate
Operator == MaxBoots + 1

\* upgrade(): each table, then its indexes.
Statements == [i \in 1..(2 * Len(Tables)) |->
                 <<IF i % 2 = 1 THEN "table" ELSE "indexes", Tables[(i + 1) \div 2]>>]
Schema == {Statements[i] : i \in DOMAIN Statements}

Kills == settings.kills
Development == settings.env = "development"
\* _uses_alembic_migrations_for_schema
UsesAlembic == settings.database # "memory"

TypeOK ==
    /\ settings \in Configurations
    /\ phase \in {"down", "failed", "migrating", "loading", "serving", "draining"}
    /\ engine \in BOOLEAN /\ reachable \in BOOLEAN /\ stamped \in BOOLEAN
    /\ objects \subseteq Schema
    /\ migration \in [Migrators -> [state : {"idle", "running", "done", "failed"},
                                    at : 1..(Len(Statements) + 1)]]
    /\ filling \subseteq Schema
    /\ stage \in [Calls -> {"none", "running", "answered", "recording",
                            "stored", "failed", "lost", "over"}]
    /\ reply \in [Calls -> {None} \cup [status : {200, 400, 500, 502, 504}, id : BOOLEAN,
                                        body : {"call", "healthy", "degraded", "error"}]]
    /\ boot \in 0..MaxBoots

Init ==
    /\ settings \in Configurations
    /\ phase = "down" /\ engine = FALSE /\ reachable = TRUE
    /\ objects = {} /\ stamped = FALSE
    /\ migration = [m \in Migrators |-> [state |-> "idle", at |-> 1]]
    /\ filling = {}
    /\ stage = [c \in Calls |-> "none"]
    /\ reply = [c \in Calls |-> None]
    /\ boot = 0
-----------------------------------------------------------------------------
(* Migrations *)

Ends(m, state) == migration' = [migration EXCEPT ![m].state = state]

\* alembic reads the stamp, and has nothing to do if it is there.  The process
\* runs it while it starts; an operator may at any time.
MigrationStarts(m) ==
    /\ migration[m].state = "idle" /\ UsesAlembic
    /\ m = Operator \/ (m = boot /\ phase = "migrating")
    /\ CASE ~reachable -> Ends(m, "failed")
         [] reachable /\ stamped -> Ends(m, "done")
         [] reachable /\ ~stamped -> Ends(m, "running")
    /\ UNCHANGED <<settings, phase, engine, reachable, objects, stamped, filling, stage, reply, boot>>

\* Postgres: a transaction that creates what another has created waits for it.
WaitsFor(migrators) ==
    /\ settings.database = "postgres"
    /\ \E o \in migrators : migration[o].state = "running" /\ migration[o].at > 1
Waits(m) == migration[m].at = 1 /\ WaitsFor(Migrators \ {m})

\* Variant: the revision is stamped with its first statement.
MigrationStepStamps(m) ==
    LET at == migration[m].at
    IN  /\ migration[m].state = "running" /\ at \in DOMAIN Statements
        /\ reachable /\ ~Waits(m)
        /\ IF Statements[at] \in objects
           THEN Ends(m, "failed") /\ UNCHANGED <<objects, stamped>>
           ELSE /\ migration' = [migration EXCEPT ![m].at = at + 1]
                /\ objects' = IF settings.database = "sqlite"
                              THEN objects \cup {Statements[at]} ELSE objects
                /\ stamped' = TRUE
        /\ UNCHANGED <<settings, phase, engine, reachable, filling, stage, reply, boot>>

\* One statement of upgrade(); what is already there is an error.
MigrationStep(m) ==
    LET at == migration[m].at
    IN  /\ migration[m].state = "running" /\ at \in DOMAIN Statements
        /\ reachable /\ ~Waits(m)
        /\ IF Statements[at] \in objects
           THEN Ends(m, "failed") /\ UNCHANGED objects
           ELSE /\ migration' = [migration EXCEPT ![m].at = at + 1]
                /\ objects' = IF settings.database = "sqlite"
                              THEN objects \cup {Statements[at]} ELSE objects
        /\ UNCHANGED <<settings, phase, engine, reachable, stamped, filling, stage, reply, boot>>

\* The stamp, and the commit.
MigrationEnds(m) ==
    /\ migration[m].state = "running" /\ migration[m].at > Len(Statements) /\ reachable
    /\ Ends(m, "done")
    /\ objects' = Schema
    /\ stamped' = TRUE
    /\ UNCHANGED <<settings, phase, engine, reachable, filling, stage, reply, boot>>

\* It is killed, or loses the database.
MigrationDies(m) ==
    /\ migration[m].state = "running" /\ (Kills \/ ~reachable)
    /\ Ends(m, "failed")
    /\ UNCHANGED <<settings, phase, engine, reachable, objects, stamped, filling, stage, reply, boot>>

\* demo_data.py: create_all looks which tables are there, will create the others
\* with their indexes, and stamps nothing.
DemoChecks ==
    /\ settings.demo /\ settings.database # "memory"
    /\ reachable /\ filling = {}
    /\ filling' = {s \in Schema : <<"table", s[2]>> \notin objects}
    /\ UNCHANGED <<settings, phase, engine, reachable, objects, stamped, migration, stage, reply, boot>>

\* On SQLite it creates one after the other, each committed by itself; on
\* Postgres all or nothing.  What came in between is an error.
DemoCreates ==
    /\ reachable /\ ~WaitsFor(Migrators)
    /\ \E i \in DOMAIN Statements :
        LET now == IF settings.database = "sqlite" THEN {Statements[i]} ELSE filling
        IN  /\ Statements[i] \in filling
            /\ \A j \in 1..(i - 1) : Statements[j] \notin filling
            /\ IF now \cap objects # {}
               THEN filling' = {} /\ UNCHANGED objects
               ELSE filling' = filling \ now /\ objects' = objects \cup now
    /\ UNCHANGED <<settings, phase, engine, reachable, stamped, migration, stage, reply, boot>>

DemoDies ==
    /\ filling # {} /\ (Kills \/ ~reachable)
    /\ filling' = {}
    /\ UNCHANGED <<settings, phase, engine, reachable, objects, stamped, migration, stage, reply, boot>>
-----------------------------------------------------------------------------
(* The process *)

\* lifespan up to apply_development_schema: the engine (no connection is made
\* yet), and in development the schema, by init_db or by alembic.
Start ==
    /\ phase \in {"down", "failed"} /\ boot < MaxBoots
    /\ boot' = boot + 1
    /\ engine' = TRUE
    /\ IF Development /\ UsesAlembic THEN phase' = "migrating" ELSE phase' = "loading"
    /\ objects' = IF Development /\ ~UsesAlembic THEN Schema ELSE objects
    /\ UNCHANGED <<settings, reachable, stamped, migration, filling, stage, reply>>

\* Variant: the exit code of alembic is not looked at.
SchemaAppliedAnyway ==
    /\ phase = "migrating" /\ migration[boot].state \in {"done", "failed"}
    /\ phase' = "loading"
    /\ UNCHANGED <<settings, engine, reachable, objects, stamped, migration, filling, stage, reply, boot>>

\* run_alembic_upgrade_head returns; if alembic failed it raises, and the
\* process ends.
SchemaApplied ==
    /\ phase = "migrating" /\ migration[boot].state \in {"done", "failed"}
    /\ IF migration[boot].state = "done"
       THEN phase' = "loading" /\ UNCHANGED engine
       ELSE phase' = "failed" /\ engine' = FALSE
    /\ UNCHANGED <<settings, reachable, objects, stamped, migration, filling, stage, reply, boot>>

\* The rest of the startup: adapters, the model, set_estimators.
Loaded ==
    /\ phase = "loading"
    /\ phase' = "serving"
    /\ UNCHANGED <<settings, engine, reachable, objects, stamped, migration, filling, stage, reply, boot>>

\* The server is told to stop, and takes no more requests.
Stop ==
    /\ phase = "serving"
    /\ phase' = "draining"
    /\ UNCHANGED <<settings, engine, reachable, objects, stamped, migration, filling, stage, reply, boot>>

Drained == \A c \in Calls : stage[c] \notin {"running", "answered", "recording"}

\* A database in memory is gone with its engine.
Kept == IF settings.database = "memory" THEN {} ELSE objects

\* Variant: the engine is closed before the server has drained.
CloseEngineEarly ==
    /\ phase = "draining"
    /\ engine' = FALSE
    /\ objects' = Kept
    /\ phase' = IF Drained THEN "down" ELSE "draining"
    /\ UNCHANGED <<settings, reachable, stamped, migration, filling, stage, reply, boot>>

\* lifespan goes on: close_engine, and the process ends.
CloseEngine ==
    /\ phase = "draining" /\ Drained
    /\ engine' = FALSE
    /\ objects' = Kept
    /\ phase' = "down"
    /\ UNCHANGED <<settings, reachable, stamped, migration, filling, stage, reply, boot>>

\* The process dies, its lifespan with it; an alembic it runs may live on.
Kill ==
    /\ Kills /\ phase \notin {"down", "failed"}
    /\ phase' = "down"
    /\ engine' = FALSE
    /\ objects' = Kept
    /\ stage' = [c \in Calls |-> CASE stage[c] \in {"answered", "recording"} -> "lost"
                                   [] stage[c] = "running" -> "over"
                                   [] OTHER -> stage[c]]
    /\ UNCHANGED <<settings, reachable, stamped, migration, filling, reply, boot>>

Outage ==
    /\ settings.outages
    /\ reachable' = ~reachable
    /\ UNCHANGED <<settings, phase, engine, objects, stamped, migration, filling, stage, reply, boot>>
-----------------------------------------------------------------------------
(* Requests *)

Usable == engine /\ reachable /\ objects = Schema

Says(c, status, id, body) ==
    reply' = [reply EXCEPT ![c] = [status |-> status, id |-> id, body |-> body]]
Becomes(c, s) == stage' = [stage EXCEPT ![c] = s]
Elsewhere == UNCHANGED <<settings, phase, engine, reachable, objects, stamped, migration, filling, boot>>

\* A call comes in; its key is looked up in the database.  What nothing
\* translates becomes the 500 of _unhandled_error_handler, which answers
\* outside of RequestIDMiddleware, without the X-Request-ID it would add.
Call(c) ==
    /\ phase = "serving" /\ stage[c] = "none"
    /\ IF Usable
       THEN Becomes(c, "running") /\ UNCHANGED reply
       ELSE Becomes(c, "over") /\ Says(c, 500, FALSE, "error")
    /\ Elsewhere

\* GET /health: SELECT 1.  The connection asyncpg is refused is an OSError,
\* which check_db_connection does not catch.
Health(c) ==
    /\ phase = "serving" /\ stage[c] = "none"
    /\ Becomes(c, "over")
    /\ \/ engine /\ reachable /\ Says(c, 200, TRUE, "healthy")
       \/ ~(engine /\ reachable) /\ Says(c, 200, TRUE, "degraded")
       \/ ~reachable /\ settings.database = "postgres" /\ Says(c, 500, FALSE, "error")
    /\ Elsewhere

\* The provider's answer is passed on, and the task that records it comes next;
\* or the call fails (an OverageError, which main.py translates inside of
\* RequestIDMiddleware, or what nothing translates), and there is no task.
Answer(c) ==
    /\ stage[c] = "running"
    /\ \/ Becomes(c, "answered") /\ Says(c, 200, TRUE, "call")
       \/ /\ Becomes(c, "over")
          /\ \/ \E code \in {400, 502, 504} : Says(c, code, TRUE, "error")
             \/ Says(c, 500, FALSE, "error")
    /\ Elsewhere

\* _record_and_estimate asks for the session factory, or is given up.
TaskOpens(c) ==
    /\ stage[c] = "answered"
    /\ Becomes(c, IF engine THEN "recording" ELSE "lost")
    /\ UNCHANGED reply
    /\ Elsewhere

\* Its transaction: with a usable database it stores the call, or fails by
\* itself (it waits too long for a connection or, on SQLite, for the lock of a
\* request, its own included, or its work raises: ProxyRequest).
TaskEnds(c) ==
    /\ stage[c] = "recording"
    /\ IF Usable THEN Becomes(c, "stored") \/ Becomes(c, "failed") ELSE Becomes(c, "lost")
    /\ UNCHANGED reply
    /\ Elsewhere

Next ==
    \/ \E m \in Migrators :
          MigrationStarts(m) \/ MigrationStep(m) \/ MigrationEnds(m) \/ MigrationDies(m)
    \/ DemoChecks \/ DemoCreates \/ DemoDies
    \/ Start \/ SchemaApplied \/ Loaded \/ Stop \/ CloseEngine \/ Kill \/ Outage
    \/ \E c \in Calls : Call(c) \/ Health(c) \/ Answer(c) \/ TaskOpens(c) \/ TaskEnds(c)

\* Providers answer or time out, the event loop runs its tasks.
Fairness ==
    \A c \in Calls : WF_vars(Answer(c)) /\ WF_vars(TaskOpens(c)) /\ WF_vars(TaskEnds(c))

Spec == Init /\ [][Next]_vars /\ Fairness
-----------------------------------------------------------------------------
(* Properties *)

\* A development server that takes requests has the whole schema, whoever else
\* migrated or filled the database meanwhile, and whatever was killed on the way.
SchemaWhenServing == Development /\ phase \in {"serving", "draining"} => objects = Schema

\* A stamped database has the whole schema, and a run of alembic that ends
\* leaves all of it or nothing, so that the next one is not refused for ever.
\* (The second needs that nobody creates the tables without alembic, and on
\* SQLite that no run is killed or cut off half way.)
MigrationIsWhole ==
    /\ stamped => objects = Schema
    /\ (\A m \in Migrators : migration[m].state # "running") =>
          \/ settings.database = "memory" \/ stamped \/ objects = {}
          \/ settings.demo
          \/ settings.database = "sqlite" /\ (Kills \/ settings.outages)

\* Unless the process is killed or the database goes out of reach, the task of a
\* call that was answered has the engine and the schema it needs until its
\* transaction has ended, well or by a failure of its own: stopping the server
\* between the answer and the transaction loses no call.
StopLosesNoCall ==
    \A c \in Calls :
        stage[c] = "answered" /\ ~Kills /\ ~settings.outages
            ~> stage[c] \in {"stored", "failed"}
=============================================================================
