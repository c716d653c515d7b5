--------------------------- MODULE LifecycleProofs --------------------------
(***************************************************************************)
(* Theorems about the schema a process finds, for any tables, any number   *)
(* of starts and every configuration.  Outside of memory the schema only   *)
(* grows, so that whoever has seen it whole may rely on it (SchemaInv).    *)
(* On SQLite, where statements of one migrator are seen by the others, at  *)
(* most one of them has created anything, and what there is is what it has *)
(* created (LeaderInv): the others are refused by their first statement.   *)
(***************************************************************************)
EXTENDS Lifecycle, TLAPS

LEMMA SchemaHas == \A i \in DOMAIN Statements : Statements[i] \in Schema
  BY DEF Schema

LEMMA StatementsDomain == DOMAIN Statements = 1..Len(Statements) /\ Len(Statements) \in Nat
  BY LifecycleAssumption DEF Statements

\* No two statements create the same.
LEMMA StatementsDiffer ==
    ASSUME NEW i \in DOMAIN Statements, NEW j \in DOMAIN Statements,
           Statements[i] = Statements[j]
    PROVE  i = j
  <1>1. Len(Tables) \in Nat /\ i \in 1..(2 * Len(Tables)) /\ j \in 1..(2 * Len(Tables))
    BY LifecycleAssumption DEF Statements
  <1>2. /\ (i % 2 = 1) <=> (j % 2 = 1)
        /\ Tables[(i + 1) \div 2] = Tables[(j + 1) \div 2]
    BY <1>1 DEF Statements
  <1>3. (i + 1) \div 2 \in DOMAIN Tables /\ (j + 1) \div 2 \in DOMAIN Tables
    BY <1>1, LifecycleAssumption
  <1>4. (i + 1) \div 2 = (j + 1) \div 2
    BY <1>2, <1>3, LifecycleAssumption
  <1>5. i % 2 = j % 2
    BY <1>1, <1>2
  <1> QED
    BY <1>1, <1>4, <1>5
-----------------------------------------------------------------------------
(* Types *)

Runs == [state : {"idle", "running", "done", "failed"}, at : 1..(Len(Statements) + 1)]

LEMMA EndsType ==
    ASSUME TypeOK, NEW m \in Migrators, NEW x \in {"running", "done", "failed"}, Ends(m, x)
    PROVE  migration' \in [Migrators -> Runs]
  BY DEF TypeOK, Ends, Runs

LEMMA MigrationType ==
    ASSUME TypeOK, NEW m \in Migrators,
           MigrationStarts(m) \/ MigrationStep(m) \/ MigrationEnds(m) \/ MigrationDies(m)
    PROVE  TypeOK'
  <1>1. CASE MigrationStarts(m)
    BY <1>1, EndsType DEF MigrationStarts, TypeOK, Runs
  <1>2. CASE MigrationStep(m)
    <2> DEFINE at == migration[m].at
    <2>1. at \in DOMAIN Statements /\ at + 1 \in 1..(Len(Statements) + 1)
      BY <1>2, StatementsDomain DEF MigrationStep
    <2>2. migration' \in [Migrators -> Runs]
      <3>1. CASE Ends(m, "failed")
        BY <3>1, EndsType
      <3>2. CASE migration' = [migration EXCEPT ![m].at = at + 1]
        BY <2>1, <3>2 DEF TypeOK, Runs
      <3> QED
        BY <1>2, <3>1, <3>2 DEF MigrationStep
    <2>3. objects' \subseteq Schema
      BY <1>2, <2>1, SchemaHas DEF MigrationStep, TypeOK
    <2> QED
      BY <1>2, <2>2, <2>3 DEF MigrationStep, TypeOK, Runs
  <1>3. CASE MigrationEnds(m)
    BY <1>3, EndsType DEF MigrationEnds, TypeOK, Runs
  <1>4. CASE MigrationDies(m)
    BY <1>4, EndsType DEF MigrationDies, TypeOK, Runs
  <1> QED
    BY <1>1, <1>2, <1>3, <1>4

\* What demo_data.py does: it creates what it has found missing, and no more.
Demo == DemoChecks \/ DemoCreates \/ DemoDies

LEMMA DemoGrows ==
    ASSUME TypeOK, DemoCreates
    PROVE  filling' \subseteq Schema /\ objects' \subseteq Schema /\ objects \subseteq objects'
  BY SchemaHas DEF DemoCreates, TypeOK

LEMMA ProcessType ==
    ASSUME TypeOK,
           \/ Demo \/ Start \/ SchemaApplied \/ Loaded \/ Stop
           \/ CloseEngine \/ Kill \/ Outage
    PROVE  TypeOK'
  <1>1. CASE Demo
    <2>1. CASE DemoChecks
      <3>1. filling' \subseteq Schema
        BY <2>1 DEF DemoChecks
      <3> QED
        BY <2>1, <3>1 DEF DemoChecks, TypeOK
    <2>2. CASE DemoCreates
      BY <2>2, DemoGrows DEF DemoCreates, TypeOK
    <2>3. CASE DemoDies
      BY <2>3 DEF DemoDies, TypeOK
    <2> QED
      BY <1>1, <2>1, <2>2, <2>3 DEF Demo
  <1>2. CASE Start
    BY <1>2, LifecycleAssumption DEF Start, TypeOK
  <1>3. CASE SchemaApplied
    BY <1>3 DEF SchemaApplied, TypeOK
  <1>4. CASE Loaded \/ Stop
    BY <1>4 DEF Loaded, Stop, TypeOK
  <1>5. CASE CloseEngine
    BY <1>5 DEF CloseEngine, Kept, TypeOK
  <1>6. CASE Kill
    BY <1>6 DEF Kill, Kept, TypeOK
  <1>7. CASE Outage
    BY <1>7 DEF Outage, TypeOK
  <1> QED
    BY <1>1, <1>2, <1>3, <1>4, <1>5, <1>6, <1>7

Replies == {None} \cup [status : {200, 400, 500, 502, 504}, id : BOOLEAN,
                        body : {"call", "healthy", "degraded", "error"}]

LEMMA RepliesHave ==
    /\ [status |-> 200, id |-> TRUE, body |-> "call"] \in Replies
    /\ [status |-> 200, id |-> TRUE, body |-> "healthy"] \in Replies
    /\ [status |-> 200, id |-> TRUE, body |-> "degraded"] \in Replies
    /\ [status |-> 500, id |-> FALSE, body |-> "error"] \in Replies
    /\ \A code \in {400, 502, 504} : [status |-> code, id |-> TRUE, body |-> "error"] \in Replies
  BY DEF Replies

LEMMA SaysType ==
    ASSUME TypeOK, NEW c \in Calls, NEW x \in Replies, reply' = [reply EXCEPT ![c] = x]
    PROVE  reply' \in [Calls -> Replies]
  BY DEF TypeOK, Replies

LEMMA BecomesType ==
    ASSUME TypeOK, NEW c \in Calls, Elsewhere, reply' \in [Calls -> Replies],
           NEW x \in {"running", "answered", "recording", "stored", "failed", "lost", "over"},
           Becomes(c, x)
    PROVE  TypeOK'
  BY DEF TypeOK, Becomes, Elsewhere, Replies

LEMMA RequestType ==
    ASSUME TypeOK, NEW c \in Calls,
           Call(c) \/ Health(c) \/ Answer(c) \/ TaskOpens(c) \/ TaskEnds(c)
    PROVE  TypeOK'
  <1>1. CASE Call(c)
    <2>1. reply' \in [Calls -> Replies]
      <3>1. CASE UNCHANGED reply
        BY <3>1 DEF TypeOK, Replies
      <3>2. CASE Says(c, 500, FALSE, "error")
        BY <3>2, RepliesHave, SaysType DEF Says
      <3> QED
        BY <1>1, <3>1, <3>2 DEF Call
    <2>2. Elsewhere /\ (Becomes(c, "running") \/ Becomes(c, "over"))
      BY <1>1 DEF Call
    <2> QED
      BY <2>1, <2>2, BecomesType
  <1>2. CASE Health(c)
    <2>1. Elsewhere /\ Becomes(c, "over")
      BY <1>2 DEF Health
    <2>2. \/ Says(c, 200, TRUE, "healthy")
          \/ Says(c, 200, TRUE, "degraded")
          \/ Says(c, 500, FALSE, "error")
      BY <1>2 DEF Health
    <2>3. CASE Says(c, 200, TRUE, "healthy")
      BY <2>1, <2>3, RepliesHave, SaysType, BecomesType DEF Says
    <2>4. CASE Says(c, 200, TRUE, "degraded")
      BY <2>1, <2>4, RepliesHave, SaysType, BecomesType DEF Says
    <2>5. CASE Says(c, 500, FALSE, "error")
      BY <2>1, <2>5, RepliesHave, SaysType, BecomesType DEF Says
    <2> QED
      BY <2>2, <2>3, <2>4, <2>5
  <1>3. CASE Answer(c)
    <2>1. Elsewhere /\ (Becomes(c, "answered") \/ Becomes(c, "over"))
      BY <1>3 DEF Answer
    <2>2. \/ Says(c, 200, TRUE, "call")
          \/ \E code \in {400, 502, 504} : Says(c, code, TRUE, "error")
          \/ Says(c, 500, FALSE, "error")
      BY <1>3 DEF Answer
    <2>3. CASE Says(c, 200, TRUE, "call")
      BY <2>1, <2>3, RepliesHave, SaysType, BecomesType DEF Says
    <2>4. ASSUME NEW code \in {400, 502, 504}, Says(c, code, TRUE, "error")
          PROVE  TypeOK'
      <3> DEFINE x == [status |-> code, id |-> TRUE, body |-> "error"]
      <3>1. x \in Replies
        BY RepliesHave
      <3>2. reply' = [reply EXCEPT ![c] = x]
        BY <2>4 DEF Says
      <3> HIDE DEF x
      <3> QED
        BY <2>1, <3>1, <3>2, SaysType, BecomesType
    <2>5. CASE Says(c, 500, FALSE, "error")
      BY <2>1, <2>5, RepliesHave, SaysType, BecomesType DEF Says
    <2> QED
      BY <2>2, <2>3, <2>4, <2>5
  <1>4. CASE TaskOpens(c) \/ TaskEnds(c)
    BY <1>4 DEF TaskOpens, TaskEnds, Becomes, Elsewhere, TypeOK
  <1> QED
    BY <1>1, <1>2, <1>3, <1>4

LEMMA NextType == TypeOK /\ [Next]_vars => TypeOK'
  <1>1. TypeOK /\ UNCHANGED vars => TypeOK'
    BY DEF TypeOK, vars
  <1> QED
    BY <1>1, MigrationType, ProcessType, RequestType DEF Next, Demo

LEMMA InitType == Init => TypeOK
  <1> SUFFICES ASSUME Init PROVE TypeOK
    OBVIOUS
  <1>1. 1 \in 1..(Len(Statements) + 1) /\ 0 \in 0..MaxBoots
    BY StatementsDomain, LifecycleAssumption
  <1>2. migration \in [Migrators -> Runs]
    BY <1>1 DEF Init, Runs
  <1> QED
    BY <1>1, <1>2 DEF Init, TypeOK, Runs

\* Every reachable state is type correct, in every configuration.
THEOREM TypeCorrect == Spec => []TypeOK
  <1> QED
    BY InitType, NextType, PTL DEF Spec
-----------------------------------------------------------------------------
(* The schema of a serving process *)

\* In memory nobody migrates, and only demo_data.py fills.  Elsewhere a stamp, and a run of alembic that has
\* ended well, say that the schema is whole, for good.
SchemaInv ==
    /\ ~UsesAlembic => /\ ~stamped /\ phase # "migrating"
                       /\ \A m \in Migrators : migration[m].state = "idle"
    /\ ~settings.demo => filling = {}
    /\ stamped => objects = Schema
    /\ \A m \in Migrators : migration[m].state = "done" => objects = Schema
    /\ \A m \in Migrators : migration[m].state = "idle" => migration[m].at = 1
    /\ phase = "migrating" => boot \in Migrators
    /\ Development /\ phase \in {"loading", "serving", "draining"} => objects = Schema

LEMMA MigrationSchema ==
    ASSUME TypeOK, SchemaInv, NEW m \in Migrators,
           MigrationStarts(m) \/ MigrationStep(m) \/ MigrationEnds(m) \/ MigrationDies(m)
    PROVE  SchemaInv'
  <1>0. UNCHANGED <<settings, phase, boot>>
    BY DEF MigrationStarts, MigrationStep, MigrationEnds, MigrationDies
  <1>1. UsesAlembic
    BY DEF MigrationStarts, MigrationStep, MigrationEnds, MigrationDies, SchemaInv
  <1>2. CASE MigrationStarts(m)
    <2>1. PICK x \in {"failed", "done", "running"} : Ends(m, x) /\ (x = "done" => stamped)
      BY <1>2 DEF MigrationStarts, TypeOK
    <2>2. \A n \in Migrators :
             /\ migration'[n].state = "done" => migration[n].state = "done" \/ stamped
             /\ migration'[n].state = "idle" => migration'[n] = migration[n]
      BY <2>1 DEF Ends, TypeOK
    <2> QED
      BY <1>0, <1>1, <1>2, <2>2 DEF MigrationStarts, SchemaInv, UsesAlembic, Development
  <1>3. CASE MigrationStep(m)
    <2>1. \A n \in Migrators :
             /\ migration'[n].state = "done" => migration[n].state = "done"
             /\ migration'[n].state = "idle" => migration'[n] = migration[n]
      <3>1. /\ migration[m].state = "running"
            /\ \/ migration' = [migration EXCEPT ![m].state = "failed"]
               \/ migration' = [migration EXCEPT ![m].at = migration[m].at + 1]
        BY <1>3 DEF MigrationStep, Ends
      <3>2. migration \in [Migrators -> Runs]
        BY DEF TypeOK, Runs
      <3>3. \A n \in Migrators : n # m => migration'[n] = migration[n]
        BY <3>1, <3>2
      <3>4. migration'[m].state \in {"running", "failed"}
        BY <3>1, <3>2 DEF Runs
      <3> QED
        BY <3>3, <3>4
    <2>2. objects = Schema => objects' = Schema
      BY <1>3, SchemaHas DEF MigrationStep
    <2> QED
      BY <1>0, <1>1, <1>3, <2>1, <2>2 DEF MigrationStep, SchemaInv, UsesAlembic, Development
  <1>4. CASE MigrationEnds(m)
    <2>1. \A n \in Migrators : migration'[n].state = "idle" => migration'[n] = migration[n]
      BY <1>4 DEF MigrationEnds, Ends, TypeOK
    <2> QED
      BY <1>0, <1>1, <1>4, <2>1 DEF MigrationEnds, SchemaInv, UsesAlembic, Development
  <1>5. CASE MigrationDies(m)
    <2>1. \A n \in Migrators :
             /\ migration'[n].state = "done" => migration[n].state = "done"
             /\ migration'[n].state = "idle" => migration'[n] = migration[n]
      BY <1>5 DEF MigrationDies, Ends, TypeOK
    <2> QED
      BY <1>0, <1>1, <1>5, <2>1 DEF MigrationDies, SchemaInv, UsesAlembic, Development
  <1> QED
    BY <1>2, <1>3, <1>4, <1>5

LEMMA ProcessSchema ==
    ASSUME TypeOK, SchemaInv,
           \/ Demo \/ Start \/ SchemaApplied \/ Loaded \/ Stop
           \/ CloseEngine \/ Kill \/ Outage
    PROVE  SchemaInv'
  <1>1. CASE Demo
    <2>1. objects = Schema => objects' = Schema
      BY <1>1, DemoGrows DEF Demo, DemoChecks, DemoDies
    <2> QED
      BY <1>1, <2>1 DEF Demo, DemoChecks, DemoCreates, DemoDies, SchemaInv, UsesAlembic,
                        Development
  <1>2. CASE Start
    <2>1. boot' \in Migrators
      BY <1>2, LifecycleAssumption DEF Start, TypeOK, Migrators
    <2> QED
      BY <1>2, <2>1 DEF Start, SchemaInv, UsesAlembic, Development
  <1>3. CASE SchemaApplied
    BY <1>3 DEF SchemaApplied, SchemaInv, UsesAlembic, Development
  <1>4. CASE Loaded
    BY <1>4 DEF Loaded, SchemaInv, UsesAlembic, Development
  <1>5. CASE Stop
    BY <1>5 DEF Stop, SchemaInv, UsesAlembic, Development
  <1>6. CASE CloseEngine
    BY <1>6 DEF CloseEngine, Kept, SchemaInv, UsesAlembic, Development
  <1>7. CASE Kill
    BY <1>7 DEF Kill, Kept, SchemaInv, UsesAlembic, Development
  <1>8. CASE Outage
    BY <1>8 DEF Outage, SchemaInv, UsesAlembic, Development
  <1> QED
    BY <1>1, <1>2, <1>3, <1>4, <1>5, <1>6, <1>7, <1>8

\* Requests touch neither the schema nor a migration.
LEMMA RequestElsewhere ==
    ASSUME NEW c \in Calls,
           Call(c) \/ Health(c) \/ Answer(c) \/ TaskOpens(c) \/ TaskEnds(c)
    PROVE  Elsewhere
  BY DEF Call, Health, Answer, TaskOpens, TaskEnds

LEMMA NextSchema == TypeOK /\ SchemaInv /\ [Next]_vars => SchemaInv'
  <1> SUFFICES ASSUME TypeOK, SchemaInv, [Next]_vars
               PROVE  SchemaInv'
    OBVIOUS
  <1>1. CASE Elsewhere
    BY <1>1 DEF Elsewhere, SchemaInv, UsesAlembic, Development
  <1>2. CASE UNCHANGED vars
    BY <1>1, <1>2 DEF vars, Elsewhere
  <1>3. ASSUME NEW c \in Calls,
               Call(c) \/ Health(c) \/ Answer(c) \/ TaskOpens(c) \/ TaskEnds(c)
        PROVE  SchemaInv'
    BY <1>1, <1>3, RequestElsewhere
  <1> QED
    BY <1>2, <1>3, MigrationSchema, ProcessSchema DEF Next, Demo

LEMMA Schemas == Spec => [](TypeOK /\ SchemaInv)
  <1>1. Init => SchemaInv
    BY DEF Init, SchemaInv
  <1> QED
    BY <1>1, InitType, NextType, NextSchema, PTL DEF Spec

\* A development server that takes requests has the whole schema, whoever else
\* migrates, fills the database or is killed.
THEOREM ServesOnSchema == Spec => []SchemaWhenServing
  <1>1. SchemaInv => SchemaWhenServing
    BY DEF SchemaInv, SchemaWhenServing
  <1> QED
    BY <1>1, Schemas, PTL
-----------------------------------------------------------------------------
(* Whole migrations *)

\* Nobody but alembic creates anything, and no run of it is cut off.
Undisturbed == ~settings.demo /\ (settings.database = "sqlite" => ~Kills /\ ~settings.outages)

Created(k) == {Statements[i] : i \in 1..(k - 1)}
Started(m) == migration[m].state = "running" /\ migration[m].at > 1

\* On Postgres a database has all of the schema or none.  On SQLite it may have
\* what one migrator has created, who is still at it, and alone.
LeaderInv ==
    Undisturbed /\ UsesAlembic =>
        IF settings.database = "sqlite"
        THEN /\ reachable
             /\ stamped \/ objects = {} \/ \E m \in Migrators : Started(m)
             /\ \A m \in Migrators : Started(m) => objects = Created(migration[m].at)
             /\ \A m, n \in Migrators : Started(m) /\ Started(n) => m = n
        ELSE stamped \/ objects = {}

\* The first statement meets what a migrator that has started created.
LEMMA CreatedGrows ==
    ASSUME NEW k \in DOMAIN Statements
    PROVE  /\ Created(k + 1) = Created(k) \cup {Statements[k]}
           /\ Statements[k] \notin Created(k)
           /\ k > 1 => Statements[1] \in Created(k)
           /\ Created(1) = {}
  <1>1. k \in 1..Len(Statements) /\ Len(Statements) \in Nat
    BY StatementsDomain
  <1>2. 1..((k + 1) - 1) = (1..(k - 1)) \cup {k}
    BY <1>1
  <1>3. Created(k + 1) = Created(k) \cup {Statements[k]}
    BY <1>2 DEF Created
  <1>4. Statements[k] \notin Created(k)
    <2> SUFFICES ASSUME NEW i \in 1..(k - 1), Statements[i] = Statements[k]
                 PROVE  FALSE
      BY DEF Created
    <2>1. i \in DOMAIN Statements /\ i # k
      BY <1>1, StatementsDomain
    <2> QED
      BY <2>1, StatementsDiffer
  <1>5. k > 1 => Statements[1] \in Created(k)
    BY <1>1 DEF Created
  <1>6. Created(1) = {}
    BY DEF Created
  <1> QED
    BY <1>3, <1>4, <1>5, <1>6

\* One statement on SQLite: by a migrator that is at its first one, of an empty
\* database or one that refuses it, or by the one that has started.
LEMMA StepLeader ==
    ASSUME TypeOK, SchemaInv, LeaderInv, Undisturbed, settings.database = "sqlite",
           NEW m \in Migrators, MigrationStep(m)
    PROVE  LeaderInv'
  <1> DEFINE at == migration[m].at
  <1>0. /\ UsesAlembic /\ reachable
        /\ stamped \/ objects = {} \/ \E n \in Migrators : Started(n)
        /\ \A n \in Migrators : Started(n) => objects = Created(migration[n].at)
        /\ \A n, o \in Migrators : Started(n) /\ Started(o) => n = o
    BY DEF LeaderInv, UsesAlembic
  <1>1. /\ at \in DOMAIN Statements /\ at \in Nat /\ 1 <= at
        /\ migration[m].state = "running"
        /\ migration \in [Migrators -> Runs]
        /\ UNCHANGED <<settings, reachable, stamped>>
    BY StatementsDomain DEF MigrationStep, TypeOK, Runs
  <1>2. \A n \in Migrators : Started(n) =>
           migration[n].at \in Nat /\ 1 < migration[n].at /\ Statements[1] \in objects
    <2> SUFFICES ASSUME NEW n \in Migrators, Started(n)
                 PROVE  migration[n].at \in Nat /\ 1 < migration[n].at /\ Statements[1] \in objects
      OBVIOUS
    <2>1. migration[n].at \in 1..(Len(Statements) + 1) /\ 1 < migration[n].at
      BY <1>1, StatementsDomain DEF Started, Runs
    <2>2. 1 \in 1..(migration[n].at - 1)
      BY <2>1, StatementsDomain
    <2>3. Statements[1] \in Created(migration[n].at)
      BY <2>2 DEF Created
    <2> QED
      BY <1>0, <2>1, <2>3, StatementsDomain
  <1>3. CASE Statements[at] \in objects
    <2>1. Ends(m, "failed") /\ objects' = objects
      BY <1>3 DEF MigrationStep
    <2>2. ~Started(m)
      <3> SUFFICES ASSUME Started(m) PROVE FALSE
        OBVIOUS
      <3> QED
        BY <1>0, <1>1, <1>3, CreatedGrows
    <2>3. \A n \in Migrators : /\ Started(n)' <=> Started(n)
                               /\ n # m => migration'[n] = migration[n]
      BY <1>1, <2>1, <2>2 DEF Ends, Started
    <2>4. \A n \in Migrators : Started(n)' => migration'[n].at = migration[n].at
      BY <2>2, <2>3
    <2> QED
      BY <1>0, <1>1, <2>1, <2>3, <2>4 DEF LeaderInv, Created
  <1>4. CASE Statements[at] \notin objects
    <2>1. /\ migration' = [migration EXCEPT ![m].at = at + 1]
          /\ objects' = objects \cup {Statements[at]}
      BY <1>4 DEF MigrationStep
    <2>2. objects = Created(at) /\ \A n \in Migrators : Started(n) => n = m
      <3>1. CASE at = 1
        <4>1. \A n \in Migrators : ~Started(n)
          BY <1>2, <1>4, <3>1
        <4>2. objects # Schema
          BY <1>1, <1>4, SchemaHas
        <4>3. objects = {}
          BY <1>0, <4>1, <4>2 DEF SchemaInv
        <4> QED
          BY <1>1, <3>1, <4>1, <4>3, CreatedGrows
      <3>2. CASE at # 1
        <4>1. Started(m)
          BY <1>1, <3>2 DEF Started
        <4> QED
          BY <1>0, <4>1
      <3> QED
        BY <3>1, <3>2
    <2>3. objects' = Created(at + 1)
      BY <1>1, <2>1, <2>2, CreatedGrows
    <2>4. migration'[m].at = at + 1 /\ migration'[m].state = "running" /\ at + 1 > 1
      BY <1>1, <2>1 DEF Runs
    <2>5. Started(m)'
      BY <2>4 DEF Started
    <2>6. \A n \in Migrators : Started(n)' => n = m
      BY <1>1, <2>1, <2>2 DEF Started
    <2>7. \A n \in Migrators : Started(n)' => objects' = Created(migration'[n].at)
      BY <2>3, <2>4, <2>6
    <2> QED
      BY <1>0, <1>1, <2>5, <2>6, <2>7 DEF LeaderInv, Created
  <1> QED
    BY <1>3, <1>4

\* Where no migrator starts and nothing changes in the database.
LEMMA SameLeader ==
    ASSUME LeaderInv, UNCHANGED <<settings, objects, stamped>>,
           Undisturbed /\ settings.database = "sqlite" /\ reachable => reachable',
           \A n \in Migrators : /\ Started(n)' <=> Started(n)
                                /\ Started(n) => migration'[n].at = migration[n].at
    PROVE  LeaderInv'
  BY DEF LeaderInv, Undisturbed, UsesAlembic, Kills, Created

LEMMA MigrationLeader ==
    ASSUME TypeOK, SchemaInv, LeaderInv, NEW m \in Migrators,
           MigrationStarts(m) \/ MigrationStep(m) \/ MigrationEnds(m) \/ MigrationDies(m)
    PROVE  LeaderInv'
  <1>0. migration \in [Migrators -> Runs] /\ settings' = settings
    BY DEF TypeOK, Runs, MigrationStarts, MigrationStep, MigrationEnds, MigrationDies
  <1>1. CASE MigrationStarts(m)
    <2>1. PICK x \in {"failed", "done", "running"} : Ends(m, x)
      BY <1>1 DEF MigrationStarts, TypeOK
    <2>2. migration[m].state = "idle" /\ migration[m].at = 1
      BY <1>1 DEF MigrationStarts, SchemaInv
    <2>3. \A n \in Migrators : migration'[n].at = migration[n].at
                               /\ (n # m => migration'[n] = migration[n])
      BY <1>0, <2>1 DEF Ends, Runs
    <2>4. \A n \in Migrators : Started(n)' <=> Started(n)
      BY <2>2, <2>3 DEF Started
    <2> QED
      BY <1>1, <2>3, <2>4, SameLeader DEF MigrationStarts
  <1>2. CASE MigrationStep(m)
    <2>1. CASE Undisturbed /\ settings.database = "sqlite"
      BY <1>2, <2>1, StepLeader
    <2>2. CASE Undisturbed /\ settings.database # "sqlite"
      BY <1>2, <2>2 DEF MigrationStep, LeaderInv, UsesAlembic
    <2>3. CASE ~Undisturbed
      BY <1>0, <2>3 DEF LeaderInv, Undisturbed, Kills
    <2> QED
      BY <2>1, <2>2, <2>3
  <1>3. CASE MigrationEnds(m)
    <2>1. Ends(m, "done") /\ stamped' /\ reachable' = reachable
      BY <1>3 DEF MigrationEnds
    <2>2. CASE Undisturbed /\ settings.database = "sqlite" /\ UsesAlembic
      <3>1. \A n \in Migrators : ~Started(n)'
        <4> SUFFICES ASSUME NEW n \in Migrators, Started(n)'
                     PROVE  FALSE
          OBVIOUS
        <4>1. n # m /\ Started(n)
          BY <1>0, <2>1 DEF Ends, Started, Runs
        <4>2. CASE Started(m)
          BY <2>2, <4>1, <4>2 DEF LeaderInv
        <4>3. CASE ~Started(m)
          <5>1. Len(Statements) = 0 /\ migration[n].at \in 1..(Len(Statements) + 1)
            BY <1>0, <1>3, <4>3, StatementsDomain DEF MigrationEnds, Started, Runs
          <5> QED
            BY <4>1, <5>1 DEF Started
        <4> QED
          BY <4>2, <4>3
      <3> QED
        BY <1>0, <2>1, <2>2, <3>1 DEF LeaderInv, Undisturbed, UsesAlembic, Kills
    <2>3. CASE ~(Undisturbed /\ settings.database = "sqlite" /\ UsesAlembic)
      BY <1>0, <2>1, <2>3 DEF LeaderInv, Undisturbed, UsesAlembic, Kills
    <2> QED
      BY <2>2, <2>3
  <1>4. CASE MigrationDies(m)
    <2>1. Ends(m, "failed") /\ UNCHANGED <<settings, objects, stamped, reachable>>
      BY <1>4 DEF MigrationDies
    <2>2. CASE Undisturbed /\ settings.database = "sqlite"
      BY <1>4, <2>2 DEF MigrationDies, LeaderInv, Undisturbed, UsesAlembic
    <2>3. CASE ~(Undisturbed /\ settings.database = "sqlite")
      BY <2>1, <2>3 DEF LeaderInv, Undisturbed, UsesAlembic, Kills
    <2> QED
      BY <2>2, <2>3
  <1> QED
    BY <1>1, <1>2, <1>3, <1>4

LEMMA ProcessLeader ==
    ASSUME TypeOK, SchemaInv, LeaderInv,
           \/ Demo \/ Start \/ SchemaApplied \/ Loaded \/ Stop
           \/ CloseEngine \/ Kill \/ Outage
    PROVE  LeaderInv'
  <1>0. settings' = settings /\ migration' = migration /\ stamped' = stamped
    BY DEF Demo, DemoChecks, DemoCreates, DemoDies, Start, SchemaApplied, Loaded, Stop,
           CloseEngine, Kill, Outage
  <1>1. CASE ~(Undisturbed /\ UsesAlembic)
    BY <1>0, <1>1 DEF LeaderInv, Undisturbed, UsesAlembic, Kills
  <1>2. CASE Undisturbed /\ UsesAlembic
    <2>1. objects' = objects
      BY <1>2 DEF Demo, DemoChecks, DemoCreates, DemoDies, SchemaInv, Start, SchemaApplied, Loaded, Stop, CloseEngine, Kill, Outage,
                  Kept, Undisturbed, UsesAlembic
    <2>2. settings.database = "sqlite" => reachable' = reachable
      BY <1>2 DEF Demo, DemoChecks, DemoCreates, DemoDies, Start, SchemaApplied, Loaded, Stop, CloseEngine, Kill, Outage,
                  Undisturbed
    <2> QED
      BY <1>0, <2>1, <2>2, SameLeader DEF Started
  <1> QED
    BY <1>1, <1>2

LEMMA NextLeader == TypeOK /\ SchemaInv /\ LeaderInv /\ [Next]_vars => LeaderInv'
  <1> SUFFICES ASSUME TypeOK, SchemaInv, LeaderInv, [Next]_vars
               PROVE  LeaderInv'
    OBVIOUS
  <1>1. CASE Elsewhere
    BY <1>1, SameLeader DEF Elsewhere, Started
  <1>2. CASE UNCHANGED vars
    BY <1>1, <1>2 DEF vars, Elsewhere
  <1>3. ASSUME NEW c \in Calls,
               Call(c) \/ Health(c) \/ Answer(c) \/ TaskOpens(c) \/ TaskEnds(c)
        PROVE  LeaderInv'
    BY <1>1, <1>3, RequestElsewhere
  <1> QED
    BY <1>2, <1>3, MigrationLeader, ProcessLeader DEF Next, Demo

\* A stamped database has the whole schema, and where nobody else creates
\* tables, and on SQLite nothing is cut off, a database whose migrations have
\* all ended, several of them at once included, is stamped or empty.
THEOREM MigratesWhole == Spec => []MigrationIsWhole
  <1>1. Init => LeaderInv
    BY DEF Init, LeaderInv, Started
  <1>2. TypeOK /\ SchemaInv /\ LeaderInv => MigrationIsWhole
    <2> SUFFICES ASSUME TypeOK, SchemaInv, LeaderInv,
                        \A m \in Migrators : migration[m].state # "running"
                 PROVE  \/ settings.database = "memory" \/ stamped \/ objects = {}
                        \/ settings.demo
                        \/ settings.database = "sqlite" /\ (Kills \/ settings.outages)
      BY DEF MigrationIsWhole, SchemaInv
    <2> QED
      BY DEF LeaderInv, Started, Undisturbed, UsesAlembic
  <1> QED
    BY <1>1, <1>2, NextLeader, Schemas, PTL DEF Spec
=============================================================================
