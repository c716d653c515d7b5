----------------------------- MODULE ViewProofs -----------------------------
(***************************************************************************)
(* Theorems about what users are shown.                                    *)
(*                                                                         *)
(* Reading: a request is a plan whose statements are run once each         *)
(* (ReadInv), while others commit.  A detail keeps its call committed      *)
(* (DetailInv).  Rows are only ever added before those a client has still  *)
(* to see (RowsGrow), so that no page can skip one (PageInv).  On SQLite a *)
(* request is alone (AloneInv), so that its parts are about the same rows, *)
(* and groups by any key add up (GroupsAddUp).  The aggregate discrepancy  *)
(* is at least k exactly when a sum is not negative (DiscrepancyAtLeast).  *)
(*                                                                         *)
(* Dashboard: that pages show what their own session asked rests on the    *)
(* arguments of a fetcher telling apart whatever makes its query differ    *)
(* (ArgsTell); that they show nothing older than their own ttl rests on an *)
(* entry being younger than the ttl its fetcher was last declared with     *)
(* (EntriesAreFresh).                                                      *)
(***************************************************************************)
EXTENDS Reading, Dashboard, DataTheorems

\* The statements of a whole request, and what is left of them.
Plans == {ListPlan, DetailPlan, <<"overall">>, <<"overall", "providers">>,
          <<"overall", "models">>, <<"overall", "pairs">>, <<"days">>, ReportPlan}
Rests == {<<>>, <<"estimates", "count">>, <<"count">>, <<"estimation">>,
          <<"providers">>, <<"models">>, <<"pairs">>,
          <<"providers", "models", "days", "top">>, <<"models", "days", "top">>,
          <<"days", "top">>, <<"top">>}

\* A request starts with nothing got, and every statement of it is run once.
ReadInv ==
    /\ ReadingTypeOK
    /\ plan \in [Readers -> Plans \cup Rests]
    /\ DOMAIN got = Readers
    /\ \A r \in Readers : plan[r] \in Plans => DOMAIN got[r] = {}
    /\ \A r \in Readers : Reading(r) \/ DOMAIN got[r] # {} => query[r] \in Requests

\* What is left when the first statement of a plan has been run.
Runs(p) ==
    /\ Tail(p) \in Rests
    /\ Head(p) \in Statements
    /\ Head(p) = "page" =>
          p \in Plans /\ Tail(p) = <<"estimates", "count">> /\ Tail(Tail(p)) = <<"count">>
    /\ Head(p) = "estimates" => p = <<"estimates", "count">> /\ Tail(p) = <<"count">>
    /\ Head(p) = "call" => p \in Plans
    /\ Head(p) = "count" => p = <<"count">>

\* Every request ends with a rest that is its own, and never repeats a page, a
\* call or a count.
LEMMA PlanSteps ==
    ASSUME NEW p \in Plans \cup Rests, p # <<>> PROVE Runs(p)
  <1> USE DEF Runs, Statements, Rests
  <1>1. CASE p = ListPlan
    BY <1>1 DEF ListPlan, Plans
  <1>2. CASE p = DetailPlan
    BY <1>2 DEF DetailPlan, Plans
  <1>3. CASE p \in {<<"overall">>, <<"overall", "providers">>,
                    <<"overall", "models">>, <<"overall", "pairs">>}
    <2>1. CASE p = <<"overall">>
      BY <2>1 DEF Plans
    <2>2. CASE p = <<"overall", "providers">>
      BY <2>2 DEF Plans
    <2>3. CASE p = <<"overall", "models">>
      BY <2>3 DEF Plans
    <2>4. CASE p = <<"overall", "pairs">>
      BY <2>4 DEF Plans
    <2> QED
      BY <1>3, <2>1, <2>2, <2>3, <2>4
  <1>4. CASE p = <<"days">>
    BY <1>4 DEF Plans
  <1>5. CASE p = ReportPlan
    BY <1>5 DEF ReportPlan, Plans
  <1>6. CASE p = <<"count">>
    BY <1>6
  <1>7. CASE p = <<"estimation">>
    BY <1>7
  <1>8. CASE p \in {<<"providers">>, <<"models">>, <<"pairs">>, <<"estimates", "count">>}
    <2>1. CASE p = <<"providers">>
      BY <2>1
    <2>2. CASE p = <<"models">>
      BY <2>2
    <2>3. CASE p = <<"pairs">>
      BY <2>3
    <2>4. CASE p = <<"estimates", "count">>
      BY <2>4
    <2> QED
      BY <1>8, <2>1, <2>2, <2>3, <2>4
  <1>9. CASE p = <<"providers", "models", "days", "top">>
    BY <1>9
  <1>10. CASE p = <<"models", "days", "top">>
    BY <1>10
  <1>11. CASE p = <<"days", "top">>
    BY <1>11
  <1>12. CASE p = <<"top">>
    BY <1>12
  <1> QED
    BY <1>1, <1>2, <1>3, <1>4, <1>5, <1>6, <1>7, <1>8, <1>9, <1>10, <1>11, <1>12 DEF Plans

\* Plans are sequences of statements.
LEMMA PlanType ==
    ASSUME NEW p \in Plans \cup Rests PROVE p \in Seq(Statements)
  <1> USE DEF Statements
  <1>1. ListPlan \in Seq(Statements)
    BY DEF ListPlan
  <1>2. DetailPlan \in Seq(Statements)
    BY DEF DetailPlan
  <1>3. /\ <<"overall">> \in Seq(Statements) /\ <<"overall", "providers">> \in Seq(Statements)
        /\ <<"overall", "models">> \in Seq(Statements)
        /\ <<"overall", "pairs">> \in Seq(Statements)
    OBVIOUS
  <1>4. <<"days">> \in Seq(Statements)
    OBVIOUS
  <1>5. ReportPlan \in Seq(Statements)
    BY DEF ReportPlan
  <1>6. <<"count">> \in Seq(Statements)
    OBVIOUS
  <1>7. <<"estimation">> \in Seq(Statements)
    OBVIOUS
  <1>8. /\ <<"providers">> \in Seq(Statements) /\ <<"models">> \in Seq(Statements)
        /\ <<"pairs">> \in Seq(Statements) /\ <<"estimates", "count">> \in Seq(Statements)
    OBVIOUS
  <1>9. <<"providers", "models", "days", "top">> \in Seq(Statements)
    OBVIOUS
  <1>10. <<"models", "days", "top">> \in Seq(Statements)
    OBVIOUS
  <1>11. <<"days", "top">> \in Seq(Statements)
    OBVIOUS
  <1>12. <<"top">> \in Seq(Statements)
    OBVIOUS
  <1>13. <<>> \in Seq(Statements)
    OBVIOUS
  <1> QED
    BY <1>1, <1>2, <1>3, <1>4, <1>5, <1>6, <1>7, <1>8, <1>9, <1>10, <1>11, <1>12, <1>13
       DEF Plans, Rests

\* A query that can be asked has a plan.
LEMMA PlanOf ==
    ASSUME NEW q \in Requests, Valid(q) PROVE Plan(q) \in Plans
  <1>1. q.kind \in {"list", "detail", "summary", "timeseries", "report"}
    BY DEF Requests
  <1>2. CASE q.kind = "summary"
    <2>1. q.group \in {Null, "provider", "model", "provider_model"}
      BY <1>2 DEF Valid
    <2> QED
      BY <1>2, <2>1 DEF Plan, Plans, SummaryPlan
  <1>3. CASE q.kind # "summary"
    BY <1>1, <1>3 DEF Plan, Plans
  <1> QED
    BY <1>2, <1>3

\* What is left of a plan when its first statement has been run.
LEMMA PlanLeft ==
    ASSUME NEW p \in Plans \cup Rests, p # <<>>, NEW x
    PROVE  Head(p) \in Statements /\ Left(p, x) \in Rests
  <1>1. Runs(p)
    BY PlanSteps
  <1>2. <<>> \in Rests /\ <<"count">> \in Rests
    BY DEF Rests
  <1> QED
    BY <1>1, <1>2 DEF Runs, Left

\* What a statement does to the request it belongs to.
Executed(r, s, x) ==
    /\ s = Head(plan[r]) /\ plan[r] # <<>> /\ x \in Results(r, s)
    /\ DOMAIN got' = Readers
    /\ DOMAIN got'[r] = DOMAIN got[r] \cup {s}
    /\ got'[r][s] = x
    /\ \A t \in DOMAIN got[r] : t # s => got'[r][t] = got[r][t]
    /\ plan'[r] = Left(plan[r], x)
    /\ seen'[r] = IF s = "page" THEN seen[r] \cup x ELSE seen[r]
    /\ since'[r] = IF s = "page" /\ query[r].offset = 0 THEN Rows(r) ELSE since[r]
    /\ \A q \in Readers : q # r => /\ got'[q] = got[q] /\ plan'[q] = plan[q]
                                   /\ seen'[q] = seen[q] /\ since'[q] = since[q]
    /\ plan' \in [Readers -> Plans \cup Rests]
    /\ seen' \in [Readers -> SUBSET Calls] /\ since' \in [Readers -> SUBSET Calls]
    /\ UNCHANGED <<backend, stamps, committed, query>>

\* Execute does that for some statement and some result of it.
LEMMA Executes ==
    ASSUME ReadInv, NEW r \in Readers, Execute(r)
    PROVE  \E s \in Statements : \E x : Executed(r, s, x)
  <1> DEFINE s == Head(plan[r])
  <1>1. PICK x \in Results(r, s) :
          /\ got' = [got EXCEPT ![r] = [t \in DOMAIN got[r] \cup {s} |->
                                           IF t = s THEN x ELSE got[r][t]]]
          /\ plan' = [plan EXCEPT ![r] = Left(plan[r], x)]
          /\ seen' = IF s = "page" THEN [seen EXCEPT ![r] = seen[r] \cup x] ELSE seen
          /\ since' = IF s = "page" /\ query[r].offset = 0
                      THEN [since EXCEPT ![r] = Rows(r)] ELSE since
    BY Zenon DEF Execute
  <1>2. plan[r] # <<>> /\ UNCHANGED <<backend, stamps, committed, query>>
    BY DEF Execute, Reading
  <1>3. s \in Statements /\ Left(plan[r], x) \in Rests
    BY <1>2, PlanLeft, Zenon DEF ReadInv
  <1>4. /\ seen \in [Readers -> SUBSET Calls] /\ since \in [Readers -> SUBSET Calls]
        /\ plan \in [Readers -> Plans \cup Rests] /\ DOMAIN got = Readers
    BY DEF ReadInv, ReadingTypeOK
  <1>5. s = "page" => x \in SUBSET Calls
    BY <1>1 DEF Results, Page, Rows
  <1>6. Rows(r) \in SUBSET Calls
    BY DEF Rows
  <1> HIDE DEF s
  <1>7. DOMAIN got' = Readers /\ DOMAIN got'[r] = DOMAIN got[r] \cup {s} /\ got'[r][s] = x
        /\ \A t \in DOMAIN got[r] : t # s => got'[r][t] = got[r][t]
    BY <1>1, <1>4
  <1>8. /\ plan'[r] = Left(plan[r], x)
        /\ seen'[r] = IF s = "page" THEN seen[r] \cup x ELSE seen[r]
        /\ since'[r] = IF s = "page" /\ query[r].offset = 0 THEN Rows(r) ELSE since[r]
    BY <1>1, <1>4
  <1>9. \A q \in Readers : q # r => /\ got'[q] = got[q] /\ plan'[q] = plan[q]
                                    /\ seen'[q] = seen[q] /\ since'[q] = since[q]
    BY <1>1, <1>4
  <1>10. plan' \in [Readers -> Plans \cup Rests]
    BY <1>1, <1>3, <1>4, <1>6
  <1>11. seen' \in [Readers -> SUBSET Calls] /\ since' \in [Readers -> SUBSET Calls]
    BY <1>1, <1>4, <1>5, <1>6
  <1>12. Executed(r, s, x)
    BY <1>1, <1>2, <1>7, <1>8, <1>9, <1>10, <1>11 DEF Executed, s
  <1> QED
    BY <1>3, <1>12

\* Nobody has asked for anything yet.
LEMMA ReadInit == ReadingInit => ReadInv
  <1> SUFFICES ASSUME ReadingInit PROVE ReadInv
    OBVIOUS
  <1>1. <<>> \in Rests /\ <<>> \notin Plans
    BY DEF Rests, Plans, ListPlan, DetailPlan, ReportPlan
  <1>2. IsInjective(<<>>)
    BY DEF IsInjective
  <1>3. ReadingTypeOK
    BY <1>2 DEF ReadingInit, ReadingTypeOK, Nothing
  <1> QED
    BY <1>1, <1>3 DEF ReadingInit, ReadInv, Reading, Nothing

\* A timestamp is given once and is never taken back.
LEMMA Inserts ==
    ASSUME ReadInv, NEW c \in Calls, Insert(c)
    PROVE  /\ stamps' \in Seq(Calls) /\ IsInjective(stamps')
           /\ ToSet(stamps') = ToSet(stamps) \cup {c}
           /\ Len(stamps) \in Nat /\ Len(stamps') = Len(stamps) + 1
           /\ DOMAIN stamps = 1..Len(stamps) /\ DOMAIN stamps' = 1..(Len(stamps) + 1)
           /\ stamps'[Len(stamps) + 1] = c
           /\ \A i \in 1..Len(stamps) : stamps'[i] = stamps[i]
  <1>1. stamps \in Seq(Calls) /\ stamps' = Append(stamps, c) /\ c \notin ToSet(stamps)
    BY DEF Insert, ReadInv, ReadingTypeOK
  <1>2. IsInjective(stamps)
    BY DEF ReadInv, ReadingTypeOK
  <1>3. /\ stamps' \in Seq(Calls) /\ Len(stamps) \in Nat /\ Len(stamps') = Len(stamps) + 1
        /\ DOMAIN stamps = 1..Len(stamps) /\ DOMAIN stamps' = 1..(Len(stamps) + 1)
        /\ stamps'[Len(stamps) + 1] = c
        /\ \A i \in 1..Len(stamps) : stamps'[i] = stamps[i]
    BY <1>1
  <1>4. 1..(Len(stamps) + 1) = (1..Len(stamps)) \cup {Len(stamps) + 1}
    BY <1>3
  <1>5. ToSet(stamps') = ToSet(stamps) \cup {c}
    BY <1>3, <1>4 DEF ToSet
  <1>6. \A i \in 1..Len(stamps) : stamps[i] # c
    BY <1>1, <1>3 DEF ToSet
  <1>7. IsInjective(stamps')
    BY <1>2, <1>3, <1>4, <1>6 DEF IsInjective
  <1> QED
    BY <1>3, <1>5, <1>7

\* Every step keeps the shape of the requests that are under way.
LEMMA ReadStep == ReadInv /\ [ReadingNext]_readingVars => ReadInv'
  <1> SUFFICES ASSUME ReadInv, [ReadingNext]_readingVars PROVE ReadInv'
    OBVIOUS
  <1>1. ASSUME NEW c \in Calls, Insert(c) PROVE ReadInv'
    <2>1. UNCHANGED <<backend, committed, query, plan, got, seen, since>>
      BY <1>1 DEF Insert
    <2>2. stamps' \in Seq(Calls) /\ IsInjective(stamps') /\ ToSet(stamps') = ToSet(stamps) \cup {c}
      BY <1>1, Inserts
    <2> QED
      BY <2>1, <2>2 DEF ReadInv, ReadingTypeOK, Reading
  <1>2. ASSUME NEW c \in Calls, Commit(c) PROVE ReadInv'
    BY <1>2 DEF Commit, Open, ReadInv, ReadingTypeOK, Reading
  <1>3. ASSUME NEW r \in Readers, NEW q \in Queries, Ask(r, q) PROVE ReadInv'
    <2>1. q \in Requests /\ Plan(q) \in Plans
      BY <1>3, ReadingAssumption, PlanOf DEF Ask
    <2>2. /\ query' = [query EXCEPT ![r] = q]
          /\ plan' = [plan EXCEPT ![r] = Plan(q)]
          /\ got' = [got EXCEPT ![r] = Nothing]
          /\ seen' = [seen EXCEPT ![r] = {}]
          /\ since' = [since EXCEPT ![r] = {}]
          /\ UNCHANGED <<backend, stamps, committed>>
      BY <1>3 DEF Ask
    <2>3. DOMAIN Nothing = {}
      BY DEF Nothing
    <2>4. plan' \in [Readers -> Plans \cup Rests]
      BY <2>1, <2>2 DEF ReadInv
    <2>5. ReadingTypeOK'
      BY <2>1, <2>2, <2>3, <2>4, PlanType DEF ReadInv, ReadingTypeOK
    <2> QED
      BY <2>1, <2>2, <2>3, <2>4, <2>5 DEF ReadInv, ReadingTypeOK, Reading
  <1>4. ASSUME NEW r \in Readers, NextPage(r) PROVE ReadInv'
    <2>1. /\ query' = [query EXCEPT ![r] = [query[r] EXCEPT !.offset = query[r].offset + Limit]]
          /\ plan' = [plan EXCEPT ![r] = ListPlan]
          /\ got' = [got EXCEPT ![r] = Nothing]
          /\ UNCHANGED <<backend, stamps, committed, seen, since>>
      BY <1>4 DEF NextPage
    <2>2. query[r] \in Requests
      BY <1>4 DEF NextPage, Listed, ReadInv
    <2>3. query'[r] \in Requests
      <3>1. query[r].offset \in Nat
        BY <2>2 DEF Requests
      <3>2. query[r].offset + Limit \in Nat
        BY <3>1, ReadingAssumption
      <3>3. [query[r] EXCEPT !.offset = query[r].offset + Limit] \in Requests
        BY <2>2, <3>2 DEF Requests
      <3> QED
        BY <2>1, <3>3 DEF ReadInv, ReadingTypeOK
    <2>4. DOMAIN Nothing = {}
      BY DEF Nothing
    <2>5. plan' \in [Readers -> Plans \cup Rests]
      BY <2>1 DEF ReadInv, Plans
    <2>6. ReadingTypeOK'
      BY <2>1, <2>3, <2>4, <2>5, PlanType DEF ReadInv, ReadingTypeOK
    <2> QED
      BY <2>1, <2>3, <2>4, <2>5, <2>6 DEF ReadInv, ReadingTypeOK, Reading
  <1>5. ASSUME NEW r \in Readers, Execute(r) PROVE ReadInv'
    <2>1. PICK s \in Statements : \E x : Executed(r, s, x)
      BY <1>5, Executes
    <2>2. PICK x : Executed(r, s, x)
      BY <2>1
    <2>3. plan[r] # <<>> /\ query[r] \in Requests
      BY <2>2 DEF Executed, ReadInv, Reading
    <2>4. plan'[r] \in Rests
      <3>1. Left(plan[r], x) \in Rests
        BY <2>3, PlanLeft DEF ReadInv
      <3> QED
        BY <2>2, <3>1 DEF Executed
    <2>5. \A p \in Rests : p \notin Plans
      BY DEF Rests, Plans, ListPlan, DetailPlan, ReportPlan
    <2>6. ReadingTypeOK'
      BY <2>2, PlanType DEF Executed, ReadInv, ReadingTypeOK
    <2> QED
      BY <2>2, <2>3, <2>4, <2>5, <2>6 DEF Executed, ReadInv, Reading
  <1>6. CASE UNCHANGED readingVars
    BY <1>6 DEF readingVars, ReadInv, ReadingTypeOK, Reading
  <1> QED
    BY <1>1, <1>2, <1>3, <1>4, <1>5, <1>6 DEF ReadingNext

\* Queries, plans and results stay what list_calls and its sisters make them.
THEOREM ReadingTypeCorrect == ReadingSpec => []ReadingTypeOK
  <1>1. ReadInv => ReadingTypeOK
    BY DEF ReadInv
  <1> QED
    BY <1>1, ReadInit, ReadStep, PTL DEF ReadingSpec
-----------------------------------------------------------------------------
\* The steps of the others leave a request, and the rows it may not see
\* disappear, alone; what its own step does to what is got.
LEMMA ReadSteps ==
    ASSUME ReadInv, [ReadingNext]_readingVars
    PROVE  \/ /\ UNCHANGED <<query, got, plan, seen, since>>
              /\ committed \subseteq committed'
           \/ \E r \in Readers :
                /\ DOMAIN got' = Readers
                /\ DOMAIN got'[r] = {}
                /\ \A q \in Readers : q # r => query'[q] = query[q] /\ got'[q] = got[q]
                /\ UNCHANGED committed
           \/ \E r \in Readers, s \in Statements : \E x : Executed(r, s, x)
  <1>1. ASSUME NEW c \in Calls, Insert(c) \/ Commit(c)
        PROVE  UNCHANGED <<query, got, plan, seen, since>> /\ committed \subseteq committed'
    BY <1>1 DEF Insert, Commit
  <1>2. ASSUME NEW r \in Readers, (\E q \in Queries : Ask(r, q)) \/ NextPage(r)
        PROVE  /\ DOMAIN got' = Readers
               /\ DOMAIN got'[r] = {}
               /\ \A q \in Readers : q # r => query'[q] = query[q] /\ got'[q] = got[q]
               /\ UNCHANGED committed
    <2>1. DOMAIN Nothing = {}
      BY DEF Nothing
    <2>2. got' = [got EXCEPT ![r] = Nothing] /\ UNCHANGED committed
      BY <1>2 DEF Ask, NextPage
    <2>3. \A q \in Readers : q # r => query'[q] = query[q]
      BY <1>2 DEF Ask, NextPage, ReadInv, ReadingTypeOK
    <2> QED
      BY <2>1, <2>2, <2>3 DEF ReadInv
  <1>3. ASSUME NEW r \in Readers, Execute(r)
        PROVE  \E s \in Statements : \E x : Executed(r, s, x)
    BY <1>3, Executes
  <1>4. CASE UNCHANGED readingVars
    BY <1>4 DEF readingVars
  <1> QED
    BY <1>1, <1>2, <1>3, <1>4 DEF ReadingNext

\* A call that was found stays committed, and its estimate with it.
Found(r) ==
    "call" \in DOMAIN got[r] /\ got[r]["call"] # Null =>
        /\ got[r]["call"] = query[r].call /\ query[r].call \in committed
        /\ "estimation" \in DOMAIN got[r] =>
              got[r]["estimation"] = Data[query[r].call].estimated

\* So do those of a page.
PageFound(r) ==
    "page" \in DOMAIN got[r] =>
        /\ got[r]["page"] \subseteq committed
        /\ "estimates" \in DOMAIN got[r] =>
              got[r]["estimates"] = [c \in got[r]["page"] |-> Data[c].estimated]

DetailInv == \A r \in Readers : Found(r) /\ PageFound(r)

\* What a detail has found is not lost before its estimation is looked up.
LEMMA DetailStep ==
    ReadInv /\ DetailInv /\ [ReadingNext]_readingVars => DetailInv'
  <1> SUFFICES ASSUME ReadInv, DetailInv, [ReadingNext]_readingVars PROVE DetailInv'
    OBVIOUS
  <1>1. CASE UNCHANGED <<query, got, plan, seen, since>> /\ committed \subseteq committed'
    BY <1>1 DEF DetailInv, Found, PageFound
  <1>2. ASSUME NEW r \in Readers, DOMAIN got'[r] = {}, UNCHANGED committed,
               \A q \in Readers : q # r => query'[q] = query[q] /\ got'[q] = got[q]
        PROVE  DetailInv'
    BY <1>2 DEF DetailInv, Found, PageFound
  <1>3. ASSUME NEW r \in Readers, NEW s \in Statements, NEW x, Executed(r, s, x)
        PROVE  DetailInv'
    <2>0. DOMAIN got'[r] = DOMAIN got[r] \cup {s} /\ UNCHANGED <<query, committed>>
      BY <1>3 DEF Executed
    <2>1. ASSUME NEW q \in Readers, q # r PROVE Found(q)' /\ PageFound(q)'
      BY <1>3, <2>1 DEF Executed, DetailInv, Found, PageFound
    <2>2. ASSUME "call" \in DOMAIN got'[r], got'[r]["call"] # Null
          PROVE  /\ got'[r]["call"] = query'[r].call /\ query'[r].call \in committed'
                 /\ "estimation" \in DOMAIN got'[r] =>
                       got'[r]["estimation"] = Data[query'[r].call].estimated
      <3>1. CASE s = "call"
        <4>1. Runs(plan[r])
          BY <1>3, PlanSteps DEF Executed, ReadInv
        <4>2. DOMAIN got[r] = {}
          BY <1>3, <3>1, <4>1 DEF Executed, ReadInv, Runs
        <4>3. DOMAIN got'[r] = {"call"} /\ got'[r]["call"] = x
          BY <1>3, <3>1, <4>2 DEF Executed
        <4>4. x \in {IF Matches(r, query[r].call) THEN query[r].call ELSE Null}
          BY <1>3, <3>1 DEF Executed, Results
        <4>5. x = query[r].call /\ query[r].call \in committed
          BY <2>2, <4>3, <4>4 DEF Matches
        <4> QED
          BY <1>3, <4>3, <4>5 DEF Executed
      <3>2. CASE s = "estimation"
        <4>1. "call" \in DOMAIN got[r] /\ got[r]["call"] = got'[r]["call"]
              /\ got'[r]["estimation"] = x
          BY <1>3, <2>2, <3>2 DEF Executed
        <4>2. x \in {IF query[r].call \in committed
                     THEN Data[query[r].call].estimated ELSE Null}
          BY <1>3, <3>2 DEF Executed, Results
        <4> QED
          BY <1>3, <2>2, <4>1, <4>2 DEF Executed, DetailInv, Found
      <3>3. CASE s \notin {"call", "estimation"}
        BY <1>3, <2>2, <3>3 DEF Executed, DetailInv, Found
      <3> QED
        BY <3>1, <3>2, <3>3
    <2>3. ASSUME "page" \in DOMAIN got'[r]
          PROVE  /\ got'[r]["page"] \subseteq committed
                 /\ "estimates" \in DOMAIN got'[r] =>
                       got'[r]["estimates"] = [c \in got'[r]["page"] |-> Data[c].estimated]
      <3>1. CASE s = "page"
        <4>1. Runs(plan[r])
          BY <1>3, PlanSteps DEF Executed, ReadInv
        <4>2. DOMAIN got[r] = {}
          BY <1>3, <3>1, <4>1 DEF Executed, ReadInv, Runs
        <4>3. x \in {Page(r)} /\ got'[r]["page"] = x
          BY <1>3, <3>1 DEF Executed, Results
        <4>4. Page(r) \subseteq committed
          BY DEF Page, Rows, Matches
        <4> QED
          BY <2>0, <3>1, <4>2, <4>3, <4>4
      <3>2. CASE s = "estimates"
        <4>1. /\ "page" \in DOMAIN got[r] /\ got'[r]["page"] = got[r]["page"]
              /\ got'[r]["estimates"] = x
          BY <1>3, <2>3, <3>2 DEF Executed
        <4>2. x \in {[c \in got[r]["page"] |->
                         IF c \in committed THEN Data[c].estimated ELSE Null]}
          BY <1>3, <3>2 DEF Executed, Results
        <4>3. got[r]["page"] \subseteq committed
          BY <4>1 DEF DetailInv, PageFound
        <4> QED
          BY <4>1, <4>2, <4>3
      <3>3. CASE s \notin {"page", "estimates"}
        BY <1>3, <2>3, <3>3 DEF Executed, DetailInv, PageFound
      <3> QED
        BY <3>1, <3>2, <3>3
    <2> QED
      BY <2>0, <2>1, <2>2, <2>3 DEF DetailInv, Found, PageFound
  <1> QED
    BY <1>1, <1>2, <1>3, ReadSteps

\* A detail or a page comes with the estimates of its calls, for any calls and
\* readers and whatever commits between its statements.
THEOREM DetailsAreWhole == ReadingSpec => []DetailIsWhole
  <1>1. ReadingInit => DetailInv
    BY DEF ReadingInit, DetailInv, Found, PageFound, Nothing
  <1>2. DetailInv => DetailIsWhole
    BY DEF DetailInv, Found, PageFound, DetailIsWhole
  <1> QED
    BY <1>1, <1>2, ReadInit, ReadStep, DetailStep, PTL DEF ReadingSpec
-----------------------------------------------------------------------------
(* Aggregates *)

\* That a discrepancy is at least k is a linear fact about what it compares.
LEMMA DiscrepancyAtLeast ==
    ASSUME NEW r \in Int, NEW e \in Nat \ {0}, NEW k \in Int
    PROVE  /\ Nearest(10000 * (r - e), e) \in Int
           /\ Nearest(10000 * (r - e), e) >= k <=> 20000 * r + (-(19999 + 2 * k)) * e >= 0
  <1> DEFINE i == 2 * (10000 * (r - e)) + e
             n == 2 * e
  <1>1. i \in Int /\ n \in Nat \ {0}
    OBVIOUS
  <1>2. Nearest(10000 * (r - e), e) = i \div n
    BY DEF Nearest
  <1>3. i \div n \in Int
    BY <1>1, DivBounds
  <1>4. i \div n >= k <=> i >= n * k
    <2> HIDE DEF i, n
    <2> QED
      BY <1>1, DivAtLeast
  <1>5. i - n * k = 20000 * r + (-(19999 + 2 * k)) * e
    BY SMTT(30)
  <1>6. n * k \in Int /\ 20000 * r + (-(19999 + 2 * k)) * e \in Int
    BY <1>1
  <1> HIDE DEF i, n
  <1> DEFINE j == 20000 * r + (-(19999 + 2 * k)) * e
  <1>7. i - n * k = j /\ j \in Int
    BY <1>5, <1>6
  <1> HIDE DEF j
  <1>8. i \div n >= k <=> j >= 0
    BY <1>1, <1>4, <1>6, <1>7
  <1> QED
    BY <1>2, <1>3, <1>8 DEF j

\* The discrepancy of a sum lies among those of its terms: the sum of what is
\* not negative is not negative, and of what is negative is negative.
LEMMA AggregateBetween ==
    ASSUME NEW S \in SUBSET Calls, S # {},
           \A c \in S : HasEstimate(c) /\ Data[c].estimated > 0
    PROVE  LET D == {Discrepancy(c) : c \in S}
           IN  Min(D) <= Aggregate(S).discrepancy /\ Aggregate(S).discrepancy <= Max(D)
  <1> DEFINE D == {Discrepancy(c) : c \in S}
             r == SumFunctionOnSet(Reported, S)
             e == SumFunctionOnSet(Estimated, S)
             d == Nearest(10000 * (r - e), e)
             H(k) == [c \in S |-> 20000 * Reported[c] + (-(19999 + 2 * k)) * Estimated[c]]
  <1>1. /\ IsFiniteSet(S)
        /\ \A c \in S : /\ Reported[c] = Data[c].reported /\ Estimated[c] = Data[c].estimated
                        /\ Reported[c] \in Nat /\ Estimated[c] \in Nat \ {0}
    BY ReadingAssumption, FS_Subset DEF Reported, Estimated, HasEstimate
  <1>2. \A c \in S : Discrepancy(c) = Nearest(10000 * (Reported[c] - Estimated[c]), Estimated[c])
    BY <1>1 DEF Discrepancy
  <1>3. \A c \in S : Discrepancy(c) \in Int
    BY <1>1, <1>2, DiscrepancyAtLeast
  <1>4. r \in Int /\ e \in Int
    BY <1>1, SumIsInt
  <1>5. ASSUME NEW k \in Int
        PROVE  /\ \A c \in S : H(k)[c] \in Int
               /\ SumFunctionOnSet(H(k), S) = 20000 * r + (-(19999 + 2 * k)) * e
    <2> DEFINE b == -(19999 + 2 * k)
    <2>1. b \in Int
      OBVIOUS
    <2> HIDE DEF b
    <2> DEFINE G == [c \in S |-> 20000 * Reported[c] + b * Estimated[c]]
    <2>2. \A c \in S : /\ Reported[c] \in Int /\ Estimated[c] \in Int
                       /\ G[c] = 20000 * Reported[c] + b * Estimated[c]
      BY <1>1
    <2>3. \A c \in S : G[c] \in Int
      BY <2>1, <2>2
    <2> HIDE DEF G
    <2>4. SumFunctionOnSet(G, S) = 20000 * SumFunctionOnSet(Reported, S)
                                   + b * SumFunctionOnSet(Estimated, S)
      BY <1>1, <2>1, <2>2, SumCombines
    <2> QED
      BY <2>3, <2>4 DEF G, b
  <1>6. e > 0
    <2> DEFINE G == [c \in S |-> 0 * Reported[c] + (-1) * Estimated[c]]
    <2>1. \A c \in S : /\ Reported[c] \in Int /\ Estimated[c] \in Int /\ Estimated[c] > 0
                       /\ G[c] = 0 * Reported[c] + (-1) * Estimated[c]
      BY <1>1
    <2> HIDE DEF G
    <2>2. \A c \in S : G[c] \in Int /\ G[c] < 0
      BY <2>1
    <2>3. SumFunctionOnSet(G, S) < 0
      BY <1>1, <2>2, SumSign
    <2>4. SumFunctionOnSet(G, S) = 0 * SumFunctionOnSet(Reported, S)
                                   + (-1) * SumFunctionOnSet(Estimated, S)
      BY <1>1, <2>1, SumCombines
    <2> HIDE DEF r, e
    <2>5. SumFunctionOnSet(G, S) = 0 * r + (-1) * e
      BY <2>4 DEF r, e
    <2> QED
      BY <1>4, <2>3, <2>5
  <1>7. Aggregate(S).discrepancy = d
    <2>1. {c \in S : HasEstimate(c)} = S
      OBVIOUS
    <2> QED
      BY <1>6, <2>1 DEF Aggregate
  <1>8. D \in SUBSET Int /\ IsFiniteSet(D) /\ D # {}
    <2> DEFINE f == [c \in S |-> Discrepancy(c)]
    <2> HIDE DEF D, f
    <2>1. IsFiniteSet({f[c] : c \in S})
      BY <1>1, ImageIsFinite
    <2>2. D = {f[c] : c \in S}
      BY DEF D, f
    <2>3. D \in SUBSET Int /\ D # {}
      BY <1>3 DEF D
    <2> QED
      BY <2>1, <2>2, <2>3
  <1>9. /\ Min(D) \in D /\ \A x \in D : Min(D) <= x
        /\ Max(D) \in D /\ \A x \in D : Max(D) >= x
    <2> HIDE DEF D
    <2> QED
      BY <1>8, ExtremesOf DEF Min, Max
  <1>10. Min(D) \in Int /\ Max(D) \in Int
    <2> HIDE DEF D
    <2> QED
      BY <1>8, <1>9
  <1>11. ASSUME NEW k \in Int, NEW c \in S PROVE Discrepancy(c) >= k <=> H(k)[c] >= 0
    BY <1>1, <1>2, DiscrepancyAtLeast
  <1>12. ASSUME NEW k \in Int PROVE d >= k <=> SumFunctionOnSet(H(k), S) >= 0
    <2> HIDE DEF r, e
    <2>1. e \in Nat \ {0}
      BY <1>4, <1>6
    <2> QED
      BY <1>4, <1>5, <2>1, DiscrepancyAtLeast
  <1>13. d \in Int
    <2> HIDE DEF r, e
    <2> QED
      BY <1>4, <1>6, DiscrepancyAtLeast
  <1> HIDE DEF d, H
  <1>14. Min(D) <= d
    <2>1. \A c \in S : Discrepancy(c) >= Min(D)
      BY <1>3, <1>9, <1>10
    <2>2. \A c \in S : H(Min(D))[c] >= 0
      BY <1>10, <1>11, <2>1
    <2>3. SumFunctionOnSet(H(Min(D)), S) >= 0
      BY <1>1, <1>5, <1>10, <2>2, SumSign
    <2> QED
      BY <1>10, <1>12, <1>13, <2>3
  <1>15. d <= Max(D)
    <2> DEFINE k == Max(D) + 1
    <2>1. k \in Int /\ \A c \in S : ~(Discrepancy(c) >= k)
      <3>1. \A c \in S : Discrepancy(c) \in Int /\ Max(D) >= Discrepancy(c)
        BY <1>3, <1>9
      <3> QED
        BY <1>10, <3>1
    <2>2. \A c \in S : H(k)[c] \in Int /\ ~(H(k)[c] >= 0)
      <3> HIDE DEF k
      <3> QED
        BY <1>5, <1>11, <2>1
    <2>3. SumFunctionOnSet(H(k), S) \in Int /\ SumFunctionOnSet(H(k), S) < 0
      <3> HIDE DEF k
      <3>1. \A c \in S : H(k)[c] < 0
        BY <2>2
      <3> QED
        BY <1>1, <2>2, <3>1, SumSign, SumIsInt
    <2>4. ~(d >= k)
      <3> HIDE DEF k
      <3> QED
        BY <1>12, <2>1, <2>3
    <2> QED
      BY <1>10, <1>13, <2>4
  <1> QED
    BY <1>7, <1>14, <1>15

\* What a summary or a report calls the total is the aggregate of its rows.
OverallInv ==
    \A r \in Readers : "overall" \in DOMAIN got[r] =>
        /\ got[r]["overall"].rows \in SUBSET Calls
        /\ got[r]["overall"].all = Aggregate(got[r]["overall"].rows)

\* Only the statement of the total makes one.
LEMMA OverallStep ==
    ReadInv /\ OverallInv /\ [ReadingNext]_readingVars => OverallInv'
  <1> SUFFICES ASSUME ReadInv, OverallInv, [ReadingNext]_readingVars PROVE OverallInv'
    OBVIOUS
  <1>1. CASE UNCHANGED got
    BY <1>1 DEF OverallInv, Aggregate
  <1>2. ASSUME NEW r \in Readers, DOMAIN got'[r] = {},
               \A q \in Readers : q # r => got'[q] = got[q]
        PROVE  OverallInv'
    BY <1>2 DEF OverallInv
  <1>3. ASSUME NEW r \in Readers, NEW s \in Statements, NEW x, Executed(r, s, x)
        PROVE  OverallInv'
    <2>1. ASSUME s = "overall" PROVE x.rows \in SUBSET Calls /\ x.all = Aggregate(x.rows)
      <3>1. x = Overall(r)
        BY <1>3, <2>1 DEF Executed, Results
      <3> QED
        BY <3>1 DEF Overall, Rows
    <2> QED
      BY <1>3, <2>1 DEF Executed, OverallInv
  <1> QED
    BY <1>1, <1>2, <1>3, ReadSteps

\* The aggregate discrepancy that is shown lies among those of the calls it is
\* about, however many, if all were estimated and none at 0 tokens.
THEOREM AggregatesLieBetween == ReadingSpec => []AggregateIsBetween
  <1>1. ReadingInit => OverallInv
    BY DEF ReadingInit, OverallInv, Nothing
  <1>2. OverallInv => AggregateIsBetween
    BY AggregateBetween DEF OverallInv, AggregateIsBetween
  <1> QED
    BY <1>1, <1>2, ReadInit, ReadStep, OverallStep, PTL DEF ReadingSpec
-----------------------------------------------------------------------------
(* Pages *)

\* In a sequence without repetitions an element has one position.
LEMMA StampOf ==
    ASSUME NEW s \in Seq(Calls), IsInjective(s), NEW i \in DOMAIN s
    PROVE  (CHOOSE j \in DOMAIN s : s[j] = s[i]) = i
  BY DEF IsInjective

\* The timestamp of a call is the place it was given.
LEMMA Stamps ==
    ASSUME ReadInv, NEW c \in ToSet(stamps)
    PROVE  Stamp(c) \in DOMAIN stamps /\ Stamp(c) \in Nat /\ stamps[Stamp(c)] = c
  <1>1. stamps \in Seq(Calls) /\ IsInjective(stamps)
    BY DEF ReadInv, ReadingTypeOK
  <1>2. PICK i \in DOMAIN stamps : stamps[i] = c
    BY DEF ToSet
  <1>3. Stamp(c) = i
    BY <1>1, <1>2, StampOf DEF Stamp
  <1>4. i \in Nat
    BY <1>1, <1>2
  <1> QED
    BY <1>2, <1>3, <1>4

\* Later calls leave the timestamps of earlier ones alone.
LEMMA StampKept ==
    ASSUME ReadInv, [ReadingNext]_readingVars, NEW d \in ToSet(stamps)
    PROVE  Stamp(d)' = Stamp(d)
  <1>1. ASSUME NEW c \in Calls, Insert(c) PROVE Stamp(d)' = Stamp(d)
    <2>1. /\ stamps' \in Seq(Calls) /\ IsInjective(stamps')
          /\ DOMAIN stamps = 1..Len(stamps) /\ DOMAIN stamps' = 1..(Len(stamps) + 1)
          /\ Len(stamps) \in Nat /\ \A i \in 1..Len(stamps) : stamps'[i] = stamps[i]
      BY <1>1, Inserts
    <2>2. Stamp(d) \in DOMAIN stamps /\ stamps[Stamp(d)] = d
      BY Stamps
    <2>3. Stamp(d) \in DOMAIN stamps' /\ stamps'[Stamp(d)] = d
      BY <2>1, <2>2
    <2> DEFINE i == Stamp(d)
               t == stamps'
    <2>4. t \in Seq(Calls) /\ IsInjective(t) /\ i \in DOMAIN t /\ t[i] = d
      BY <2>1, <2>3
    <2>5. (CHOOSE j \in DOMAIN t : t[j] = d) = i
      <3> HIDE DEF i, t
      <3> QED
        BY <2>4, StampOf
    <2>6. Stamp(d)' = (CHOOSE j \in DOMAIN t : t[j] = d)
      BY DEF Stamp
    <2> QED
      BY <2>5, <2>6
  <1>2. CASE UNCHANGED stamps
    BY <1>2 DEF Stamp
  <1>3. (\E c \in Calls : Insert(c)) \/ UNCHANGED stamps
    BY DEF ReadingNext, Commit, Ask, NextPage, Execute, readingVars
  <1> QED
    BY <1>1, <1>2, <1>3

\* The rows of a query are finitely many committed calls, and fewer than all of
\* them are newer than any.
LEMMA RowsAre ==
    ASSUME ReadInv, NEW r \in Readers
    PROVE  /\ Rows(r) \in SUBSET committed /\ Rows(r) \in SUBSET Calls
           /\ Rows(r) \in SUBSET ToSet(stamps) /\ IsFiniteSet(Rows(r))
           /\ Cardinality(Rows(r)) \in Nat
           /\ \A c \in Rows(r) : /\ Cardinality(Newer(r, c)) \in Nat
                                 /\ Cardinality(Newer(r, c)) < Cardinality(Rows(r))
  <1>1. Rows(r) \in SUBSET committed /\ Rows(r) \in SUBSET Calls
        /\ Rows(r) \in SUBSET ToSet(stamps)
    BY DEF Rows, Matches, ReadInv, ReadingTypeOK
  <1>2. IsFiniteSet(Rows(r))
    BY <1>1, ReadingAssumption, FS_Subset
  <1>3. ASSUME NEW c \in Rows(r)
        PROVE  /\ Cardinality(Newer(r, c)) \in Nat
               /\ Cardinality(Newer(r, c)) < Cardinality(Rows(r))
    <2>1. Stamp(c) \in Nat
      BY <1>1, Stamps
    <2>2. Newer(r, c) \in SUBSET Rows(r) /\ c \notin Newer(r, c)
      BY <2>1 DEF Newer
    <2>3. /\ IsFiniteSet(Newer(r, c)) /\ Cardinality(Newer(r, c)) \in Nat
          /\ Cardinality(Newer(r, c)) <= Cardinality(Rows(r))
          /\ Cardinality(Newer(r, c)) = Cardinality(Rows(r)) => Newer(r, c) = Rows(r)
      BY <1>2, <2>2, FS_Subset, FS_CardinalityType
    <2> QED
      BY <1>2, <2>2, <2>3, FS_CardinalityType
  <1> QED
    BY <1>1, <1>2, <1>3, FS_CardinalityType

\* Rows are only ever added, and none goes before those that were newer.
LEMMA RowsGrow ==
    ASSUME ReadInv, ReadInv', [ReadingNext]_readingVars, NEW r \in Readers,
           committed \subseteq committed',
           query'[r].provider = query[r].provider,
           query'[r].from = query[r].from, query'[r].to = query[r].to
    PROVE  \A c \in Rows(r) : /\ c \in Rows(r)'
                              /\ Cardinality(Newer(r, c))' \in Nat
                              /\ Cardinality(Newer(r, c))' >= Cardinality(Newer(r, c))
  <1> SUFFICES ASSUME NEW c \in Rows(r)
               PROVE  /\ c \in Rows(r)'
                      /\ Cardinality(Newer(r, c))' \in Nat
                      /\ Cardinality(Newer(r, c))' >= Cardinality(Newer(r, c))
    OBVIOUS
  <1>1. \A d \in Rows(r) : d \in Rows(r)'
    BY DEF Rows, Matches
  <1>2. \A d \in Rows(r) : Stamp(d)' = Stamp(d)
    BY StampKept, RowsAre
  <1>3. \A d \in Newer(r, c) : d \in Newer(r, c)'
    BY <1>1, <1>2 DEF Newer
  <1>4. IsFiniteSet(Newer(r, c)')
    <2>1. Newer(r, c)' \in SUBSET Calls
      BY DEF Newer, Rows
    <2> QED
      BY <2>1, ReadingAssumption, FS_Subset
  <1>5. Newer(r, c) \in SUBSET Newer(r, c)'
    BY <1>3
  <1> DEFINE M == Newer(r, c)
             N == Newer(r, c)'
  <1>6. Cardinality(N) \in Nat /\ Cardinality(M) \in Nat /\ Cardinality(M) <= Cardinality(N)
    <2>1. M \in SUBSET N /\ IsFiniteSet(N)
      BY <1>4, <1>5
    <2> HIDE DEF M, N
    <2> QED
      BY <2>1, FS_Subset, FS_CardinalityType
  <1> QED
    BY <1>1, <1>6

\* How long a page is.
LEMMA PageIs ==
    ASSUME ReadInv, NEW r \in Readers, query[r] \in Requests
    PROVE  /\ query[r].offset \in Nat
           /\ Cardinality(Page(r)) =
                IF Cardinality(Rows(r)) <= query[r].offset THEN 0
                ELSE IF Cardinality(Rows(r)) >= query[r].offset + Limit THEN Limit
                ELSE Cardinality(Rows(r)) - query[r].offset
  <1> DEFINE o == query[r].offset
             p == [c \in Calls |-> Stamp(c)]
             R == Rows(r)
  <1>1. o \in Nat /\ Limit \in Nat
    BY ReadingAssumption DEF Requests
  <1>2. /\ IsFiniteSet(R) /\ R \in SUBSET Calls /\ R \in SUBSET ToSet(stamps)
        /\ \A c \in R : Cardinality(Newer(r, c)) \in Nat
    BY RowsAre
  <1>3. \A c \in R : p[c] = Stamp(c) /\ p[c] \in Nat /\ stamps[p[c]] = c
    BY <1>2, Stamps
  <1>4. \A c, d \in R : p[c] = p[d] => c = d
    <2> HIDE DEF p, R
    <2> QED
      BY <1>3
  <1>5. \A c \in R : Newer(r, c) = Before(R, p, c)
    BY <1>3 DEF Newer, Before
  <1>6. Page(r) = Slice(R, p, o, Limit)
    <2>1. Page(r) = {c \in R : Cardinality(Newer(r, c)) \in o .. o + Limit - 1}
      BY DEF Page
    <2> HIDE DEF p, R, o
    <2>2. \A n \in Nat : n \in o .. o + Limit - 1 <=> o <= n /\ n < o + Limit
      BY <1>1
    <2>3. Page(r) = {c \in R : /\ o <= Cardinality(Newer(r, c))
                               /\ Cardinality(Newer(r, c)) < o + Limit}
      BY <1>2, <2>1, <2>2
    <2> QED
      BY <1>5, <2>3 DEF Slice
  <1> HIDE DEF o, p, R
  <1>7. Cardinality(Slice(R, p, o, Limit))
          = IF Cardinality(R) <= o THEN 0
            ELSE IF Cardinality(R) >= o + Limit THEN Limit ELSE Cardinality(R) - o
    <2>1. IsFiniteSet(R) /\ \A c \in R : p[c] \in Nat
      BY <1>2, <1>3
    <2> QED
      BY <1>1, <1>4, <2>1, PageLength
  <1> QED
    BY <1>1, <1>6, <1>7 DEF o, R

\* How many rows come before those that the next page starts with.
Passed(r) == IF "page" \in DOMAIN got[r] THEN query[r].offset + Limit ELSE query[r].offset

\* A row that was there at the first page and has not been shown is not before
\* the pages that have been read; a page that is not full leaves none.
Paged(r) ==
    /\ \A c \in since[r] \ seen[r] :
          /\ query[r] \in Requests /\ c \in Rows(r)
          /\ Cardinality(Newer(r, c)) >= Passed(r)
    /\ "page" \in DOMAIN got[r] /\ Cardinality(got[r]["page"]) < Limit
          => since[r] \subseteq seen[r]

PageInv == \A r \in Readers : Paged(r)

\* Offsets are natural numbers.
LEMMA PassedType ==
    ASSUME NEW r \in Readers, query[r] \in Requests PROVE Passed(r) \in Nat
  <1>1. query[r].offset \in Nat /\ Limit \in Nat
    BY ReadingAssumption DEF Requests
  <1> QED
    BY <1>1 DEF Passed

\* A step that leaves a request alone.
LEMMA PagesKept ==
    ASSUME ReadInv, ReadInv', [ReadingNext]_readingVars, NEW r \in Readers, Paged(r),
           committed \subseteq committed', query'[r] = query[r], got'[r] = got[r],
           since'[r] = since[r], seen'[r] = seen[r]
    PROVE  Paged(r)'
  <1>1. ASSUME NEW c \in since'[r] \ seen'[r]
        PROVE  /\ query'[r] \in Requests /\ c \in Rows(r)'
               /\ Cardinality(Newer(r, c))' >= Passed(r)'
    <2>1. c \in Rows(r) /\ Cardinality(Newer(r, c)) >= Passed(r) /\ query[r] \in Requests
      BY DEF Paged
    <2>2. Cardinality(Newer(r, c)) \in Nat
      BY <2>1, RowsAre
    <2>3. /\ c \in Rows(r)' /\ Cardinality(Newer(r, c))' \in Nat
          /\ Cardinality(Newer(r, c))' >= Cardinality(Newer(r, c))
      BY <2>1, RowsGrow
    <2>4. Passed(r)' = Passed(r) /\ Passed(r) \in Nat
      BY <2>1, PassedType DEF Passed
    <2> QED
      BY <2>1, <2>2, <2>3, <2>4
  <1>2. "page" \in DOMAIN got'[r] /\ Cardinality(got'[r]["page"]) < Limit
          => since'[r] \subseteq seen'[r]
    BY DEF Paged
  <1> QED
    BY <1>1, <1>2 DEF Paged

\* The page after a full one starts where that one ended.
LEMMA NextPagePaged ==
    ASSUME ReadInv, ReadInv', [ReadingNext]_readingVars, NEW r \in Readers, Paged(r),
           NextPage(r)
    PROVE  Paged(r)'
  <1>1. /\ query' = [query EXCEPT ![r] = [query[r] EXCEPT !.offset = query[r].offset + Limit]]
        /\ got' = [got EXCEPT ![r] = Nothing]
        /\ UNCHANGED <<backend, stamps, committed, seen, since>>
        /\ "page" \in DOMAIN got[r]
    BY DEF NextPage, Listed
  <1>2. query[r] \in Requests /\ query \in [Readers -> Requests \cup {Null}]
        /\ DOMAIN got = Readers
    BY <1>1 DEF ReadInv, ReadingTypeOK
  <1>3. DOMAIN got'[r] = {}
    BY <1>1, <1>2 DEF Nothing
  <1>4. /\ query'[r].provider = query[r].provider /\ query'[r].from = query[r].from
        /\ query'[r].to = query[r].to /\ query'[r].offset = query[r].offset + Limit
    BY <1>1, <1>2 DEF Requests
  <1>5. query'[r] \in Requests
    <2>1. query[r].offset + Limit \in Nat
      BY <1>2, ReadingAssumption DEF Requests
    <2>2. [query[r] EXCEPT !.offset = query[r].offset + Limit] \in Requests
      BY <1>2, <2>1 DEF Requests
    <2> QED
      BY <1>1, <1>2, <2>2
  <1>6. Passed(r)' = Passed(r) /\ Passed(r) \in Nat
    BY <1>1, <1>2, <1>3, <1>4, PassedType DEF Passed
  <1>7. ASSUME NEW c \in since'[r] \ seen'[r]
        PROVE  c \in Rows(r)' /\ Cardinality(Newer(r, c))' >= Passed(r)'
    <2>1. c \in Rows(r) /\ Cardinality(Newer(r, c)) >= Passed(r)
      BY <1>1 DEF Paged
    <2>2. Cardinality(Newer(r, c)) \in Nat
      BY <2>1, RowsAre
    <2>3. /\ c \in Rows(r)' /\ Cardinality(Newer(r, c))' \in Nat
          /\ Cardinality(Newer(r, c))' >= Cardinality(Newer(r, c))
      BY <1>1, <1>4, <2>1, RowsGrow
    <2> QED
      BY <1>6, <2>1, <2>2, <2>3
  <1> QED
    BY <1>3, <1>5, <1>7 DEF Paged

\* A page shows every row that was due on it.
LEMMA PagePaged ==
    ASSUME ReadInv, ReadInv', NEW r \in Readers, Paged(r), NEW x, Executed(r, "page", x)
    PROVE  Paged(r)'
  <1>1. /\ plan[r] # <<>> /\ UNCHANGED <<backend, stamps, committed, query>>
        /\ "page" \in DOMAIN got'[r] /\ got'[r]["page"] = x
        /\ seen'[r] = seen[r] \cup x
        /\ since'[r] = IF query[r].offset = 0 THEN Rows(r) ELSE since[r]
    BY DEF Executed
  <1>2. query[r] \in Requests /\ query[r].offset \in Nat /\ Limit \in Nat
    <2>1. query[r] \in Requests
      BY <1>1 DEF ReadInv, Reading
    <2> QED
      BY <2>1, ReadingAssumption DEF Requests
  <1>3. x = Page(r)
    BY DEF Executed, Results
  <1>4. Rows(r)' = Rows(r) /\ \A c : Newer(r, c)' = Newer(r, c)
    BY <1>1 DEF Rows, Matches, Newer, Stamp
  <1>5. Passed(r)' = query[r].offset + Limit
    BY <1>1 DEF Passed
  <1>6. ASSUME NEW c \in since'[r] \ seen'[r]
        PROVE  /\ c \in Rows(r) /\ Cardinality(Newer(r, c)) \in Nat
               /\ Cardinality(Newer(r, c)) >= query[r].offset + Limit
    <2>1. c \in Rows(r) /\ Cardinality(Newer(r, c)) >= query[r].offset
          /\ Cardinality(Newer(r, c)) \in Nat
      <3>1. CASE query[r].offset = 0
        BY <1>1, <3>1, RowsAre
      <3>2. CASE query[r].offset # 0
        <4>1. c \in since[r] \ seen[r]
          BY <1>1, <3>2
        <4>2. c \in Rows(r) /\ Cardinality(Newer(r, c)) >= Passed(r)
          BY <4>1 DEF Paged
        <4>3. Cardinality(Newer(r, c)) \in Nat
          BY <4>2, RowsAre
        <4> QED
          BY <1>2, <4>2, <4>3 DEF Passed
      <3> QED
        BY <3>1, <3>2
    <2>2. Cardinality(Newer(r, c)) \notin query[r].offset .. query[r].offset + Limit - 1
      BY <1>1, <1>3, <2>1 DEF Page
    <2> QED
      BY <1>2, <2>1, <2>2
  <1>7. ASSUME Cardinality(x) < Limit PROVE since'[r] \subseteq seen'[r]
    <2> SUFFICES ASSUME NEW c \in since'[r] \ seen'[r] PROVE FALSE
      OBVIOUS
    <2>1. /\ c \in Rows(r) /\ Cardinality(Newer(r, c)) \in Nat
          /\ Cardinality(Newer(r, c)) >= query[r].offset + Limit
      BY <1>6
    <2>2. /\ Cardinality(Newer(r, c)) < Cardinality(Rows(r))
          /\ Cardinality(Rows(r)) \in Nat
      BY <2>1, RowsAre
    <2>3. Cardinality(x) = IF Cardinality(Rows(r)) <= query[r].offset THEN 0
                           ELSE IF Cardinality(Rows(r)) >= query[r].offset + Limit THEN Limit
                           ELSE Cardinality(Rows(r)) - query[r].offset
      BY <1>2, <1>3, PageIs
    <2> QED
      BY <1>2, <1>7, <2>1, <2>2, <2>3
  <1> QED
    BY <1>1, <1>2, <1>4, <1>5, <1>6, <1>7 DEF Paged

\* No step lets a row slip before the pages that have been read.
LEMMA PageStep == ReadInv /\ ReadInv' /\ PageInv /\ [ReadingNext]_readingVars => PageInv'
  <1> SUFFICES ASSUME ReadInv, ReadInv', PageInv, [ReadingNext]_readingVars,
                      NEW q \in Readers
               PROVE  Paged(q)'
    BY DEF PageInv
  <1>1. Paged(q)
    BY DEF PageInv
  <1>2. CASE UNCHANGED <<query, got, plan, seen, since>> /\ committed \subseteq committed'
    BY <1>1, <1>2, PagesKept
  <1>3. ASSUME NEW r \in Readers, NEW p \in Queries, Ask(r, p) PROVE Paged(q)'
    <2>1. /\ query' = [query EXCEPT ![r] = p] /\ got' = [got EXCEPT ![r] = Nothing]
          /\ seen' = [seen EXCEPT ![r] = {}] /\ since' = [since EXCEPT ![r] = {}]
          /\ UNCHANGED <<backend, stamps, committed>>
      BY <1>3 DEF Ask
    <2>2. CASE q = r
      <3>1. since'[r] = {}
        BY <2>1 DEF ReadInv, ReadingTypeOK
      <3> QED
        BY <2>2, <3>1 DEF Paged
    <2>3. CASE q # r
      <3>1. /\ query'[q] = query[q] /\ got'[q] = got[q] /\ since'[q] = since[q]
            /\ seen'[q] = seen[q]
        BY <2>1, <2>3 DEF ReadInv, ReadingTypeOK
      <3> QED
        BY <1>1, <2>1, <3>1, PagesKept
    <2> QED
      BY <2>2, <2>3
  <1>4. ASSUME NEW r \in Readers, NextPage(r) PROVE Paged(q)'
    <2>1. CASE q = r
      BY <1>1, <1>4, <2>1, NextPagePaged
    <2>2. CASE q # r
      <3>1. /\ query'[q] = query[q] /\ got'[q] = got[q] /\ since'[q] = since[q]
            /\ seen'[q] = seen[q] /\ committed' = committed
        BY <1>4, <2>2 DEF NextPage, ReadInv, ReadingTypeOK
      <3> QED
        BY <1>1, <3>1, PagesKept
    <2> QED
      BY <2>1, <2>2
  <1>5. ASSUME NEW r \in Readers, NEW s \in Statements, NEW x, Executed(r, s, x)
        PROVE  Paged(q)'
    <2>1. UNCHANGED <<backend, stamps, committed, query>>
      BY <1>5 DEF Executed
    <2>2. CASE q # r
      <3>1. got'[q] = got[q] /\ since'[q] = since[q] /\ seen'[q] = seen[q]
        BY <1>5, <2>2 DEF Executed
      <3> QED
        BY <1>1, <2>1, <3>1, PagesKept
    <2>3. CASE q = r /\ s = "page"
      BY <1>1, <1>5, <2>3, PagePaged
    <2>4. CASE q = r /\ s # "page"
      <3>1. since'[r] = since[r] /\ seen'[r] = seen[r]
        BY <1>5, <2>4 DEF Executed
      <3>2. "page" \in DOMAIN got'[r] <=> "page" \in DOMAIN got[r]
        BY <1>5, <2>4 DEF Executed
      <3>3. "page" \in DOMAIN got[r] => got'[r]["page"] = got[r]["page"]
        BY <1>5, <2>4 DEF Executed
      <3>4. Rows(r)' = Rows(r) /\ \A c : Newer(r, c)' = Newer(r, c)
        BY <2>1 DEF Rows, Matches, Newer, Stamp
      <3>5. Passed(r)' = Passed(r)
        BY <2>1, <3>2 DEF Passed
      <3> QED
        BY <1>1, <2>1, <2>4, <3>1, <3>2, <3>3, <3>4, <3>5 DEF Paged
    <2> QED
      BY <2>2, <2>3, <2>4
  <1>6. \/ UNCHANGED <<query, got, plan, seen, since>> /\ committed \subseteq committed'
        \/ \E r \in Readers : NextPage(r) \/ \E p \in Queries : Ask(r, p)
        \/ \E r \in Readers, s \in Statements : \E x : Executed(r, s, x)
    <2>1. ASSUME NEW c \in Calls, Insert(c) \/ Commit(c)
          PROVE  UNCHANGED <<query, got, plan, seen, since>> /\ committed \subseteq committed'
      BY <2>1 DEF Insert, Commit
    <2>2. ASSUME NEW r \in Readers, Execute(r)
          PROVE  \E s \in Statements : \E x : Executed(r, s, x)
      BY <2>2, Executes
    <2>3. CASE UNCHANGED readingVars
      BY <2>3 DEF readingVars
    <2> QED
      BY <2>1, <2>2, <2>3 DEF ReadingNext
  <1> QED
    BY <1>2, <1>3, <1>4, <1>5, <1>6

\* Whoever reads the pages to the last one has seen every call that was there
\* when the first was read, whatever was recorded meanwhile.
THEOREM PagesSkipNothing == ReadingSpec => []NothingSkipped
  <1>1. ReadingInit => PageInv
    BY DEF ReadingInit, PageInv, Paged, Nothing
  <1>2. PageInv => NothingSkipped
    BY DEF PageInv, Paged, NothingSkipped, LastPage, Listed
  <1> QED
    BY <1>1, <1>2, ReadInit, ReadStep, PageStep, PTL DEF ReadingSpec
-----------------------------------------------------------------------------
(* Totals *)

\* The groups of a set of calls, by whatever is the key, add up to its totals.
Groups(S, key) ==
    [k \in {key[c] : c \in S} |-> Aggregate({c \in S : key[c] = k})]
Totals(S) ==
    [calls |-> Aggregate(S).calls, reported |-> Aggregate(S).reported,
     estimated |-> Aggregate(S).estimated]

\* The three sums of an aggregate, each on its own.
LEMMA AggregateIs ==
    ASSUME NEW S
    PROVE  /\ Aggregate(S).calls = Cardinality(S)
           /\ Aggregate(S).reported = SumFunctionOnSet(Reported, S)
           /\ Aggregate(S).estimated =
                SumFunctionOnSet(Estimated, {c \in S : HasEstimate(c)})
  BY DEF Aggregate

\* Counts, reports and estimates of the groups add up to those of all the calls,
\* those without an estimate included.
LEMMA GroupsAddUp ==
    ASSUME NEW S \in SUBSET Calls, NEW key PROVE Sums(Groups(S, key)) = Totals(S)
  <1> DEFINE K == {key[c] : c \in S}
             G == Groups(S, key)
             Part(T, k) == {c \in T : key[c] = k}
             One == [c \in Calls |-> 1]
             T == {c \in S : HasEstimate(c)}
  <1>1. /\ IsFiniteSet(S) /\ IsFiniteSet(T) /\ IsFiniteSet(K)
        /\ \A c \in S : key[c] \in K
        /\ \A c \in T : key[c] \in K
    <2>1. IsFiniteSet(S) /\ T \in SUBSET S
      BY ReadingAssumption, FS_Subset
    <2>2. IsFiniteSet(T)
      BY <2>1, FS_Subset
    <2>3. IsFiniteSet(K)
      BY <2>1, ImageIsFinite
    <2> QED
      BY <2>1, <2>2, <2>3
  <1>2. /\ \A c \in S : Reported[c] \in Int /\ One[c] = 1 /\ One[c] \in Int
        /\ \A c \in T : Estimated[c] \in Int
    BY ReadingAssumption DEF Reported, Estimated, HasEstimate
  <1>3. /\ DOMAIN G = K
        /\ \A k \in K : G[k] = Aggregate(Part(S, k))
    BY DEF Groups
  <1>4. \A k \in K : {c \in Part(S, k) : HasEstimate(c)} = Part(T, k)
    OBVIOUS
  <1>5. ASSUME NEW k \in K
        PROVE  /\ G[k].calls = Cardinality(Part(S, k))
               /\ G[k].reported = SumFunctionOnSet(Reported, Part(S, k))
               /\ G[k].estimated = SumFunctionOnSet(Estimated, Part(T, k))
    <2> DEFINE P == Part(S, k)
    <2>1. G[k] = Aggregate(P) /\ {c \in P : HasEstimate(c)} = Part(T, k)
      BY <1>3, <1>4
    <2> HIDE DEF P, G, T
    <2> QED
      BY <2>1, AggregateIs DEF P
  <1>6. ASSUME NEW k \in K PROVE Cardinality(Part(S, k)) = SumFunctionOnSet(One, Part(S, k))
    <2>1. IsFiniteSet(Part(S, k)) /\ \A c \in Part(S, k) : One[c] = 1
      BY <1>1, <1>2, FS_Subset
    <2> QED
      BY <2>1, CountIsSum
  <1>7. SumFunctionOnSet(One, S) = Cardinality(S)
    BY <1>1, <1>2, CountIsSum
  <1> HIDE DEF K, G, One, T
  <1>8. [k \in K |-> G[k].calls] = [k \in K |-> SumFunctionOnSet(One, Part(S, k))]
    BY <1>5, <1>6
  <1>9. [k \in K |-> G[k].reported] = [k \in K |-> SumFunctionOnSet(Reported, Part(S, k))]
    BY <1>5
  <1>10. [k \in K |-> G[k].estimated] = [k \in K |-> SumFunctionOnSet(Estimated, Part(T, k))]
    BY <1>5
  <1>11. SumFunctionOnSet([k \in K |-> SumFunctionOnSet(One, Part(S, k))], K) = Cardinality(S)
    BY <1>1, <1>2, <1>7, SumOfParts
  <1>12. SumFunctionOnSet([k \in K |-> SumFunctionOnSet(Reported, Part(S, k))], K)
           = SumFunctionOnSet(Reported, S)
    BY <1>1, <1>2, SumOfParts
  <1>13. SumFunctionOnSet([k \in K |-> SumFunctionOnSet(Estimated, Part(T, k))], K)
           = SumFunctionOnSet(Estimated, T)
    BY <1>1, <1>2, SumOfParts
  <1>14. Sums(G) = [calls |-> Cardinality(S), reported |-> SumFunctionOnSet(Reported, S),
                    estimated |-> SumFunctionOnSet(Estimated, T)]
    BY <1>3, <1>8, <1>9, <1>10, <1>11, <1>12, <1>13 DEF Sums
  <1>15. Totals(S) = [calls |-> Cardinality(S), reported |-> SumFunctionOnSet(Reported, S),
                      estimated |-> SumFunctionOnSet(Estimated, T)]
    BY AggregateIs DEF Totals, T
  <1> QED
    BY <1>14, <1>15 DEF G

\* What a request has got so far is what the rows are now.
Current(r) ==
    /\ "overall" \in DOMAIN got[r] => got[r]["overall"] = Overall(r)
    /\ "providers" \in DOMAIN got[r] => got[r]["providers"] = ByProvider(r)
    /\ "models" \in DOMAIN got[r] => got[r]["models"] = ByModel(r)
    /\ "pairs" \in DOMAIN got[r] => got[r]["pairs"] = ByPair(r)
    /\ "days" \in DOMAIN got[r] => got[r]["days"] = ByDay(r)
    /\ "page" \in DOMAIN got[r] => got[r]["page"] = Page(r)
    /\ "count" \in DOMAIN got[r] => got[r]["count"] = Cardinality(Rows(r))

\* PartsAddUp says this of every answer that is complete.
FitsTotal(r) ==
    LET left == got[r]["count"] - query[r].offset
    IN  Cardinality(got[r]["page"]) = (CASE left < 0 -> 0
                                         [] left > Limit -> Limit
                                         [] OTHER -> left)
Fits(r) ==
    /\ \A s \in DOMAIN got[r] \cap {"providers", "models", "pairs", "days"} :
          "overall" \in DOMAIN got[r] =>
              Sums(got[r][s]) = [calls |-> got[r]["overall"].all.calls,
                                 reported |-> got[r]["overall"].all.reported,
                                 estimated |-> got[r]["overall"].all.estimated]
    /\ "page" \in DOMAIN got[r] => FitsTotal(r)

\* The count of a list is fetched after its page and the estimations.
CountInv ==
    \A r \in Readers : "page" \in DOMAIN got[r] =>
        plan[r] \in {<<"estimates", "count">>, <<"count">>} \/ "count" \in DOMAIN got[r]

\* On SQLite a request is alone while it lasts.
AloneInv ==
    backend = "sqlite" => \A r \in Readers : Reading(r) =>
        Open = {} /\ \A s \in Readers : Reading(s) => s = r

PartsInv ==
    /\ CountInv /\ AloneInv
    /\ backend = "sqlite" => \A r \in Readers : Current(r) \/ (~Reading(r) /\ Fits(r))

\* Parts that are about the same rows add up.
LEMMA CurrentFits ==
    ASSUME ReadInv, CountInv, NEW r \in Readers, Current(r), ~Reading(r) PROVE Fits(r)
  <1> DEFINE R == Rows(r)
  <1>1. R \in SUBSET Calls /\ Cardinality(R) \in Nat
    BY RowsAre
  <1>2. ASSUME NEW s \in DOMAIN got[r] \cap {"providers", "models", "pairs", "days"},
               "overall" \in DOMAIN got[r]
        PROVE  Sums(got[r][s]) = [calls |-> got[r]["overall"].all.calls,
                                  reported |-> got[r]["overall"].all.reported,
                                  estimated |-> got[r]["overall"].all.estimated]
    <2>1. got[r]["overall"].all = Aggregate(R)
      BY <1>2 DEF Current, Overall
    <2>2. CASE s = "providers"
      <3> DEFINE key == [c \in Calls |-> Data[c].provider]
      <3>1. \A c \in R : key[c] = Data[c].provider
        BY <1>1
      <3>2. got[r][s] = ByProvider(r)
        BY <1>2, <2>2 DEF Current
      <3> HIDE DEF key
      <3>3. {key[c] : c \in R} = {Data[c].provider : c \in R}
            /\ \A k : {c \in R : key[c] = k} = {c \in R : Data[c].provider = k}
        BY <3>1
      <3>4. ByProvider(r) = Groups(R, key)
        BY <3>3 DEF ByProvider, Groups
      <3> QED
        BY <1>1, <2>1, <3>2, <3>4, GroupsAddUp DEF Totals
    <2>3. CASE s = "models"
      <3> DEFINE key == [c \in Calls |-> Data[c].model]
      <3>1. \A c \in R : key[c] = Data[c].model
        BY <1>1
      <3>2. got[r][s] = ByModel(r)
        BY <1>2, <2>3 DEF Current
      <3> HIDE DEF key
      <3>3. {key[c] : c \in R} = {Data[c].model : c \in R}
            /\ \A k : {c \in R : key[c] = k} = {c \in R : Data[c].model = k}
        BY <3>1
      <3>4. ByModel(r) = Groups(R, key)
        BY <3>3 DEF ByModel, Groups
      <3> QED
        BY <1>1, <2>1, <3>2, <3>4, GroupsAddUp DEF Totals
    <2>4. CASE s = "days"
      <3> DEFINE key == [c \in Calls |-> Data[c].day]
      <3>1. \A c \in R : key[c] = Data[c].day
        BY <1>1
      <3>2. got[r][s] = ByDay(r)
        BY <1>2, <2>4 DEF Current
      <3> HIDE DEF key
      <3>3. {key[c] : c \in R} = {Data[c].day : c \in R}
            /\ \A k : {c \in R : key[c] = k} = {c \in R : Data[c].day = k}
        BY <3>1
      <3>4. ByDay(r) = Groups(R, key)
        BY <3>3 DEF ByDay, Groups
      <3> QED
        BY <1>1, <2>1, <3>2, <3>4, GroupsAddUp DEF Totals
    <2>5. CASE s = "pairs"
      <3> DEFINE key == [c \in Calls |-> <<Data[c].provider, Data[c].model>>]
      <3>1. \A c \in R : key[c] = <<Data[c].provider, Data[c].model>>
        BY <1>1
      <3>2. got[r][s] = ByPair(r)
        BY <1>2, <2>5 DEF Current
      <3> HIDE DEF key
      <3>3. {key[c] : c \in R} = {<<Data[c].provider, Data[c].model>> : c \in R}
            /\ \A k : {c \in R : key[c] = k}
                      = {c \in R : <<Data[c].provider, Data[c].model>> = k}
        BY <3>1
      <3>4. ByPair(r) = Groups(R, key)
        BY <3>3 DEF ByPair, Groups
      <3> QED
        BY <1>1, <2>1, <3>2, <3>4, GroupsAddUp DEF Totals
    <2> QED
      BY <1>2, <2>2, <2>3, <2>4, <2>5
  <1>3. ASSUME "page" \in DOMAIN got[r] PROVE FitsTotal(r)
    <2>1. "count" \in DOMAIN got[r]
      BY <1>3 DEF CountInv, Reading
    <2>2. got[r]["page"] = Page(r) /\ got[r]["count"] = Cardinality(R)
      BY <1>3, <2>1 DEF Current
    <2>3. query[r] \in Requests
      BY <1>3 DEF ReadInv
    <2>4. /\ query[r].offset \in Nat /\ Limit \in Nat \ {0}
          /\ Cardinality(Page(r)) =
               IF Cardinality(R) <= query[r].offset THEN 0
               ELSE IF Cardinality(R) >= query[r].offset + Limit THEN Limit
               ELSE Cardinality(R) - query[r].offset
      BY <2>3, PageIs, ReadingAssumption
    <2> HIDE DEF R
    <2> QED
      BY <1>1, <2>2, <2>4 DEF FitsTotal
  <1> QED
    BY <1>2, <1>3 DEF Fits

\* What statements return changes only with what is stored, or asked.
LEMMA SameResults ==
    ASSUME NEW r \in Readers, UNCHANGED <<stamps, committed, query>>
    PROVE  /\ Rows(r)' = Rows(r)
           /\ Overall(r)' = Overall(r) /\ ByProvider(r)' = ByProvider(r)
           /\ ByModel(r)' = ByModel(r) /\ ByPair(r)' = ByPair(r)
           /\ ByDay(r)' = ByDay(r) /\ Page(r)' = Page(r)
  <1>1. Rows(r)' = Rows(r)
    BY DEF Rows, Matches
  <1>2. \A c : Newer(r, c)' = Newer(r, c)
    BY <1>1 DEF Newer, Stamp
  <1> QED
    BY <1>1, <1>2 DEF Overall, ByProvider, ByModel, ByPair, ByDay, Page, Aggregate

\* One more statement of a request leaves what it has got as it is.
LEMMA ExecuteCurrent ==
    ASSUME ReadInv, NEW r \in Readers, Current(r), NEW s \in Statements, NEW x,
           Executed(r, s, x)
    PROVE  Current(r)'
  <1>1. UNCHANGED <<backend, stamps, committed, query>> /\ x \in Results(r, s)
    BY DEF Executed
  <1>2. /\ Rows(r)' = Rows(r)
        /\ Overall(r)' = Overall(r) /\ ByProvider(r)' = ByProvider(r)
        /\ ByModel(r)' = ByModel(r) /\ ByPair(r)' = ByPair(r)
        /\ ByDay(r)' = ByDay(r) /\ Page(r)' = Page(r)
    BY <1>1, SameResults
  <1>3. /\ s = "overall" => x = Overall(r)
        /\ s = "providers" => x = ByProvider(r)
        /\ s = "models" => x = ByModel(r)
        /\ s = "pairs" => x = ByPair(r)
        /\ s = "days" => x = ByDay(r)
        /\ s = "page" => x = Page(r)
        /\ s = "count" => x = Cardinality(Rows(r))
    BY <1>1 DEF Results
  <1>4. /\ DOMAIN got'[r] = DOMAIN got[r] \cup {s} /\ got'[r][s] = x
        /\ \A t \in DOMAIN got[r] : t # s => got'[r][t] = got[r][t]
    BY DEF Executed
  <1> QED
    BY <1>2, <1>3, <1>4 DEF Current

\* What a request that is over, or begins, has got.
LEMMA Untouched ==
    ASSUME NEW r \in Readers, Fits(r), got'[r] = got[r], query'[r] = query[r]
    PROVE  Fits(r)'
  BY DEF Fits, FitsTotal, Sums

\* A request that has got nothing has got nothing old.
LEMMA EmptyIsCurrent ==
    ASSUME NEW r \in Readers, DOMAIN got'[r] = {} PROVE Current(r)'
  BY DEF Current

\* On SQLite nothing is written while somebody reads, and whoever has finished
\* keeps what fits.
LEMMA PartsStep == ReadInv /\ PartsInv /\ [ReadingNext]_readingVars => PartsInv'
  <1> SUFFICES ASSUME ReadInv, PartsInv, [ReadingNext]_readingVars PROVE PartsInv'
    OBVIOUS
  <1>1. ASSUME backend = "sqlite", NEW r \in Readers, ~Reading(r) PROVE Fits(r)
    BY <1>1, CurrentFits DEF PartsInv
  <1>2. ASSUME NEW c \in Calls, Insert(c) \/ Commit(c) PROVE PartsInv'
    <2>1. UNCHANGED <<backend, query, plan, got>>
      BY <1>2 DEF Insert, Commit
    <2>2. CountInv'
      BY <2>1 DEF PartsInv, CountInv
    <2>3. ASSUME backend = "sqlite", NEW r \in Readers PROVE ~Reading(r)
      BY <1>2, <2>3 DEF Insert, Commit, PartsInv, AloneInv
    <2>4. AloneInv'
      BY <2>1, <2>3 DEF AloneInv, Reading
    <2>5. ASSUME backend' = "sqlite", NEW r \in Readers PROVE ~Reading(r)' /\ Fits(r)'
      <3>1. ~Reading(r)' /\ Fits(r)
        BY <1>1, <2>1, <2>3, <2>5 DEF Reading
      <3> QED
        BY <2>1, <3>1, Untouched
    <2> QED
      BY <2>2, <2>4, <2>5 DEF PartsInv
  <1>3. ASSUME NEW r \in Readers, (\E q \in Queries : Ask(r, q)) \/ NextPage(r) PROVE PartsInv'
    <2>1. /\ got' = [got EXCEPT ![r] = Nothing] /\ UNCHANGED <<backend, stamps, committed>>
          /\ \A q \in Readers : q # r => query'[q] = query[q] /\ plan'[q] = plan[q]
      BY <1>3 DEF Ask, NextPage, ReadInv, ReadingTypeOK
    <2>2. DOMAIN got'[r] = {} /\ \A q \in Readers : q # r => got'[q] = got[q]
      BY <2>1 DEF Nothing, ReadInv
    <2>3. CountInv'
      BY <2>1, <2>2 DEF PartsInv, CountInv
    <2>4. ASSUME backend = "sqlite" PROVE Open = {} /\ \A q \in Readers : ~Reading(q)
      BY <1>3, <2>4 DEF Ask, NextPage
    <2>5. AloneInv'
      BY <2>1, <2>4 DEF AloneInv, Reading, Open
    <2>6. ASSUME backend' = "sqlite", NEW q \in Readers
          PROVE  Current(q)' \/ (~Reading(q)' /\ Fits(q)')
      <3>1. CASE q = r
        BY <2>2, <3>1, EmptyIsCurrent
      <3>2. CASE q # r
        <4>1. ~Reading(q) /\ Fits(q)
          BY <1>1, <2>1, <2>4, <2>6
        <4>2. ~Reading(q)'
          BY <2>1, <3>2, <4>1 DEF Reading
        <4> QED
          BY <2>1, <2>2, <3>2, <4>1, <4>2, Untouched
      <3> QED
        BY <3>1, <3>2
    <2> QED
      BY <2>3, <2>5, <2>6 DEF PartsInv
  <1>4. ASSUME NEW r \in Readers, NEW s \in Statements, NEW x, Executed(r, s, x)
        PROVE  PartsInv'
    <2>1. /\ UNCHANGED <<backend, stamps, committed, query>> /\ plan[r] # <<>>
          /\ s = Head(plan[r]) /\ Runs(plan[r])
          /\ \A q \in Readers : q # r => got'[q] = got[q] /\ plan'[q] = plan[q]
      BY <1>4, PlanSteps DEF Executed, ReadInv
    <2>2. CountInv'
      <3>1. ASSUME NEW q \in Readers, "page" \in DOMAIN got'[q]
            PROVE  \/ plan'[q] \in {<<"estimates", "count">>, <<"count">>}
                   \/ "count" \in DOMAIN got'[q]
        <4>1. CASE q # r
          BY <2>1, <3>1, <4>1 DEF PartsInv, CountInv
        <4>2. CASE q = r /\ s \in {"page", "estimates"}
          BY <1>4, <2>1, <4>2 DEF Executed, Runs, Left
        <4>3. CASE q = r /\ s = "count"
          BY <1>4, <4>3 DEF Executed
        <4>4. CASE q = r /\ s \notin {"page", "estimates", "count"}
          <5>1. "page" \in DOMAIN got[r]
            BY <1>4, <3>1, <4>4 DEF Executed
          <5>2. plan[r] \notin {<<"estimates", "count">>, <<"count">>}
            BY <2>1, <4>4
          <5> QED
            BY <1>4, <4>4, <5>1, <5>2 DEF Executed, PartsInv, CountInv
        <4> QED
          BY <4>1, <4>2, <4>3, <4>4
      <3> QED
        BY <3>1 DEF CountInv
    <2>3. ASSUME backend = "sqlite"
          PROVE  Open = {} /\ \A q \in Readers : Reading(q) => q = r
      BY <2>1, <2>3 DEF PartsInv, AloneInv, Reading
    <2>4. AloneInv'
      BY <2>1, <2>3 DEF AloneInv, Reading, Open
    <2>5. ASSUME backend' = "sqlite", NEW q \in Readers
          PROVE  Current(q)' \/ (~Reading(q)' /\ Fits(q)')
      <3>1. CASE q = r
        <4>1. Current(r)
          BY <2>1, <2>5 DEF PartsInv, Reading
        <4> QED
          BY <1>4, <3>1, <4>1, ExecuteCurrent
      <3>2. CASE q # r
        <4>1. ~Reading(q) /\ Fits(q)
          BY <1>1, <2>1, <2>3, <2>5, <3>2
        <4>2. ~Reading(q)'
          BY <2>1, <3>2, <4>1 DEF Reading
        <4> QED
          BY <2>1, <3>2, <4>1, <4>2, Untouched
      <3> QED
        BY <3>1, <3>2
    <2> QED
      BY <2>2, <2>4, <2>5 DEF PartsInv
  <1>5. CASE UNCHANGED readingVars
    <2>1. UNCHANGED <<backend, stamps, committed, query, plan, got>>
      BY <1>5 DEF readingVars
    <2>2. CountInv' /\ AloneInv'
      BY <2>1 DEF PartsInv, CountInv, AloneInv, Reading, Open
    <2>3. ASSUME NEW r \in Readers, Current(r) PROVE Current(r)'
      BY <2>1, <2>3, SameResults DEF Current
    <2>4. ASSUME NEW r \in Readers, ~Reading(r) /\ Fits(r) PROVE ~Reading(r)' /\ Fits(r)'
      BY <2>1, <2>4, Untouched DEF Reading
    <2> QED
      BY <2>1, <2>2, <2>3, <2>4 DEF PartsInv
  <1> QED
    BY <1>2, <1>3, <1>4, <1>5, Executes DEF ReadingNext

\* On SQLite the groups and days of a summary or report add up to its totals,
\* and a page has the length its total leaves it, for any calls.
THEOREM PartsMakeTheWhole == ReadingSpec => []PartsAddUp
  <1>1. ReadingInit => PartsInv
    BY DEF ReadingInit, PartsInv, CountInv, AloneInv, Reading, Current, Nothing
  <1>2. ReadInv /\ PartsInv => PartsAddUp
    <2> SUFFICES ASSUME ReadInv, PartsInv, backend = "sqlite",
                        NEW r \in Readers, ~Reading(r)
                 PROVE  /\ \A s \in DOMAIN got[r] \cap {"providers", "models", "pairs", "days"} :
                              "overall" \in DOMAIN got[r] =>
                                  LET all == got[r]["overall"].all
                                  IN  Sums(got[r][s]) = [calls |-> all.calls,
                                                         reported |-> all.reported,
                                                         estimated |-> all.estimated]
                        /\ Listed(r) => FitsTotal(r)
      BY DEF PartsAddUp, FitsTotal
    <2>1. Fits(r)
      BY CurrentFits DEF PartsInv
    <2> QED
      BY <2>1 DEF Fits, Listed
  <1> QED
    BY <1>1, <1>2, ReadInit, ReadStep, PartsStep, PTL DEF ReadingSpec
-----------------------------------------------------------------------------
(* The cache of the dashboard *)

\* Two sessions that call a fetcher with the same arguments have the same
\* query, although the fetcher reads it from the sidebar.
LEMMA ArgsTell ==
    ASSUME NEW f \in Fetchers, NEW s, NEW t, Args(f, s) = Args(f, t)
    PROVE  Asked(f, s) = Asked(f, t)
  <1>1. s.key = t.key
    BY DEF Args
  <1>2. CASE f = "report"
    BY <1>1, <1>2 DEF Args, Asked
  <1>3. CASE f # "report"
    BY <1>1, <1>3 DEF Args, Asked
  <1> QED
    BY <1>2, <1>3
-----------------------------------------------------------------------------
(* Types *)

LEMMA ArgsType ==
    ASSUME NEW f \in Fetchers, NEW sb \in Sidebars
    PROVE  Args(f, sb) \in Arguments
  BY DashboardAssumption DEF Args, Arguments

LEMMA DeclaredType ==
    ASSUME NEW f \in Fetchers, NEW auto \in BOOLEAN
    PROVE  /\ Declared(f, auto) \in {Short, AlertLife, Long}
           /\ Declared(f, auto) \in 1..Long
  BY DashboardAssumption DEF Declared, Short, AlertLife

LEMMA BeginsType ==
    ASSUME TypeOK, NEW s \in Sessions, NEW sb \in Sidebars, Begins(s, sb)
    PROVE  TypeOK'
  <1>1. /\ sidebar' \in [Sessions -> Sidebars]
        /\ page' \in [Sessions -> [Fetchers -> {None} \cup [value : Values, age : 0..(Long - 1)]]]
    BY DEF TypeOK, Begins, Blank
  <1>2. /\ run' \in [Sessions -> Seq(Fetchers)]
        /\ rest' \in [Sessions -> {"running", "idle", "asleep", "due", "stopped"}]
    <2>1. <<>> \in Seq(Fetchers) /\ <<"summary", "calls", "alerts">> \in Seq(Fetchers)
      BY DEF Fetchers
    <2>2. PICK fs \in Seq(Fetchers) : run' = [run EXCEPT ![s] = fs]
      BY <2>1 DEF Begins
    <2>3. PICK x \in {"stopped", "running"} : rest' = [rest EXCEPT ![s] = x]
      BY DEF Begins
    <2> QED
      BY <2>2, <2>3 DEF TypeOK
  <1>3. UNCHANGED <<world, cache, ttl, version, up>>
    BY DEF Begins
  <1> QED
    BY <1>1, <1>2, <1>3 DEF TypeOK, Values

\* What a fetch leaves: an entry of the cache or a new one, on the page and in
\* the cache.
LEMMA FetchEntry ==
    ASSUME NEW s \in Sessions, Fetch(s)
    PROVE  \E f \in {Head(run[s])} : \E e \in
               (IF Hits(f, sidebar[s]) = {}
                THEN {[fetcher |-> f, args |-> Args(f, sidebar[s]),
                       value |-> IF up THEN [asked |-> Asked(f, sidebar[s]), version |-> version]
                                 ELSE None,
                       age |-> 0]}
                ELSE Hits(f, sidebar[s])) :
             /\ page' = [page EXCEPT ![s][f] = [value |-> e.value, age |-> e.age]]
             /\ cache' = Others(f, sidebar[s]) \cup {e}
             /\ ttl' = [ttl EXCEPT ![f] = Declared(f, sidebar[s].auto)]
             /\ run' = [run EXCEPT ![s] = Tail(@)]
             /\ UNCHANGED <<world, sidebar, rest, version, up>>
  BY DEF Fetch

LEMMA FetchType ==
    ASSUME TypeOK, NEW s \in Sessions, Fetch(s)
    PROVE  TypeOK'
  <1> DEFINE f == Head(run[s])
             sb == sidebar[s]
             Entry == [fetcher : Fetchers, args : Arguments, value : Values, age : 0..(Long - 1)]
  <1>1. run[s] # <<>> /\ run[s] \in Seq(Fetchers) /\ sb \in Sidebars /\ sb.auto \in BOOLEAN
    BY DashboardAssumption DEF TypeOK, Fetch
  <1>2. f \in Fetchers /\ Tail(run[s]) \in Seq(Fetchers)
    BY <1>1
  <1>3. (IF up THEN [asked |-> Asked(f, sb), version |-> version] ELSE None) \in Values
    BY <1>1, <1>2 DEF TypeOK, Values
  <1> HIDE DEF f, sb
  <1>4. PICK e \in Entry :
             /\ page' = [page EXCEPT ![s][f] = [value |-> e.value, age |-> e.age]]
             /\ cache' = Others(f, sb) \cup {e}
    <2>1. Args(f, sb) \in Arguments /\ 0 \in 0..(Long - 1)
      BY <1>1, <1>2, ArgsType, DashboardAssumption DEF AlertLife
    <2>2. Hits(f, sb) \subseteq Entry
      BY DEF Hits, Entries, TypeOK
    <2>3. [fetcher |-> f, args |-> Args(f, sb),
           value |-> IF up THEN [asked |-> Asked(f, sb), version |-> version] ELSE None,
           age |-> 0] \in Entry
      BY <1>2, <1>3, <2>1
    <2> HIDE DEF Entry
    <2> QED
      BY <2>2, <2>3, FetchEntry DEF f, sb
  <1>5. page' \in [Sessions -> [Fetchers -> {None} \cup [value : Values, age : 0..(Long - 1)]]]
    BY <1>2, <1>4 DEF TypeOK
  <1>6. cache' \subseteq Entry
    BY <1>4 DEF TypeOK, Others
  <1>7. ttl' \in [Fetchers -> {Short, AlertLife, Long}]
    BY <1>1, <1>2, DeclaredType DEF TypeOK, Fetch, f, sb
  <1>8. run' \in [Sessions -> Seq(Fetchers)]
    BY <1>2 DEF TypeOK, Fetch
  <1>9. UNCHANGED <<world, sidebar, rest, version, up>>
    BY DEF Fetch
  <1> QED
    BY <1>5, <1>6, <1>7, <1>8, <1>9 DEF TypeOK, Values

LEMMA PanelsType ==
    ASSUME TypeOK, NEW s \in Sessions, Panels(s)
    PROVE  TypeOK'
  <1>1. run' = run \/ run' = [run EXCEPT ![s] = <<"report">>]
    BY DEF Panels
  <1>2. <<"report">> \in Seq(Fetchers)
    BY DEF Fetchers
  <1>3. run' \in [Sessions -> Seq(Fetchers)]
    BY <1>1, <1>2 DEF TypeOK
  <1>4. rest' \in [Sessions -> {"running", "idle", "asleep", "due", "stopped"}]
    BY DEF TypeOK, Panels
  <1>5. UNCHANGED <<world, sidebar, page, cache, ttl, version, up>>
    BY DEF Panels
  <1> QED
    BY <1>3, <1>4, <1>5 DEF TypeOK, Values

\* An entry that outlives a tick is still younger than its ttl.
LEMMA TickType ==
    ASSUME TypeOK, Tick
    PROVE  TypeOK' /\ \A e \in cache' : e.age < ttl'[e.fetcher]
  <1> DEFINE Entry == [fetcher : Fetchers, args : Arguments, value : Values, age : 0..(Long - 1)]
  <1>1. ASSUME NEW e \in cache'
        PROVE  e \in Entry /\ e.age < ttl'[e.fetcher]
    <2>1. PICK o \in cache : o.age + 1 < ttl[o.fetcher] /\ e = [o EXCEPT !.age = @ + 1]
      BY DEF Tick
    <2>2. o \in Entry /\ ttl[o.fetcher] \in 1..Long
      BY DashboardAssumption DEF TypeOK, Short, AlertLife
    <2>3. o.age + 1 \in 0..(Long - 1)
      BY <2>1, <2>2, DashboardAssumption
    <2> QED
      BY <2>1, <2>2, <2>3 DEF Tick
  <1>2. rest' \in [Sessions -> {"running", "idle", "asleep", "due", "stopped"}]
    BY DEF TypeOK, Tick
  <1>3. UNCHANGED <<world, sidebar, run, page, ttl, version, up>>
    BY DEF Tick
  <1>4. cache' \subseteq Entry
    BY <1>1
  <1> QED
    BY <1>1, <1>2, <1>3, <1>4 DEF TypeOK, Values

LEMMA NextType == TypeOK /\ [Next]_vars => TypeOK'
  <1> SUFFICES ASSUME TypeOK, [Next]_vars
               PROVE  TypeOK'
    OBVIOUS
  <1>1. ASSUME NEW s \in Sessions, NEW sb \in world.choices[s], Interact(s, sb)
        PROVE  TypeOK'
    <2>1. sb \in Sidebars
      BY DashboardAssumption DEF TypeOK
    <2> QED
      BY <1>1, <2>1, BeginsType DEF Interact
  <1>2. ASSUME NEW s \in Sessions, AutoRefresh(s) PROVE TypeOK'
    BY <1>2, BeginsType DEF AutoRefresh, TypeOK
  <1>3. ASSUME NEW s \in Sessions, Fetch(s) PROVE TypeOK'
    BY <1>3, FetchType
  <1>4. ASSUME NEW s \in Sessions, Panels(s) PROVE TypeOK'
    BY <1>4, PanelsType
  <1>5. CASE Tick
    BY <1>5, TickType
  <1>6. CASE DataChanges
    BY <1>6, DashboardAssumption DEF DataChanges, TypeOK, Values
  <1>7. CASE ProxyChanges
    BY <1>7 DEF ProxyChanges, TypeOK, Values
  <1>8. CASE UNCHANGED vars
    BY <1>8 DEF vars, TypeOK, Values
  <1> QED
    BY <1>1, <1>2, <1>3, <1>4, <1>5, <1>6, <1>7, <1>8 DEF Next

LEMMA InitType == Init => TypeOK
  <1> SUFFICES ASSUME Init PROVE TypeOK
    OBVIOUS
  <1>1. <<>> \in Seq(Fetchers) /\ Declared("summary", FALSE) = Long
    BY DEF Declared
  <1>2. ttl \in [Fetchers -> {Short, AlertLife, Long}]
    BY DeclaredType DEF Init
  <1>3. 0 \in 0..world.changes
    BY DashboardAssumption DEF Init
  <1> QED
    BY <1>1, <1>2, <1>3 DEF Init, TypeOK, Blank

\* Every reachable state of the dashboard is type correct, whatever worlds,
\* sessions and settings there are.
THEOREM TypeCorrect == Spec => []TypeOK
  <1> QED
    BY InitType, NextType, PTL DEF Spec
-----------------------------------------------------------------------------
(* What a page shows *)

\* An entry answers the query of every session that would find it.
EntriesAnswer ==
    \A e \in cache : \A sb \in Sidebars :
        e.value # None /\ e.args = Args(e.fetcher, sb) => e.value.asked = Asked(e.fetcher, sb)

LEMMA FetchAnswers ==
    ASSUME TypeOK, EntriesAnswer, ShownIsAsAsked, NEW s \in Sessions, Fetch(s)
    PROVE  EntriesAnswer' /\ ShownIsAsAsked'
  <1> DEFINE sb == sidebar[s]
             new(f) == [fetcher |-> f, args |-> Args(f, sb),
                        value |-> IF up THEN [asked |-> Asked(f, sb), version |-> version]
                                  ELSE None,
                        age |-> 0]
             Answers(e) == \A x \in Sidebars :
                              e.value # None /\ e.args = Args(e.fetcher, x)
                                 => e.value.asked = Asked(e.fetcher, x)
  <1>1. PICK f \in {Head(run[s])} : \E e \in (IF Hits(f, sb) = {} THEN {new(f)} ELSE Hits(f, sb)) :
             /\ page' = [page EXCEPT ![s][f] = [value |-> e.value, age |-> e.age]]
             /\ cache' = Others(f, sb) \cup {e}
    BY FetchEntry
  <1>2. PICK e \in (IF Hits(f, sb) = {} THEN {new(f)} ELSE Hits(f, sb)) :
             /\ page' = [page EXCEPT ![s][f] = [value |-> e.value, age |-> e.age]]
             /\ cache' = Others(f, sb) \cup {e}
    BY <1>1
  <1>3. f \in Fetchers /\ sb \in Sidebars
    BY <1>1 DEF Fetch, TypeOK
  <1>4. e.fetcher = f /\ e.args = Args(f, sb) /\ Answers(e)
    <2>1. CASE e = new(f)
      <3>1. ASSUME NEW x \in Sidebars, Args(f, sb) = Args(f, x)
            PROVE  Asked(f, sb) = Asked(f, x)
        BY <1>3, <3>1, ArgsTell
      <3> QED
        BY <2>1, <3>1
    <2>2. CASE e \in Hits(f, sb)
      BY <2>2 DEF Hits, Entries, EntriesAnswer
    <2> QED
      BY <1>2, <2>1, <2>2
  <1>5. e.value # None => e.value.asked = Asked(f, sb)
    BY <1>3, <1>4
  <1>6. \A d \in cache' : Answers(d)
    <2>1. \A d \in cache : Answers(d)
      BY DEF EntriesAnswer
    <2> HIDE DEF Answers
    <2> QED
      BY <1>2, <1>4, <2>1 DEF Others
  <1>7. sidebar' = sidebar
    BY DEF Fetch
  <1>8. EntriesAnswer'
    BY <1>6 DEF EntriesAnswer
  <1>9. ASSUME NEW t \in Sessions, NEW g \in Fetchers, Showing(t, g)'
        PROVE  page'[t][g].value.asked = Asked(g, sidebar'[t])
    <2>1. CASE t = s /\ g = f
      <3>1. page'[t][g].value = e.value
        BY <1>2, <1>3, <2>1 DEF TypeOK
      <3> QED
        BY <1>5, <1>7, <1>9, <2>1, <3>1 DEF Showing
    <2>2. CASE ~(t = s /\ g = f)
      <3>1. page'[t][g] = page[t][g]
        BY <1>2, <1>3, <2>2 DEF TypeOK
      <3> QED
        BY <1>7, <1>9, <3>1 DEF Showing, ShownIsAsAsked
    <2> QED
      BY <2>1, <2>2
  <1>10. ShownIsAsAsked'
    BY <1>9 DEF ShownIsAsAsked
  <1> QED
    BY <1>8, <1>10

LEMMA BeginsAnswers ==
    ASSUME TypeOK, EntriesAnswer, ShownIsAsAsked, NEW s \in Sessions, NEW sb, Begins(s, sb)
    PROVE  EntriesAnswer' /\ ShownIsAsAsked'
  <1>1. EntriesAnswer'
    BY DEF EntriesAnswer, Begins
  <1>2. ASSUME NEW t \in Sessions, NEW g \in Fetchers, Showing(t, g)'
        PROVE  page'[t][g].value.asked = Asked(g, sidebar'[t])
    <2>1. t # s
      BY <1>2 DEF Begins, Blank, Showing, TypeOK
    <2>2. page'[t] = page[t] /\ sidebar'[t] = sidebar[t]
      BY <2>1 DEF Begins, TypeOK
    <2> QED
      BY <1>2, <2>2 DEF Showing, ShownIsAsAsked
  <1> QED
    BY <1>1, <1>2 DEF ShownIsAsAsked

LEMMA NextAnswers ==
    TypeOK /\ EntriesAnswer /\ ShownIsAsAsked /\ [Next]_vars => EntriesAnswer' /\ ShownIsAsAsked'
  <1> SUFFICES ASSUME TypeOK, EntriesAnswer, ShownIsAsAsked, [Next]_vars
               PROVE  EntriesAnswer' /\ ShownIsAsAsked'
    OBVIOUS
  <1> DEFINE Goal == EntriesAnswer' /\ ShownIsAsAsked'
  <1>1. ASSUME NEW s \in Sessions, NEW sb \in world.choices[s], Interact(s, sb)
        PROVE  Goal
    BY <1>1, BeginsAnswers DEF Interact
  <1>2. ASSUME NEW s \in Sessions, AutoRefresh(s) PROVE Goal
    BY <1>2, BeginsAnswers DEF AutoRefresh
  <1>3. ASSUME NEW s \in Sessions, Fetch(s) PROVE Goal
    BY <1>3, FetchAnswers
  <1>4. CASE UNCHANGED <<sidebar, page, cache>>
    BY <1>4 DEF EntriesAnswer, ShownIsAsAsked, Showing
  <1>5. CASE Tick
    <2>1. ASSUME NEW e \in cache', NEW sb \in Sidebars,
                 e.value # None, e.args = Args(e.fetcher, sb)
          PROVE  e.value.asked = Asked(e.fetcher, sb)
      <3>1. PICK o \in cache : e = [o EXCEPT !.age = @ + 1]
        BY <1>5 DEF Tick
      <3>2. e.value = o.value /\ e.args = o.args /\ e.fetcher = o.fetcher
        BY <3>1 DEF TypeOK
      <3> QED
        BY <2>1, <3>2 DEF EntriesAnswer
    <2> QED
      BY <1>5, <2>1 DEF Tick, EntriesAnswer, ShownIsAsAsked, Showing
  <1>6. ASSUME NEW s \in Sessions, Panels(s) PROVE Goal
    BY <1>4, <1>6 DEF Panels
  <1>7. CASE DataChanges \/ ProxyChanges \/ UNCHANGED vars
    BY <1>4, <1>7 DEF DataChanges, ProxyChanges, vars
  <1> QED
    BY <1>1, <1>2, <1>3, <1>5, <1>6, <1>7 DEF Next

\* A page shows what its own session asked for, with its own key and filters,
\* whoever else uses the cache.
THEOREM ShowsItsOwn == Spec => []ShownIsAsAsked
  <1>1. Init => EntriesAnswer /\ ShownIsAsAsked
    BY DEF Init, EntriesAnswer, ShownIsAsAsked, Showing, Blank
  <1> QED
    BY <1>1, NextAnswers, TypeCorrect, PTL DEF Spec
-----------------------------------------------------------------------------
(* How old it is *)

EntriesAreFresh == \A e \in cache : e.age < ttl[e.fetcher]

LEMMA FetchFresh ==
    ASSUME TypeOK, EntriesAreFresh, AutoIsRecent, NEW s \in Sessions, Fetch(s)
    PROVE  EntriesAreFresh' /\ AutoIsRecent'
  <1> DEFINE sb == sidebar[s]
             new(f) == [fetcher |-> f, args |-> Args(f, sb),
                        value |-> IF up THEN [asked |-> Asked(f, sb), version |-> version]
                                  ELSE None,
                        age |-> 0]
  <1>1. PICK f \in {Head(run[s])} : \E e \in (IF Hits(f, sb) = {} THEN {new(f)} ELSE Hits(f, sb)) :
             /\ page' = [page EXCEPT ![s][f] = [value |-> e.value, age |-> e.age]]
             /\ cache' = Others(f, sb) \cup {e}
             /\ ttl' = [ttl EXCEPT ![f] = Declared(f, sb.auto)]
    BY FetchEntry
  <1>2. PICK e \in (IF Hits(f, sb) = {} THEN {new(f)} ELSE Hits(f, sb)) :
             /\ page' = [page EXCEPT ![s][f] = [value |-> e.value, age |-> e.age]]
             /\ cache' = Others(f, sb) \cup {e}
    BY <1>1
  <1>3. f \in Fetchers /\ sb \in Sidebars /\ sb.auto \in BOOLEAN
    BY <1>1, DashboardAssumption DEF Fetch, TypeOK
  <1>4. Declared(f, sb.auto) \in 1..Long
    BY <1>3, DeclaredType
  <1>5. e.fetcher = f /\ e.age < Declared(f, sb.auto)
    <2>1. CASE e = new(f)
      BY <1>4, <2>1
    <2>2. CASE e \in Hits(f, sb)
      BY <2>2 DEF Hits, Entries, EntriesAreFresh
    <2> QED
      BY <1>2, <2>1, <2>2
  <1>6. \A g \in Fetchers : ttl'[g] = IF g = f THEN Declared(f, sb.auto) ELSE ttl[g]
    BY <1>1, <1>3 DEF TypeOK
  <1>7. ASSUME NEW d \in cache' PROVE d.age < ttl'[d.fetcher]
    <2>1. CASE d = e
      BY <1>3, <1>5, <1>6, <2>1
    <2>2. CASE d \in Others(f, sb)
      <3>1. d \in cache /\ d.fetcher \in Fetchers /\ (d.fetcher = f => ttl[f] = Declared(f, sb.auto))
        BY <2>2 DEF Others, TypeOK
      <3>2. ttl'[d.fetcher] = ttl[d.fetcher]
        BY <1>6, <3>1
      <3> QED
        BY <3>1, <3>2 DEF EntriesAreFresh
    <2> QED
      BY <1>2, <2>1, <2>2
  <1>8. ASSUME NEW t \in Sessions, NEW g \in Fetchers, sidebar'[t].auto, page'[t][g] # None
        PROVE  page'[t][g].age < Declared(g, TRUE)
    <2>1. sidebar' = sidebar
      BY DEF Fetch
    <2>2. CASE t = s /\ g = f
      <3>1. page'[t][g].age = e.age
        BY <1>2, <1>3, <2>2 DEF TypeOK
      <3>2. sb.auto = TRUE
        BY <1>3, <1>8, <2>1, <2>2
      <3> QED
        BY <1>5, <2>2, <3>1, <3>2
    <2>3. CASE ~(t = s /\ g = f)
      <3>1. page'[t][g] = page[t][g]
        BY <1>2, <1>3, <2>3 DEF TypeOK
      <3> QED
        BY <1>8, <2>1, <3>1 DEF AutoIsRecent
    <2> QED
      BY <2>2, <2>3
  <1> QED
    BY <1>7, <1>8 DEF EntriesAreFresh, AutoIsRecent

LEMMA BeginsFresh ==
    ASSUME TypeOK, EntriesAreFresh, AutoIsRecent, NEW s \in Sessions, NEW sb, Begins(s, sb)
    PROVE  EntriesAreFresh' /\ AutoIsRecent'
  <1>1. EntriesAreFresh'
    BY DEF EntriesAreFresh, Begins
  <1>2. ASSUME NEW t \in Sessions, NEW g \in Fetchers, sidebar'[t].auto, page'[t][g] # None
        PROVE  page'[t][g].age < Declared(g, TRUE)
    <2>1. t # s
      BY <1>2 DEF Begins, Blank, TypeOK
    <2>2. page'[t] = page[t] /\ sidebar'[t] = sidebar[t]
      BY <2>1 DEF Begins, TypeOK
    <2> QED
      BY <1>2, <2>2 DEF AutoIsRecent
  <1> QED
    BY <1>1, <1>2 DEF AutoIsRecent

LEMMA NextFresh ==
    TypeOK /\ EntriesAreFresh /\ AutoIsRecent /\ [Next]_vars => EntriesAreFresh' /\ AutoIsRecent'
  <1> SUFFICES ASSUME TypeOK, EntriesAreFresh, AutoIsRecent, [Next]_vars
               PROVE  EntriesAreFresh' /\ AutoIsRecent'
    OBVIOUS
  <1> DEFINE Goal == EntriesAreFresh' /\ AutoIsRecent'
  <1>1. ASSUME NEW s \in Sessions, NEW sb \in world.choices[s], Interact(s, sb)
        PROVE  Goal
    BY <1>1, BeginsFresh DEF Interact
  <1>2. ASSUME NEW s \in Sessions, AutoRefresh(s) PROVE Goal
    BY <1>2, BeginsFresh DEF AutoRefresh
  <1>3. ASSUME NEW s \in Sessions, Fetch(s) PROVE Goal
    BY <1>3, FetchFresh
  <1>4. CASE UNCHANGED <<sidebar, page, cache, ttl>>
    BY <1>4 DEF EntriesAreFresh, AutoIsRecent
  <1>5. CASE Tick
    <2>1. EntriesAreFresh'
      BY <1>5, TickType DEF EntriesAreFresh
    <2> QED
      BY <1>5, <2>1 DEF Tick, AutoIsRecent
  <1>6. ASSUME NEW s \in Sessions, Panels(s) PROVE Goal
    BY <1>4, <1>6 DEF Panels
  <1>7. CASE DataChanges \/ ProxyChanges \/ UNCHANGED vars
    BY <1>4, <1>7 DEF DataChanges, ProxyChanges, vars
  <1> QED
    BY <1>1, <1>2, <1>3, <1>5, <1>6, <1>7 DEF Next

\* A page that refreshes itself shows nothing that was older than the ttl of
\* its own fetchers, whatever the other sessions have set.
THEOREM NeverTooOld == Spec => []AutoIsRecent
  <1>1. Init => EntriesAreFresh /\ AutoIsRecent
    BY DEF Init, EntriesAreFresh, AutoIsRecent, Blank
  <1> QED
    BY <1>1, NextFresh, TypeCorrect, PTL DEF Spec
=============================================================================
