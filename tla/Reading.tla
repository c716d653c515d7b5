------------------------------- MODULE Reading ------------------------------
(***************************************************************************)
(* What a user reads of the recorded calls while calls are being recorded: *)
(* the list in pages, a call's detail, the summary with its groups, the    *)
(* time series (proxy/api/routes.py) and the audit report                  *)
(* (proxy/reporting/data.py).  A request is a sequence of statements, and  *)
(* other transactions may commit between two of them.  Its own transaction *)
(* began with the UPDATE of last_used_at, so that on a SQLite file nothing *)
(* else is written until it is over; Postgres reads what is committed when *)
(* a statement starts.  Discrepancies are in hundredths of a percent.      *)
(***************************************************************************)
EXTENDS Integers, Sequences, FiniteSets, Functions, FiniteSetsExt, SequencesExt

CONSTANTS Calls, Data,     \* the calls that get recorded, and what their rows hold
          Readers, ReaderUser,
          Queries,         \* what readers ask for
          Limit,           \* the length of a page
          MaxTop,          \* the length of the report's list of calls
          MaxPeriod,       \* the days a report may span
          Backends,        \* the databases it is deployed with
          Null

\* What can be asked for, later pages included, with the filter on a provider
\* and the group_by that it names; days are numbers.
Requests ==
    [kind : {"list", "detail", "summary", "timeseries", "report"},
     provider : STRING \cup {Null}, group : STRING \cup {Null},
     from : Nat, to : Nat, offset : Nat, call : Calls]

ASSUME ReadingAssumption ==
    /\ IsFiniteSet(Calls)
    /\ \A c \in Calls : /\ Data[c].reported \in Nat
                       /\ Data[c].estimated \in Nat \cup {Null}
    /\ \A q \in Queries : q \in Requests /\ q.offset = 0
    /\ Null \notin Nat \cup Queries
    /\ Limit \in Nat \ {0} /\ MaxTop \in Nat /\ MaxPeriod \in Nat
    /\ Backends \subseteq {"sqlite", "postgres"}

VARIABLES backend,         \* "sqlite" or "postgres", for good
          stamps,          \* the calls inserted, by their timestamps
          committed,       \* those whose transactions are committed
          query,           \* what each reader last asked for, or Null
          plan,            \* the statements its request still has to run
          got,             \* what its statements returned
          seen, since      \* history: the calls on its pages so far, and those
                           \* that were there when the first one was read

readingVars == <<backend, stamps, committed, query, plan, got, seen, since>>

Statements == {"page", "estimates", "count", "call", "estimation", "overall",
               "providers", "models", "pairs", "days", "top"}

ReadingTypeOK ==
    /\ backend \in Backends
    /\ stamps \in Seq(Calls) /\ IsInjective(stamps)
    /\ committed \subseteq ToSet(stamps)
    /\ query \in [Readers -> Requests \cup {Null}]
    /\ plan \in [Readers -> Seq(Statements)]
    /\ \A r \in Readers : DOMAIN got[r] \subseteq Statements
    /\ seen \in [Readers -> SUBSET Calls]
    /\ since \in [Readers -> SUBSET Calls]

Nothing == [s \in {} |-> Null]

ReadingInit ==
    /\ backend \in Backends
    /\ stamps = <<>> /\ committed = {}
    /\ query = [r \in Readers |-> Null]
    /\ plan = [r \in Readers |-> <<>>]
    /\ got = [r \in Readers |-> Nothing]
    /\ seen = [r \in Readers |-> {}]
    /\ since = [r \in Readers |-> {}]
-----------------------------------------------------------------------------
(* Statements *)

\* The conditions of list_calls, _call_filter_conditions and _range_filters.
Matches(r, c) ==
    LET q == query[r]
    IN  /\ c \in committed
        /\ Data[c].user = ReaderUser[r]
        /\ q.provider \in {Null, Data[c].provider}
        /\ Data[c].day \in q.from..q.to

Rows(r) == {c \in Calls : Matches(r, c)}

Stamp(c) == CHOOSE i \in DOMAIN stamps : stamps[i] = c

\* The rows that are listed before c.
Newer(r, c) == {d \in Rows(r) : Stamp(d) > Stamp(c)}

\* Variant: pages are counted from one.
PageFromOne(r) ==
    {c \in Rows(r) : Cardinality(Newer(r, c)) \in
                        query[r].offset + 1 .. query[r].offset + Limit}

\* A page of the calls, newest first: those that offset to offset + Limit - 1
\* others are newer than.
Page(r) ==
    {c \in Rows(r) : Cardinality(Newer(r, c)) \in
                        query[r].offset .. query[r].offset + Limit - 1}

Nearest(i, n) == (2 * i + n) \div (2 * n)

HasEstimate(c) == Data[c].estimated # Null

\* discrepancy_pct of a row, as aggregate_single_call computed it.
Discrepancy(c) ==
    IF Data[c].estimated = 0 THEN 0
    ELSE Nearest(10000 * (Data[c].reported - Data[c].estimated), Data[c].estimated)

Reported == [c \in Calls |-> Data[c].reported]
Estimated == [c \in Calls |-> Data[c].estimated]

\* Variant: the difference is taken relative to what was reported.
AggregateOfReported(S) ==
    LET estimated == {c \in S : HasEstimate(c)}
        r == SumFunctionOnSet(Reported, S)
        e == SumFunctionOnSet(Estimated, estimated)
    IN  [calls |-> Cardinality(S), reported |-> r, estimated |-> e,
         discrepancy |-> IF r > 0 THEN Nearest(10000 * (r - e), r) ELSE 0]

\* The aggregates of a set of calls joined (outer) to their estimates: counts
\* and reports are of all of them, estimates of those that have one.
Aggregate(S) ==
    LET estimated == {c \in S : HasEstimate(c)}
        r == SumFunctionOnSet(Reported, S)
        e == SumFunctionOnSet(Estimated, estimated)
    IN  [calls |-> Cardinality(S), reported |-> r, estimated |-> e,
         discrepancy |-> IF e > 0 THEN Nearest(10000 * (r - e), e) ELSE 0]

\* _fetch_summary_stats and _fetch_overall, with the calls that count as
\* honoring: reports BETWEEN the bounds, which are NULL without an estimate.
\* (rows is history.)
Overall(r) ==
    [all |-> Aggregate(Rows(r)), rows |-> Rows(r),
     honoring |-> Cardinality({c \in Rows(r) : /\ HasEstimate(c)
                                               /\ Data[c].reported \in Data[c].low..Data[c].high})]

\* _fetch_summary_groups, by provider, by model or by both, and _fetch_groups
\* of the report, by either.
ByProvider(r) ==
    [p \in {Data[c].provider : c \in Rows(r)} |->
        Aggregate({c \in Rows(r) : Data[c].provider = p})]

\* Variant: calls without an estimate are in no group (an inner join).
ByModelInner(r) ==
    [m \in {Data[c].model : c \in {d \in Rows(r) : HasEstimate(d)}} |->
        Aggregate({c \in Rows(r) : HasEstimate(c) /\ Data[c].model = m})]

ByModel(r) ==
    [m \in {Data[c].model : c \in Rows(r)} |->
        Aggregate({c \in Rows(r) : Data[c].model = m})]

ByPair(r) ==
    [p \in {<<Data[c].provider, Data[c].model>> : c \in Rows(r)} |->
        Aggregate({c \in Rows(r) : <<Data[c].provider, Data[c].model>> = p})]

\* get_timeseries and _fetch_timeseries: the days that have calls.
ByDay(r) ==
    [d \in {Data[c].day : c \in Rows(r)} |->
        Aggregate({c \in Rows(r) : Data[c].day = d})]

Size(i) == IF i < 0 THEN -i ELSE i

\* _fetch_top_calls: the MaxTop estimated calls of the largest discrepancies;
\* the order of equal ones is the database's.
Tops(r) ==
    LET estimated == {c \in Rows(r) : HasEstimate(c)}
        n == IF Cardinality(estimated) < MaxTop THEN Cardinality(estimated) ELSE MaxTop
    IN  {T \in kSubset(n, estimated) :
            \A c \in T, d \in estimated \ T :
                Size(Discrepancy(c)) >= Size(Discrepancy(d))}
-----------------------------------------------------------------------------
(* Recording *)

Open == {c \in ToSet(stamps) : c \notin committed}
Reading(r) == plan[r] # <<>>

\* A recording task's INSERT, which takes the timestamp; on SQLite it waits for
\* every other writer, readers included.
Insert(c) ==
    /\ c \notin ToSet(stamps)
    /\ backend = "sqlite" => Open = {} /\ \A r \in Readers : ~Reading(r)
    /\ stamps' = Append(stamps, c)
    /\ UNCHANGED <<backend, committed, query, plan, got, seen, since>>

\* Its commit: the call and its estimate together, not in the order of stamps.
Commit(c) ==
    /\ c \in Open
    /\ committed' = committed \cup {c}
    /\ UNCHANGED <<backend, stamps, query, plan, got, seen, since>>
-----------------------------------------------------------------------------
(* Requests *)

\* list_calls: the page, the estimations of its calls (selectinload) and the
\* total; the next page is another request.
ListPlan == <<"page", "estimates", "count">>

\* Variant: the estimation is looked up before the call.
DetailPlanReversed == <<"estimation", "call">>

\* get_call_detail: the call, then its estimation.
DetailPlan == <<"call", "estimation">>

\* get_summary, with or without group_by.
SummaryPlan(group) ==
    CASE group = Null -> <<"overall">>
      [] group = "provider" -> <<"overall", "providers">>
      [] group = "model" -> <<"overall", "models">>
      [] group = "provider_model" -> <<"overall", "pairs">>

\* load_audit_report_bundle.
ReportPlan == <<"overall", "providers", "models", "days", "top">>

Plan(q) == CASE q.kind = "list" -> ListPlan
             [] q.kind = "detail" -> DetailPlan
             [] q.kind = "summary" -> SummaryPlan(q.group)
             [] q.kind = "timeseries" -> <<"days">>
             [] q.kind = "report" -> ReportPlan

\* Refused (422) before any statement: get_summary with another group_by, and
\* get_audit_report with a period that ends before it starts, or is too long.
Valid(q) ==
    /\ q.kind = "summary" => q.group \in {Null, "provider", "model", "provider_model"}
    /\ q.kind = "report" => q.from <= q.to /\ q.to - q.from <= MaxPeriod

\* A valid request begins.
Ask(r, q) ==
    /\ ~Reading(r) /\ Valid(q)
    /\ backend = "sqlite" => Open = {} /\ \A s \in Readers : ~Reading(s)
    /\ query' = [query EXCEPT ![r] = q]
    /\ plan' = [plan EXCEPT ![r] = Plan(q)]
    /\ got' = [got EXCEPT ![r] = Nothing]
    /\ seen' = [seen EXCEPT ![r] = {}]
    /\ since' = [since EXCEPT ![r] = {}]
    /\ UNCHANGED <<backend, stamps, committed>>

Listed(r) == ~Reading(r) /\ "page" \in DOMAIN got[r]
LastPage(r) == Listed(r) /\ Cardinality(got[r]["page"]) < Limit

\* The client asks for the page after a full one.
NextPage(r) ==
    /\ Listed(r) /\ ~LastPage(r)
    /\ backend = "sqlite" => Open = {} /\ \A s \in Readers : ~Reading(s)
    /\ query' = [query EXCEPT ![r].offset = @ + Limit]
    /\ plan' = [plan EXCEPT ![r] = ListPlan]
    /\ got' = [got EXCEPT ![r] = Nothing]
    /\ UNCHANGED <<backend, stamps, committed, seen, since>>

\* What a statement may return.
Results(r, s) ==
    CASE s = "page" -> {Page(r)}
      [] s = "estimates" -> {[c \in got[r]["page"] |->
                                 IF c \in committed THEN Data[c].estimated ELSE Null]}
      [] s = "count" -> {Cardinality(Rows(r))}
      [] s = "call" -> {IF Matches(r, query[r].call) THEN query[r].call ELSE Null}
      [] s = "estimation" -> {IF query[r].call \in committed
                              THEN Data[query[r].call].estimated ELSE Null}
      [] s = "overall" -> {Overall(r)}
      [] s = "providers" -> {ByProvider(r)}
      [] s = "models" -> {ByModel(r)}
      [] s = "pairs" -> {ByPair(r)}
      [] s = "days" -> {ByDay(r)}
      [] s = "top" -> Tops(r)

\* What is left to run when the first statement of p returned x: nothing of a
\* detail whose call is not there, or not the user's (404), and no estimations
\* of an empty page.
Left(p, x) ==
    CASE Head(p) = "call" /\ x = Null -> <<>>
      [] Head(p) = "page" /\ x = {} -> Tail(Tail(p))
      [] OTHER -> Tail(p)

\* One statement.
Execute(r) ==
    /\ Reading(r)
    /\ LET s == Head(plan[r])
       IN  \E x \in Results(r, s) :
             /\ got' = [got EXCEPT ![r] = [t \in DOMAIN @ \cup {s} |->
                                              IF t = s THEN x ELSE @[t]]]
             /\ plan' = [plan EXCEPT ![r] = Left(@, x)]
             /\ seen' = IF s = "page" THEN [seen EXCEPT ![r] = @ \cup x] ELSE seen
             /\ since' = IF s = "page" /\ query[r].offset = 0
                         THEN [since EXCEPT ![r] = Rows(r)] ELSE since
    /\ UNCHANGED <<backend, stamps, committed, query>>

ReadingNext ==
    \/ \E c \in Calls : Insert(c) \/ Commit(c)
    \/ \E r \in Readers :
          (\E q \in Queries : Ask(r, q)) \/ NextPage(r) \/ Execute(r)

ReadingSpec == ReadingInit /\ [][ReadingNext]_readingVars
-----------------------------------------------------------------------------
(* Properties *)

\* Offset pages over a list that grows at its front may repeat a call, but a
\* client that reads to the last page misses none of those that were there
\* when it began, although calls commit out of the order of their timestamps.
NothingSkipped == \A r \in Readers : LastPage(r) => since[r] \subseteq seen[r]

\* Neither a detail nor a list shows a call that was estimated without its
\* estimate, in spite of the second statement that fetches it.
DetailIsWhole ==
    \A r \in Readers : ~Reading(r) =>
        /\ {"call", "estimation"} \subseteq DOMAIN got[r] /\ got[r]["call"] # Null =>
              got[r]["estimation"] = Data[got[r]["call"]].estimated
        /\ {"page", "estimates"} \subseteq DOMAIN got[r] =>
              got[r]["estimates"] = [c \in got[r]["page"] |-> Data[c].estimated]

Sums(parts) ==
    LET Sum(f) == SumFunctionOnSet(f, DOMAIN parts)
    IN  [calls |-> Sum([k \in DOMAIN parts |-> parts[k].calls]),
         reported |-> Sum([k \in DOMAIN parts |-> parts[k].reported]),
         estimated |-> Sum([k \in DOMAIN parts |-> parts[k].estimated])]

\* On SQLite the parts of a summary or a report, read by statements of their
\* own, add up to its total, calls without an estimate included, and a page
\* fits its total.  (Postgres shows a call that commits between two of them.)
PartsAddUp ==
    backend = "sqlite" => \A r \in Readers : ~Reading(r) =>
        /\ \A s \in DOMAIN got[r] \cap {"providers", "models", "pairs", "days"} :
              "overall" \in DOMAIN got[r] =>
                  LET all == got[r]["overall"].all
                  IN  Sums(got[r][s]) = [calls |-> all.calls, reported |-> all.reported,
                                         estimated |-> all.estimated]
        /\ Listed(r) =>
              LET left == got[r]["count"] - query[r].offset
              IN  Cardinality(got[r]["page"]) = (CASE left < 0 -> 0
                                           [] left > Limit -> Limit
                                           [] OTHER -> left)

\* Where every call was estimated, and none at 0 tokens, the aggregate
\* discrepancy lies between the smallest and the largest of the calls it sums
\* up.  (With calls that were not it compares the reports of all calls with the
\* estimates of some; with an estimate of 0 the discrepancy of the row is 0
\* whatever it reports, and its report still counts in the aggregate.)
AggregateIsBetween ==
    \A r \in Readers : "overall" \in DOMAIN got[r] =>
        LET rows == got[r]["overall"].rows
            D == {Discrepancy(c) : c \in rows}
            d == got[r]["overall"].all.discrepancy
        IN  rows # {} /\ (\A c \in rows : HasEstimate(c) /\ Data[c].estimated > 0)
                => Min(D) <= d /\ d <= Max(D)
=============================================================================
