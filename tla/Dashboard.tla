------------------------------ MODULE Dashboard ----------------------------
(***************************************************************************)
(* The dashboard (dashboard/app.py): a script that is run from the top at  *)
(* every interaction, with fetchers whose results, failures included, are  *)
(* cached for all sessions of the server.  The fetchers read the sidebar,  *)
(* not their arguments; the arguments only say what the cache tells apart. *)
(* Time passes in ticks of 30 seconds, between runs of the script.         *)
(***************************************************************************)
EXTENDS Integers, Sequences

CONSTANTS Sessions, Keys, Filters,   \* what may be set in a sidebar
          Sidebars,        \* bound: the settings that users choose from
          Long,            \* a ttl of 300 seconds, in ticks
          Worlds,          \* around the server: what the user of each session
                           \* chooses, whether the proxy may be out of reach,
                           \* and (a bound) how often the recorded data changes
          None

Short == 1                 \* 30 seconds
AlertLife == 2             \* 60 seconds

ASSUME DashboardAssumption ==
    /\ Filters \subseteq [dates : STRING, provider : STRING]
    /\ Long \in Nat /\ Long > AlertLife
    /\ \A w \in Worlds : /\ w.choices \in [Sessions -> SUBSET Sidebars]
                         /\ w.faults \in BOOLEAN /\ w.changes \in Nat
    /\ None \notin Keys
    /\ Sidebars \subseteq [key : Keys \cup {None}, filter : Filters, auto : BOOLEAN]

VARIABLES world,           \* never changes
          sidebar,         \* the settings of each session
          run,             \* the fetches its script has yet to make
          rest,            \* what the script does after them
          page,            \* what it shows, and how old that was when it came
          cache,           \* the entries of st.cache_data
          ttl,             \* with which ttl each fetcher was last declared
          version,         \* the state of the data behind the proxy
          up

vars == <<world, sidebar, run, rest, page, cache, ttl, version, up>>

\* fetch_calls stands for fetch_timeseries, which is declared, called and read
\* alike, and for fetch_call_detail.
Fetchers == {"summary", "calls", "alerts", "report"}
AnyProvider(filter) == [filter EXCEPT !.provider = "any"]
AnyDates(filter) == [filter EXCEPT !.dates = "any"]

\* The query a fetcher sends for a session: active alerts of any call, reports
\* on any provider, the rest as filtered.
Asked(f, sb) ==
    [key |-> sb.key,
     filter |-> CASE f = "alerts" -> AnyDates(AnyProvider(sb.filter))
                  [] f = "report" -> AnyProvider(sb.filter)
                  [] OTHER -> sb.filter]

\* An answer of the proxy, or None: the fetcher failed.
Values == {None} \cup [asked : {Asked(f, sb) : f \in Fetchers, sb \in Sidebars},
                       version : 0..world.changes]

Arguments == [key : Keys \cup {None}, filter : {sb.filter : sb \in Sidebars}
                                                \cup {AnyProvider(sb.filter) : sb \in Sidebars}]

TypeOK ==
    /\ world \in Worlds
    /\ sidebar \in [Sessions -> Sidebars]
    /\ run \in [Sessions -> Seq(Fetchers)]
    /\ rest \in [Sessions -> {"running", "idle", "asleep", "due", "stopped"}]
    /\ page \in [Sessions -> [Fetchers -> {None} \cup [value : Values, age : 0..(Long - 1)]]]
    /\ cache \subseteq [fetcher : Fetchers, args : Arguments, value : Values, age : 0..(Long - 1)]
    /\ ttl \in [Fetchers -> {Short, AlertLife, Long}]
    /\ version \in 0..world.changes
    /\ up \in BOOLEAN

Blank == [f \in Fetchers |-> None]

\* The ttl in the decorator of a fetcher.
Declared(f, auto) == CASE f = "alerts" -> AlertLife
                       [] f = "report" -> Long
                       [] OTHER -> IF auto THEN Short ELSE Long

Init ==
    /\ world \in Worlds
    /\ sidebar \in [Sessions -> {sb \in Sidebars : sb.key = None /\ ~sb.auto}]
    /\ run = [s \in Sessions |-> <<>>]
    /\ rest = [s \in Sessions |-> "stopped"]
    /\ page = [s \in Sessions |-> Blank]
    /\ cache = {}
    /\ ttl = [f \in Fetchers |-> Declared(f, FALSE)]
    /\ version = 0
    /\ up = TRUE
-----------------------------------------------------------------------------
(* The cache *)

\* Variant: sessions share an entry whatever they are set to.
ArgsOfNobody(f, sb) == [key |-> None, filter |-> AnyDates(AnyProvider(sb.filter))]

\* The arguments a fetcher is called with: _cache_key has every setting.
Args(f, sb) == [key |-> sb.key,
                filter |-> IF f = "report" THEN AnyProvider(sb.filter) ELSE sb.filter]

Entries(f, sb) == {e \in cache : e.fetcher = f /\ e.args = Args(f, sb)}

\* Variant: what was cached under another ttl is used, however old it is.
HitsForever(f, sb) == Entries(f, sb)

\* The entry of these arguments.  A fetcher that is called with another ttl than
\* before, by a session with another setting, starts with an empty cache.
Hits(f, sb) == {e \in Entries(f, sb) : ttl[f] = Declared(f, sb.auto)}

\* What stays in the cache beside that entry.
Others(f, sb) == {e \in cache \ Entries(f, sb) :
                    e.fetcher = f => ttl[f] = Declared(f, sb.auto)}
-----------------------------------------------------------------------------
(* The script *)

\* A run from the top; without an API key it stops there.
Begins(s, sb) ==
    /\ sidebar' = [sidebar EXCEPT ![s] = sb]
    /\ page' = [page EXCEPT ![s] = Blank]
    /\ IF sb.key = None
       THEN run' = [run EXCEPT ![s] = <<>>] /\ rest' = [rest EXCEPT ![s] = "stopped"]
       ELSE /\ run' = [run EXCEPT ![s] = <<"summary", "calls", "alerts">>]
            /\ rest' = [rest EXCEPT ![s] = "running"]
    /\ UNCHANGED <<world, cache, ttl, version, up>>

\* The user sets something, or clicks to run it again: also while it runs.
Interact(s, sb) == rest[s] # "due" /\ Begins(s, sb)

\* Variant: it sleeps, and then leaves it at that.
AutoRefreshOnlySleeps(s) ==
    /\ rest[s] = "due"
    /\ rest' = [rest EXCEPT ![s] = "idle"]
    /\ UNCHANGED <<world, sidebar, run, page, cache, ttl, version, up>>

\* time.sleep(30) and st.rerun(), at the end of a run with auto-refresh.
AutoRefresh(s) == rest[s] = "due" /\ Begins(s, sidebar[s])

\* The next fetcher: from the cache, or from the proxy; what it returns when
\* the proxy does not answer is cached like an answer.
Fetch(s) ==
    /\ run[s] # <<>>
    /\ LET f == Head(run[s])
           sb == sidebar[s]
           hits == Hits(f, sb)
           value == IF up THEN [asked |-> Asked(f, sb), version |-> version] ELSE None
           entry == [fetcher |-> f, args |-> Args(f, sb), value |-> value, age |-> 0]
       IN  /\ \E e \in (IF hits = {} THEN {entry} ELSE hits) :
                 /\ page' = [page EXCEPT ![s][f] = [value |-> e.value, age |-> e.age]]
                 /\ cache' = Others(f, sb) \cup {e}
           /\ ttl' = [ttl EXCEPT ![f] = Declared(f, sb.auto)]
    /\ run' = [run EXCEPT ![s] = Tail(@)]
    /\ UNCHANGED <<world, sidebar, rest, version, up>>

Showing(s, f) == page[s][f] # None /\ page[s][f].value # None

\* Without a summary the script shows an error and stops; otherwise it shows
\* its panels, fetches the report, and sleeps if it is to refresh itself.
Panels(s) ==
    /\ run[s] = <<>> /\ rest[s] = "running"
    /\ CASE ~Showing(s, "summary") -> rest' = [rest EXCEPT ![s] = "stopped"] /\ UNCHANGED run
         [] Showing(s, "summary") /\ page[s]["report"] = None ->
               run' = [run EXCEPT ![s] = <<"report">>] /\ UNCHANGED rest
         [] OTHER -> /\ rest' = [rest EXCEPT ![s] = IF sidebar[s].auto THEN "asleep" ELSE "idle"]
                     /\ UNCHANGED run
    /\ UNCHANGED <<world, sidebar, page, cache, ttl, version, up>>
-----------------------------------------------------------------------------
(* What happens around it *)

\* Variant: a cached failure does not grow old.
TickKeepsFailures ==
    /\ \A s \in Sessions : rest[s] \notin {"running", "due"}
    /\ cache' = {[e EXCEPT !.age = IF e.value = None THEN @ ELSE @ + 1] :
                   e \in {o \in cache : o.age + 1 < ttl[o.fetcher]}}
    /\ rest' = [s \in Sessions |-> IF rest[s] = "asleep" THEN "due" ELSE rest[s]]
    /\ UNCHANGED <<world, sidebar, run, page, ttl, version, up>>

\* 30 seconds pass; runs of the script are short against that.
Tick ==
    /\ \A s \in Sessions : rest[s] \notin {"running", "due"}
    /\ cache' = {[e EXCEPT !.age = @ + 1] : e \in {o \in cache : o.age + 1 < ttl[o.fetcher]}}
    /\ rest' = [s \in Sessions |-> IF rest[s] = "asleep" THEN "due" ELSE rest[s]]
    /\ UNCHANGED <<world, sidebar, run, page, ttl, version, up>>

\* Calls and alerts are recorded.
DataChanges ==
    /\ version < world.changes
    /\ version' = version + 1
    /\ UNCHANGED <<world, sidebar, run, rest, page, cache, ttl, up>>

\* The proxy goes away, or comes back.
ProxyChanges ==
    /\ world.faults
    /\ up' = ~up
    /\ UNCHANGED <<world, sidebar, run, rest, page, cache, ttl, version>>

Next ==
    \/ \E s \in Sessions :
          \/ \E sb \in world.choices[s] : Interact(s, sb)
          \/ AutoRefresh(s) \/ Fetch(s) \/ Panels(s)
    \/ Tick \/ DataChanges \/ ProxyChanges

\* Scripts run on and time passes; what users and proxies do is not promised.
Fairness ==
    /\ \A s \in Sessions : WF_vars(AutoRefresh(s)) /\ WF_vars(Fetch(s)) /\ WF_vars(Panels(s))
    /\ WF_vars(Tick)

Spec == Init /\ [][Next]_vars /\ Fairness
-----------------------------------------------------------------------------
(* Properties *)

\* A page shows what its own session asked for, with its own key and filters,
\* although sessions share the cache and the fetchers take their query from
\* elsewhere than their arguments.
ShownIsAsAsked ==
    \A s \in Sessions, f \in Fetchers :
        Showing(s, f) => page[s][f].value.asked = Asked(f, sidebar[s])

\* A page that refreshes itself shows nothing that was older than the ttl of
\* its own fetchers, although sessions with another setting use the same cache.
AutoIsRecent ==
    \A s \in Sessions, f \in Fetchers :
        sidebar[s].auto /\ page[s][f] # None => page[s][f].age < Declared(f, TRUE)

Refreshing(s) == sidebar[s].key # None /\ sidebar[s].auto
LeftAlone(s) == <>[][\A sb \in Sidebars : ~Interact(s, sb)]_vars

\* As long as the proxy answers, a page that refreshes itself and is left alone
\* comes to show the latest data, in every panel.
AutoShowsLatest ==
    \A s \in Sessions :
        []up /\ <>[]Refreshing(s) /\ LeftAlone(s) => \A f \in Fetchers :
            []<>(Showing(s, f) /\ page[s][f].value.version = version)

\* A failure that was cached is no longer shown once the proxy is back, if the
\* user tries again and again, and gives it time.
FailureExpires ==
    \A s \in Sessions :
        /\ <>[](up /\ sidebar[s].key # None)
        /\ []<><<\E sb \in Sidebars : Interact(s, sb)>>_vars /\ []<><<Tick>>_vars
        => []<>Showing(s, "summary")
=============================================================================
