------------------------------- MODULE Timing -------------------------------
(***************************************************************************)
(* The timing signal of proxy/estimation/timing.py: per model, a window of *)
(* the latest (tokens, latency) reports, the regression that is fitted to  *)
(* it once it is long enough, and the table of default rates before that.  *)
(* One action is the estimate and the update of one recording task         *)
(* (routes.py:740-752): neither suspends, the asyncio lock being never     *)
(* contended, so no other task comes between the two.                      *)
(*                                                                         *)
(* A model's name is the sequence of its parts, as in <<"o3", "mini">>.    *)
(* Latencies are whole ticks.  Binary floating point may put an exact      *)
(* whole number just below itself, and int() then drops one token.         *)
(***************************************************************************)
EXTENDS Integers, Sequences, FiniteSets, Functions, FiniteSetsExt, SequencesExt

CONSTANTS Models,          \* the names that calls carry
          Rates,           \* DEFAULT_TPS_RATES, in the order of the table
          Reports,         \* what a provider may report of a call
          MinPoints,       \* _MIN_DATA_POINTS
          MaxWindow,       \* _MAX_WINDOW_SIZE
          TicksPerSecond,
          MaxPoints,       \* bound: points added in one life of the process
          MaxBoots,        \* bound: restarts
          None

ASSUME TimingAssumption ==
    /\ Reports \subseteq [output : Nat, reasoning : Nat, latency : Nat]
    /\ Rates \in Seq([name : Seq(STRING), tps : Nat]) /\ None \notin Nat
    /\ MinPoints \in Nat \ {0}
    /\ MaxWindow \in Nat
    /\ MinPoints <= MaxWindow
    /\ TicksPerSecond \in Nat \ {0}
    /\ MaxPoints \in Nat
    /\ MaxBoots \in Nat

VARIABLES windows,         \* _windows: per model, its latest points
          profiled,        \* history: per model, every point of this life
          answer,          \* what the last estimate returned, and for which call
          boot

vars == <<windows, profiled, answer, boot>>

Points == [tokens : Nat, latency : Nat]

TypeOK ==
    /\ windows \in [Models -> Seq(Points)]
    /\ profiled \in [Models -> Seq(Points)]
    /\ boot \in 0..MaxBoots
    /\ answer = None
       \/ answer \in [model : Models, report : Reports, points : Nat,
                      basis : {"none", "default", "regression"}, tokens : Nat]

Init ==
    /\ windows = [m \in Models |-> <<>>]
    /\ profiled = [m \in Models |-> <<>>]
    /\ answer = None
    /\ boot = 0
-----------------------------------------------------------------------------
(* Rates *)

\* An exact match, or else the first row of the table whose name the model's
\* name starts with.
DefaultTPS(model) ==
    LET exact == SelectInSeq(Rates, LAMBDA r : r.name = model)
        first == SelectInSeq(Rates, LAMBDA r : IsPrefix(r.name, model))
    IN  CASE exact # 0 -> Rates[exact].tps
          [] exact = 0 /\ first # 0 -> Rates[first].tps
          [] OTHER -> None

\* int() of the exact quotient a / b, which floating point may miss by little.
Truncated(a, b) == IF a % b = 0 THEN {a \div b, a \div b - 1} ELSE {a \div b}
-----------------------------------------------------------------------------
(* Regression *)

Latencies(w) == [i \in DOMAIN w |-> w[i].latency]
Tokens(w) == [i \in DOMAIN w |-> w[i].tokens]
Times(f, g) == [i \in DOMAIN f |-> f[i] * g[i]]

\* n squared times the variance of the latencies.
Spread(w) ==
    LET x == Latencies(w)
    IN  Len(w) * SumFunction(Times(x, x)) - SumFunction(x) * SumFunction(x)

\* linregress refuses latencies that are all the same.
Fits(w) == Spread(w) > 0

\* int(slope * latency + intercept) of the least-squares line through w.
Predicted(w, latency) ==
    LET x == Latencies(w)
        y == Tokens(w)
        sx == SumFunction(x)
        sy == SumFunction(y)
        sxy == Len(w) * SumFunction(Times(x, y)) - sx * sy
    IN  Truncated(sy * Spread(w) + sxy * (Len(w) * latency - sx), Len(w) * Spread(w))

\* What is left of the total for reasoning, once the text tokens are taken off.
Reasoning(total, r) == Max({0, Max({0, total}) - (r.output - r.reasoning)})
-----------------------------------------------------------------------------
(* One call *)

\* Variant: the regression waits for one point more.
BasisLate(model, r) ==
    CASE r.latency = 0 -> "none"
      [] r.latency > 0 /\ Len(windows[model]) > MinPoints -> "regression"
      [] OTHER -> IF DefaultTPS(model) = None THEN "none" ELSE "default"

\* How estimate goes about a call.
Basis(model, r) ==
    CASE r.latency = 0 -> "none"
      [] r.latency > 0 /\ Len(windows[model]) >= MinPoints -> "regression"
      [] OTHER -> IF DefaultTPS(model) = None THEN "none" ELSE "default"

\* Variant: the slope alone, without the intercept, as tps_used would suggest.
EstimatesBySlope(model, r) ==
    CASE Basis(model, r) = "none" -> {0}
      [] Basis(model, r) = "default" ->
            {Reasoning(t, r) : t \in Truncated(r.latency * DefaultTPS(model), TicksPerSecond)}
      [] Basis(model, r) = "regression" ->
            {Reasoning(t, r) :
                t \in {p - q : p \in Predicted(windows[model], r.latency),
                               q \in Predicted(windows[model], 0)}}

\* The estimates the code may return (0 stands for None when there is no basis).
Estimates(model, r) ==
    CASE Basis(model, r) = "none" -> {0}
      [] Basis(model, r) = "default" ->
            {Reasoning(t, r) : t \in Truncated(r.latency * DefaultTPS(model), TicksPerSecond)}
      [] Basis(model, r) = "regression" ->
            {Reasoning(t, r) : t \in Predicted(windows[model], r.latency)}

LastN(s, n) == IF Len(s) > n THEN SubSeq(s, Len(s) - n + 1, Len(s)) ELSE s

\* Variant: the window is cut to its oldest points.
UpdatedKeepsOldest(model, r) ==
    IF r.output > 0 /\ r.latency > 0
    THEN SubSeq(Append(windows[model], [tokens |-> r.output, latency |-> r.latency]),
                1, Min({MaxWindow, Len(windows[model]) + 1}))
    ELSE windows[model]

\* profile_update: reports without tokens or latency are ignored.
Updated(model, r) ==
    IF r.output > 0 /\ r.latency > 0
    THEN LastN(Append(windows[model], [tokens |-> r.output, latency |-> r.latency]),
               MaxWindow)
    ELSE windows[model]

PointsAdded == MapThenSumSet(LAMBDA m : Len(profiled[m]), Models)

\* The task's estimate, then its update.
EstimateAndUpdate(model, r) ==
    /\ Basis(model, r) = "regression" => Fits(windows[model])
    /\ \E t \in Estimates(model, r) :
          answer' = [model |-> model, report |-> r, points |-> Len(windows[model]),
                     basis |-> Basis(model, r), tokens |-> t]
    /\ windows' = [windows EXCEPT ![model] = Updated(model, r)]
    /\ IF r.output > 0 /\ r.latency > 0
       THEN /\ PointsAdded < MaxPoints
            /\ profiled' = [profiled EXCEPT ![model] =
                  Append(@, [tokens |-> r.output, latency |-> r.latency])]
       ELSE UNCHANGED profiled
    /\ UNCHANGED boot

\* linregress raises: the task is given up before its update, so the window
\* that cannot be fitted stays as it is.
RegressionRaises(model, r) ==
    /\ Basis(model, r) = "regression" /\ ~Fits(windows[model])
    /\ answer' = None
    /\ UNCHANGED <<windows, profiled, boot>>

\* The windows are memory of the process.
Restart ==
    /\ boot < MaxBoots
    /\ boot' = boot + 1
    /\ windows' = [m \in Models |-> <<>>]
    /\ profiled' = [m \in Models |-> <<>>]
    /\ answer' = None

Next ==
    \/ \E m \in Models, r \in Reports : EstimateAndUpdate(m, r) \/ RegressionRaises(m, r)
    \/ Restart

Spec == Init /\ [][Next]_vars
-----------------------------------------------------------------------------
(* Properties *)

\* A model's window is its latest MaxWindow reports, no other model's and none
\* older: what profile_update evicts is the oldest point only.
WindowIsRecent == \A m \in Models : windows[m] = LastN(profiled[m], MaxWindow)

\* The line is fitted from the MinPoints-th report of a model on, and never
\* given up again: evictions do not take a window below the minimum, and the
\* reports of other models do not count (estimate, timing.py:133).
FittedOnceLearned ==
    answer # None /\ answer.report.latency > 0 =>
        LET m == answer.model
            before == Len(profiled[m]) - (IF answer.report.output > 0 THEN 1 ELSE 0)
        IN  answer.basis = "regression" <=> before >= MinPoints

\* When every report of a model takes the same time per token, the estimate
\* repeats the report to within a token, so that a steady provider, honest or
\* padding every answer by one factor, is never flagged by the regression.
SteadyIsReproduced ==
    answer # None /\ answer.basis = "regression" =>
        LET m == answer.model
            r == answer.report
            OnLine(p) == p.tokens * r.latency = r.output * p.latency
            seen == LastN(profiled[m], MaxWindow + 1)
        IN  (\A i \in DOMAIN seen : OnLine(seen[i]))
               => answer.tokens \in (r.reasoning - 1)..r.reasoning
=============================================================================
