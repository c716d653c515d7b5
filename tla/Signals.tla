------------------------------- MODULE Signals ------------------------------
(***************************************************************************)
(* The estimate of one recorded call: PALACE's prediction (from the loaded *)
(* model, or a placeholder computed from the prompt), its combination with *)
(* the timing estimate, and the row that is stored                         *)
(* (proxy/estimation/palace.py, aggregator.py).                            *)
(*                                                                         *)
(* A prompt is what the estimate depends on: its length, the hash modulo   *)
(* 500 and which lists of keywords it hits.  Output of the model is the    *)
(* sequence of its runs of digits, commas removed.  A percentage is in     *)
(* hundredths, a price in cents per million tokens, dollars in ten         *)
(* thousandths.                                                            *)
(***************************************************************************)
EXTENDS Integers, Sequences

CONSTANTS Prompts, Outputs, Reported, Timings,   \* what a call may bring
          Names,           \* <<provider, model>> of the calls, a model in parts
          Prices,          \* TOKEN_PRICING, in the order of the table
          DefaultPrice,    \* _DEFAULT_PRICE_PER_MILLION
          ShortSums,       \* the <<p, t>> whose weighted sum is whole, and which
                           \* binary floating point puts just below it
          ShortHighs,      \* the same of 1.15 times an estimate
          Due, Null        \* not yet known; Python's None

ASSUME SignalsAssumption ==
    /\ Prompts \subseteq [length : Nat, hash : 0..499,
                          hits : SUBSET {"math", "code", "logic", "creative"}]
    /\ Outputs \subseteq Seq(Nat)
    /\ Reported \subseteq Nat
    /\ Timings \subseteq Nat \cup {Null}
    /\ Null \notin Nat /\ Due # Null
    /\ Prices \in Seq([provider : STRING, model : Seq(STRING), cents : Nat])
    /\ DefaultPrice \in Nat
    /\ \A s \in ShortSums :
          s \in Nat \X Nat /\ 7 * s[1] + 3 * s[2] > 0 /\ (7 * s[1] + 3 * s[2]) % 10 = 0
    /\ \A e \in ShortHighs : e \in Nat \ {0} /\ (115 * e) % 100 = 0

VARIABLES loaded,          \* PALACEEstimator._loaded
          call,            \* the call whose recording is under way, or Null
          palace,          \* what predict returned, Null, or Due before that
          row              \* the EstimationResult of the last call, or Null

estimateVars == <<loaded, call, palace, row>>

Domains == {"math", "code", "logic", "creative", "general_qa"}

Calls == [prompt : Prompts, reported : Reported, timing : Timings, name : Names]

EstimateTypeOK ==
    /\ loaded \in BOOLEAN
    /\ call \in Calls \cup {Null}
    /\ palace \in {Null, Due}
       \/ palace \in [tokens : Nat, low : Nat, high : Nat, domain : Domains]
    /\ row = Null
       \/ row \in [call : Calls, predicted : BOOLEAN, palace : Nat, low : Nat, high : Nat,
                   timing : Nat, combined : Nat, discrepancy : Int, dollars : Int,
                   agree : BOOLEAN]
-----------------------------------------------------------------------------
(* PALACE *)

\* classify_prompt_domain: the first list, in this order, that the prompt hits.
Domain(prompt) ==
    CASE "math" \in prompt.hits -> "math"
      [] "math" \notin prompt.hits /\ "code" \in prompt.hits -> "code"
      [] prompt.hits \in SUBSET {"logic", "creative"} /\ "logic" \in prompt.hits -> "logic"
      [] prompt.hits = {"creative"} -> "creative"
      [] prompt.hits = {} -> "general_qa"

\* Variant: the upper bound is rounded from 0.85 and the lower from 1.15.
IntervalSwapped(e) ==
    [low |-> (e * 115) \div 100 - (IF e \in ShortHighs THEN 1 ELSE 0),
     high |-> (e * 85) \div 100]

\* The interval of plus and minus 15%, truncated.
Interval(e) ==
    [low |-> (e * 85) \div 100,
     high |-> (e * 115) \div 100 - (IF e \in ShortHighs THEN 1 ELSE 0)]

Prediction(e, prompt) ==
    [tokens |-> e, low |-> Interval(e).low, high |-> Interval(e).high,
     domain |-> Domain(prompt)]

AtLeast(n, i) == IF i < n THEN n ELSE i
AtMost(n, i) == IF i > n THEN n ELSE i

\* deterministic_from_prompt_answer; the answer is empty in the background task.
Placeholder(prompt) ==
    Prediction(AtMost(500000, AtLeast(1, AtLeast(1, prompt.length \div 40) + prompt.hash)),
               prompt)

\* _parse_token_count: the first number, or 0.
Parsed(output) == IF output = <<>> THEN 0 ELSE Head(output)
-----------------------------------------------------------------------------
(* aggregate_single_call *)

StartsWith(name, prefix) ==
    /\ Len(prefix) <= Len(name)
    /\ SubSeq(name, 1, Len(prefix)) = prefix

\* The price of the first row of the provider whose name the model's starts with.
Price(name) ==
    LET Hits == {i \in DOMAIN Prices : /\ Prices[i].provider = name.provider
                                       /\ StartsWith(name.model, Prices[i].model)}
    IN  IF Hits = {} THEN DefaultPrice
        ELSE Prices[CHOOSE i \in Hits : \A j \in Hits : i <= j].cents

\* i / n to the nearest whole number, for n > 0.
Nearest(i, n) == (2 * i + n) \div (2 * n)

\* Variant: the weights add up to more than one.
CombinedHeavy(p, t) == (7 * p + 7 * t) \div 10

\* int(0.7 * palace + 0.3 * timing)
Weighted(p, t) == (7 * p + 3 * t) \div 10 - (IF <<p, t>> \in ShortSums THEN 1 ELSE 0)

\* Whichever signals there are; without any, the report itself.
Combined(p, t, reported) ==
    CASE p # Null /\ t # Null -> Weighted(p.tokens, t)
      [] p # Null /\ t = Null -> p.tokens
      [] p = Null /\ t # Null -> t
      [] OTHER -> reported

\* Variant: the difference is taken the wrong way round.
DiscrepancyReversed(reported, combined) ==
    IF combined > 0 THEN Nearest(10000 * (combined - reported), combined) ELSE 0

Discrepancy(reported, combined) ==
    IF combined > 0 THEN Nearest(10000 * (reported - combined), combined) ELSE 0

\* Within 20% of the larger; a signal that says 0 is not compared.
Agree(p, t) ==
    LET larger == AtLeast(p, t)
        smaller == AtMost(p, t)
    IN  p > 0 /\ t > 0 => 10 * (larger - smaller) <= 2 * larger

OrZero(v) == IF v = Null THEN 0 ELSE v

\* The row stored for a call.
Aggregated(c, p) ==
    LET combined == Combined(p, c.timing, c.reported)
    IN  [call |-> c, predicted |-> p # Null,
         palace |-> IF p = Null THEN 0 ELSE p.tokens,
         low |-> IF p = Null THEN 0 ELSE p.low,
         high |-> IF p = Null THEN 0 ELSE p.high,
         timing |-> OrZero(c.timing),
         combined |-> combined,
         discrepancy |-> Discrepancy(c.reported, combined),
         dollars |-> Nearest((c.reported - combined) * Price(c.name), 10000),
         agree |-> (p # Null /\ c.timing # Null => Agree(p.tokens, c.timing))]
-----------------------------------------------------------------------------
(* The process *)

EstimateInit ==
    /\ loaded = FALSE
    /\ call = Null
    /\ palace = Null
    /\ row = Null

\* load_model, once, before the first request: it may find no files or fail,
\* and then leaves the placeholder in place.
LoadModel ==
    /\ call = Null /\ row = Null
    /\ loaded' = TRUE
    /\ UNCHANGED <<call, palace, row>>

\* A recording reaches its estimation (settings.estimation_enabled is on).
Record(c) ==
    /\ call = Null
    /\ call' = c
    /\ palace' = Due
    /\ row' = Null
    /\ UNCHANGED loaded

\* predict without a model.
PredictPlaceholder ==
    /\ palace = Due /\ ~loaded
    /\ palace' = Placeholder(call.prompt)
    /\ UNCHANGED <<loaded, call, row>>

\* predict with a model: inference in an executor, parsed.
PredictModel(output) ==
    /\ palace = Due /\ loaded
    /\ palace' = Prediction(Parsed(output), call.prompt)
    /\ UNCHANGED <<loaded, call, row>>

\* Inference raises: predict logs and returns Null.
PredictFails ==
    /\ palace = Due /\ loaded
    /\ palace' = Null
    /\ UNCHANGED <<loaded, call, row>>

\* aggregate_single_call, and the EstimationResult made of it.
Aggregate ==
    /\ call # Null /\ palace # Due
    /\ row' = Aggregated(call, palace)
    /\ call' = Null
    /\ palace' = Null
    /\ UNCHANGED loaded

EstimateNext ==
    \/ LoadModel
    \/ \E c \in Calls : Record(c)
    \/ PredictPlaceholder
    \/ \E o \in Outputs : PredictModel(o)
    \/ PredictFails
    \/ Aggregate

EstimateSpec == EstimateInit /\ [][EstimateNext]_estimateVars

\* The honoring test of the summary's SQL, for one row.
CountedAsHonoring(r) == r.low <= r.call.reported /\ r.call.reported <= r.high

\* check_honoring
CheckHonoring(r) == (r.low = 0 /\ r.high = 0) \/ CountedAsHonoring(r)
-----------------------------------------------------------------------------
(* Properties *)

\* Whatever PALACE said, its interval holds its own estimate, and a report of
\* exactly that many tokens is counted as honoring; the summary's test and that
\* of the aggregator agree on every call with an estimate above 0.
IntervalHoldsEstimate ==
    row # Null =>
        /\ row.low <= row.palace /\ row.palace <= row.high
        /\ row.predicted /\ row.call.reported = row.palace => CountedAsHonoring(row)
        /\ row.palace > 0 => (CountedAsHonoring(row) <=> CheckHonoring(row))

\* Two signals are combined to something between them, or at most one token
\* below both, which truncation costs.
CombinedIsBetween ==
    row # Null /\ row.predicted /\ row.call.timing # Null =>
        /\ row.combined >= AtMost(row.palace, row.timing) - 1
        /\ row.combined <= AtLeast(row.palace, row.timing)

\* The percentage, the dollars and the tokens tell one story: no call is both
\* overcharged in one and undercharged in another, and a call that no signal
\* covers counts as neither.
OneStory ==
    row # Null =>
        /\ row.call.reported > row.combined => row.discrepancy >= 0 /\ row.dollars >= 0
        /\ row.call.reported < row.combined => row.discrepancy <= 0 /\ row.dollars <= 0
        /\ row.combined > 0 /\ row.call.reported >= 2 * row.combined =>
              row.discrepancy >= 10000
        /\ ~row.predicted /\ row.call.timing = Null => row.discrepancy = 0 /\ row.dollars = 0
=============================================================================
