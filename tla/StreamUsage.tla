---------------------------- MODULE StreamUsage -----------------------------
(***************************************************************************)
(* One exchange with a provider, in the adapters proxy/providers/openai.py *)
(* and anthropic.py: the request is forwarded, a plain answer is read at   *)
(* once, a stream line by line; the lines are kept and replayed when the   *)
(* stream has ended, and the usage found among them is what gets recorded. *)
(*                                                                         *)
(* A line is what the parsers tell apart.  A usage says of each field what *)
(* the provider reports, which may be an explicit null, and None where it  *)
(* does not.  An event has one data line, as both providers send them.     *)
(***************************************************************************)
EXTENDS Integers, Sequences, FiniteSets, FiniteSetsExt, SequencesExt

CONSTANTS Lines,           \* Lines[p]: the lines provider p may send
          Usages, Models,
          MaxLines,        \* bound: the length of a stream
          None, Null       \* what is absent, and JSON's null

Fields == {"input", "output", "reasoning"}
NoUsage == [f \in Fields |-> None]
Blank == [kind |-> "blank"]
Providers == {"openai", "anthropic"}

ASSUME StreamAssumption ==
    /\ Usages \subseteq [Fields -> Nat \cup {Null, None}]
    /\ None \notin Nat \cup Models \cup {Null}
    /\ DOMAIN Lines = Providers
    /\ Lines["openai"] \subseteq
          [kind : {"comment", "done", "bad"}]
          \cup [kind : {"chunk"}, model : Models \cup {None}, usage : Usages \cup {None}]
    /\ Lines["anthropic"] \subseteq
          [kind : {"comment", "event", "bad"}]
          \cup [kind : {"start", "delta", "error"},
                model : Models \cup {None}, usage : Usages \cup {None}]
    /\ MaxLines \in Nat

VARIABLES provider,        \* whose adapter the exchange is with
          exchange,        \* "idle", "plain", "streaming"
          sent,            \* history: the lines the provider has sent
          chunks,          \* the lines kept for the client
          usage,           \* raw_usage
          model,           \* model_name, None while it is the request's
          outcome          \* what became of the last exchange

exchangeVars == <<provider, exchange, sent, chunks, usage, model, outcome>>

AllLines == (UNION {Lines[p] : p \in Providers}) \cup {Blank}
IsData(l) == l.kind \in {"done", "bad", "chunk", "start", "delta", "error"}

\* How an exchange can end for its client, and with what to record.
Outcomes ==
    [status : {200, 400, 500, 502, 504},
     kind : {"unknown", "plain", "stream", "timeout", "api_error", "network", "unparsed"},
     lines : Seq(AllLines), tokens : [Fields -> Nat \cup {Null}]]

ExchangeTypeOK ==
    /\ provider \in Providers
    /\ exchange \in {"idle", "plain", "streaming"}
    /\ sent \in Seq(AllLines)
    /\ chunks \in Seq(AllLines)
    /\ usage \in [Fields -> Nat \cup {Null, None}]
    /\ model \in Models \cup {None}
    /\ outcome \in {None} \cup Outcomes

ExchangeInit ==
    /\ provider = "openai"
    /\ exchange = "idle"
    /\ sent = <<>> /\ chunks = <<>>
    /\ usage = NoUsage /\ model = None
    /\ outcome = None
-----------------------------------------------------------------------------
(* What is recorded of a usage *)

\* The three counts of a usage: a field that is not there counts as 0.  A null
\* does so in extract_reasoning_tokens alone; the other two are left null, and
\* whoever computes with them fails.
Tokens(u) ==
    [f \in Fields |-> IF u[f] = None \/ (f = "reasoning" /\ u[f] = Null) THEN 0 ELSE u[f]]

NoTokens == [f \in Fields |-> 0]

Ends(status, kind, lines, tokens) ==
    /\ outcome' = [status |-> status, kind |-> kind, lines |-> lines, tokens |-> tokens]
    /\ exchange' = "idle"
-----------------------------------------------------------------------------
(* The exchange *)

\* proxy_request finds the adapter of the path's provider and forwards, as the
\* client asked; the locals of the adapter start afresh.
Begin(p, streaming) ==
    /\ exchange = "idle"
    /\ provider' = p
    /\ exchange' = IF streaming THEN "streaming" ELSE "plain"
    /\ sent' = <<>> /\ chunks' = <<>>
    /\ usage' = NoUsage /\ model' = None
    /\ outcome' = None

\* ProviderRegistry.get: no adapter of that name.
UnknownProvider ==
    /\ exchange = "idle"
    /\ Ends(400, "unknown", <<>>, NoTokens)
    /\ UNCHANGED <<provider, sent, chunks, usage, model>>

\* forward_request: an answer with a usage, or without one.
PlainAnswer ==
    /\ exchange = "plain"
    /\ \E u \in Usages \cup {NoUsage} :
          /\ usage' = u
          /\ Ends(200, "plain", <<>>, Tokens(u))
    /\ UNCHANGED <<provider, sent, chunks, model>>

\* The exceptions of forward_request: no answer in time, an error status, no
\* connection, and an answer that is not JSON or whose usage is null, which
\* nothing translates.
PlainFails ==
    /\ exchange = "plain"
    /\ \/ Ends(504, "timeout", <<>>, NoTokens)
       \/ Ends(502, "api_error", <<>>, NoTokens)
       \/ Ends(502, "network", <<>>, NoTokens)
       \/ Ends(500, "unparsed", <<>>, NoTokens)
    /\ UNCHANGED <<provider, sent, chunks, usage, model>>

\* An event of a provider has one data line, and a blank line ends it.
MayFollow(l) == (sent # <<>> /\ IsData(Last(sent))) <=> l = Blank

\* Variant: the line that ends the stream is not kept.
OpenAILineDropsDone(l) ==
    /\ chunks' = CASE l.kind = "done" -> chunks
                   [] IsData(l) /\ l.kind # "done" -> chunks \o <<l, Blank>>
                   [] OTHER -> Append(chunks, l)
    /\ IF l.kind = "chunk"
       THEN /\ model' = IF l.model # None THEN l.model ELSE model
            /\ usage' = IF l.usage # None THEN l.usage ELSE usage
       ELSE UNCHANGED <<model, usage>>

\* OpenAI: a data line gets a blank line of its own, the provider's follows;
\* any chunk may name the model, and its usage replaces what was there.
OpenAILine(l) ==
    /\ chunks' = IF IsData(l) THEN chunks \o <<l, Blank>> ELSE Append(chunks, l)
    /\ IF l.kind = "chunk"
       THEN /\ model' = IF l.model # None THEN l.model ELSE model
            /\ usage' = IF l.usage # None THEN l.usage ELSE usage
       ELSE UNCHANGED <<model, usage>>

\* Variant: the usage of a message_delta replaces that of message_start.
AnthropicLineReplaces(l) ==
    /\ chunks' = Append(chunks, l)
    /\ model' = IF l.kind = "start" /\ l.model # None THEN l.model ELSE model
    /\ usage' = IF l.kind \in {"start", "delta"} /\ l.usage # None THEN l.usage ELSE usage

\* Anthropic: lines are kept as they are; message_start names the model, and
\* its usage and those of message_delta are merged, a null like a number.
AnthropicLine(l) ==
    /\ chunks' = Append(chunks, l)
    /\ model' = IF l.kind = "start" /\ l.model # None THEN l.model ELSE model
    /\ usage' = IF l.kind \in {"start", "delta"} /\ l.usage # None
                THEN [f \in Fields |-> IF l.usage[f] # None THEN l.usage[f] ELSE usage[f]]
                ELSE usage

\* forward_streaming_request reads one line.
ReadLine(l) ==
    /\ exchange = "streaming" /\ Len(sent) < MaxLines
    /\ l \in Lines[provider] \cup {Blank} /\ MayFollow(l)
    /\ sent' = Append(sent, l)
    /\ IF provider = "openai" THEN OpenAILine(l) ELSE AnthropicLine(l)
    /\ UNCHANGED <<provider, exchange, outcome>>

\* The provider ends the stream: what was kept is replayed, and recorded, even
\* if the stream stopped before its last event.
StreamEnds ==
    /\ exchange = "streaming"
    /\ Ends(200, "stream", chunks, Tokens(usage))
    /\ UNCHANGED <<provider, sent, chunks, usage, model>>

\* The exceptions of forward_streaming_request: what was kept is dropped.  An
\* error status is found before the first line, and its handler reads the body
\* of a stream that is closed: httpx raises ResponseNotRead, which reaches the
\* handler of unexpected errors.  So does a data line, wherever it comes, of
\* JSON that is no object, or whose message or usage is null.
StreamFails ==
    /\ exchange = "streaming"
    /\ \/ Ends(504, "timeout", <<>>, NoTokens)
       \/ sent = <<>> /\ Ends(500, "api_error", <<>>, NoTokens)
       \/ Ends(502, "network", <<>>, NoTokens)
       \/ Ends(500, "unparsed", <<>>, NoTokens)
    /\ UNCHANGED <<provider, sent, chunks, usage, model>>

ExchangeNext ==
    \/ \E p \in Providers, streaming \in BOOLEAN : Begin(p, streaming)
    \/ UnknownProvider \/ PlainAnswer \/ PlainFails
    \/ \E l \in AllLines : ReadLine(l)
    \/ StreamEnds \/ StreamFails

ExchangeSpec == ExchangeInit /\ [][ExchangeNext]_exchangeVars
-----------------------------------------------------------------------------
(* Properties *)

Reports(l) == IsData(l) /\ l.kind \in {"chunk", "start", "delta"} /\ l.usage # None

Names(l) == l.kind \in {"chunk", "start"} /\ l.model # None

\* Wherever in a stream usage and model are reported, once, again or in parts,
\* what is held is the last thing said: of OpenAI the last usage as a whole, of
\* Anthropic the last value of each field, null or not, whichever event carried
\* it.
UsageIsLastReported ==
    exchange = "streaming" =>
        LET said == {i \in DOMAIN sent : Reports(sent[i])}
            of(f) == {i \in said : provider = "anthropic" => sent[i].usage[f] # None}
            named == {i \in DOMAIN sent : Names(sent[i])}
        IN  /\ usage = [f \in Fields |->
                          IF of(f) = {} THEN None ELSE sent[Max(of(f))].usage[f]]
            /\ model = IF named = {} THEN None ELSE sent[Max(named)].model

\* What a client makes of one more line: at a blank line, the lines since the
\* last one are an event, if data is among them.
Received(acc, l) ==
    IF l # Blank THEN [open |-> Append(acc.open, l), events |-> acc.events]
    ELSE [open |-> <<>>,
          events |-> IF \E i \in DOMAIN acc.open : IsData(acc.open[i])
                     THEN Append(acc.events, acc.open) ELSE acc.events]

\* The events a client dispatches of the lines of s.
Reception(s) ==
    LET at[n \in 0..Len(s)] ==
            IF n = 0 THEN [open |-> <<>>, events |-> <<>>] ELSE Received(at[n - 1], s[n])
    IN  at[Len(s)]
Dispatched(s) == Reception(s).events

\* The replay of a stream, blank lines added or not, gives the client the
\* events the provider sent, in order, none split, joined, dropped or doubled.
ReplayKeepsEvents ==
    outcome # None /\ outcome.kind = "stream" =>
        (sent = <<>> \/ Last(sent) = Blank => Dispatched(outcome.lines) = Dispatched(sent))
=============================================================================
