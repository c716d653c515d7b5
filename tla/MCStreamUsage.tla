---------------------------- MODULE MCStreamUsage ---------------------------
(* Instances of StreamUsage for TLC: the lines each provider sends.         *)
EXTENDS StreamUsage

CONSTANTS m1, m2

Usage(i, o, r) == [input |-> i, output |-> o, reasoning |-> r]
FewUsages == {Usage(5, 1, None), Usage(5, 9, 6), Usage(None, 9, None), Usage(5, Null, Null)}

Line(k) == [kind |-> k]
Data(k, m, u) == [kind |-> k, model |-> m, usage |-> u]

OpenAILines == {Line("comment"), Line("done"), Line("bad"),
                Data("chunk", m1, None), Data("chunk", m2, None),
                Data("chunk", None, Usage(5, 1, None)), Data("chunk", m1, Usage(5, 9, 6)),
                Data("chunk", None, Usage(5, Null, Null))}
AnthropicLines == {Line("event"), Line("bad"),
                   Data("start", m2, Usage(5, 1, None)), Data("start", None, None),
                   Data("delta", None, Usage(None, 9, None)),
                   Data("delta", None, Usage(5, 9, 6)),
                   Data("delta", None, Usage(5, Null, Null)), Data("error", None, None)}

LinesOf == [p \in Providers |-> IF p = "openai" THEN OpenAILines ELSE AnthropicLines]
=============================================================================
