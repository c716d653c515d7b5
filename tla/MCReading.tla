------------------------------ MODULE MCReading -----------------------------
(* Instances of Reading for TLC.                                            *)
EXTENDS Reading, TLC

CONSTANTS c1, c2, c3, c4, r1, u1, u2

Row(u, p, m, d, rep, est) ==
    [user |-> u, provider |-> p, model |-> m, day |-> d, reported |-> rep,
     estimated |-> est,
     low |-> IF est = Null THEN 0 ELSE (est * 85) \div 100,
     high |-> IF est = Null THEN 0 ELSE (est * 115) \div 100]

\* Three calls of one user, one of them without an estimate, and one of another.
MixedRows == (c1 :> Row(u1, "openai", "o3", 1, 120, 100))
             @@ (c2 :> Row(u1, "anthropic", "claude", 2, 50, 100))
             @@ (c3 :> Row(u1, "openai", "o1", 2, 30, Null))
             @@ (c4 :> Row(u2, "openai", "o3", 1, 7, 7))
OneUser == (r1 :> u1)

Query(k, p, from, to) ==
    [kind |-> k, provider |-> p, group |-> Null, from |-> from, to |-> to, offset |-> 0, call |-> c1]
Grouped(g) == [Query("summary", Null, 0, 9) EXCEPT !.group = g]
Everything ==
    {Query("list", Null, 0, 9), Query("list", "openai", 0, 9),
     Query("detail", Null, 0, 9), Query("timeseries", Null, 1, 1),
     Query("summary", "openai", 2, 9), Grouped("provider"), Grouped("model"),
     Grouped("provider_model"), Grouped("day"),
     Query("report", Null, 1, 2), Query("report", Null, 2, 1), Query("report", Null, 0, 9)}
=============================================================================
