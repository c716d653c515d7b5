------------------------------ MODULE MCTiming ------------------------------
(* Instances of Timing for TLC, with three rows of the table of rates.      *)
EXTENDS Timing

O3 == <<"o3">>
O3Dated == <<"o3", "2025-04-16">>
Unlisted == <<"gpt", "5">>

TableRows == <<[name |-> O3, tps |-> 55], [name |-> <<"o4", "mini">>, tps |-> 80],
               [name |-> <<"o3", "mini">>, tps |-> 90]>>

ListedAndNot == {O3Dated, Unlisted}

Report(o, r, l) == [output |-> o, reasoning |-> r, latency |-> l]

\* Two steady pairs, one of them padded, a report off the line and mostly text, an empty one
\* and one that took no time.
MixedReports == {Report(6, 4, 1), Report(12, 9, 2), Report(24, 20, 2), Report(12, 2, 1),
                 Report(0, 0, 1), Report(6, 4, 0)}
=============================================================================
