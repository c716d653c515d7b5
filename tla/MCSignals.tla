------------------------------ MODULE MCSignals -----------------------------
(* Instances of Signals for TLC.  ShortSumsHere and ShortHighsHere are what *)
(* Python computes for the numbers of these instances.                      *)
EXTENDS Signals

Prompt(l, h, hits) == [length |-> l, hash |-> h, hits |-> hits]

FewPrompts == {Prompt(0, 2, {}), Prompt(2000, 50, {"math", "code"}),
               Prompt(80, 98, {"logic"})}
FewOutputs == {<<>>, <<3>>, <<10, 20>>, <<29, 3>>}
FewReported == {0, 3, 10, 29, 100, 200}
FewTimings == {Null, 0, 3, 10, 29, 110}
TableNames == {[provider |-> "openai", model |-> <<"o3", "mini">>],
               [provider |-> "anthropic", model |-> <<"o3">>]}
TableRows == <<[provider |-> "openai", model |-> <<"o3">>, cents |-> 6000],
               [provider |-> "openai", model |-> <<"o3", "mini">>, cents |-> 440]>>

ShortSumsHere == {<<3, 3>>, <<29, 29>>}
ShortHighsHere == {100, 180, 200}
=============================================================================
