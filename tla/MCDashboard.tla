----------------------------- MODULE MCDashboard ----------------------------
(* Instances of Dashboard for TLC: one user whose proxy comes and goes, one *)
(* whose data changes, and two users of one server.                         *)
EXTENDS Dashboard, TLC

CONSTANTS s1, s2, k1, k2

Filter(p) == [dates |-> "month", provider |-> p]
TwoFilters == {Filter("all"), Filter("openai")}

Setting(k, p, a) == [key |-> k, filter |-> Filter(p), auto |-> a]
New == Setting(None, "all", FALSE)
Watching == Setting(k1, "all", TRUE)
Reading == Setting(k1, "all", FALSE)
Other == Setting(k2, "openai", TRUE)
FourSettings == {New, Watching, Reading, Other}

One(sbs) == (s1 :> sbs) @@ (s2 :> {})
ThreeWorlds ==
    {[choices |-> One({New, Watching, Reading}), faults |-> TRUE, changes |-> 0],
     [choices |-> One({New, Watching, Reading}), faults |-> FALSE, changes |-> 1],
     [choices |-> (s1 :> {Watching}) @@ (s2 :> {Reading, Other}),
      faults |-> FALSE, changes |-> 0]}
=============================================================================
