----------------------------- MODULE MCLifecycle ----------------------------
(* Instances of Lifecycle for TLC.                                          *)
EXTENDS Lifecycle

Config(d, e, x, k, o) ==
    [database |-> d, env |-> e, demo |-> x, kills |-> k, outages |-> o]

\* Developers' machines, some with demo data or failures, and servers.
Deployed == {Config("memory", "development", FALSE, FALSE, FALSE),
             Config("sqlite", "development", FALSE, FALSE, FALSE),
             Config("postgres", "development", TRUE, FALSE, FALSE),
             Config("sqlite", "development", TRUE, TRUE, FALSE),
             Config("postgres", "development", FALSE, TRUE, TRUE),
             Config("postgres", "production", FALSE, TRUE, TRUE)}

FewTables == <<"users", "api_call_logs">>
=============================================================================
