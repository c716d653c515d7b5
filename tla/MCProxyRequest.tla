--------------------------- MODULE MCProxyRequest ---------------------------
(* Instances of ProxyRequest for TLC: requests with valid keys, two of them  *)
(* with the same one, and one that validate_api_key refuses.                 *)
EXTENDS ProxyRequest, TLC

CONSTANTS q1, q2, q3, q4, q5, k1, k2, badKey

SharedKey == (q1 :> k1) @@ (q2 :> k1) @@ (q3 :> k2)
OneRefused == SharedKey @@ (q4 :> k2) @@ (q5 :> badKey)

Deployed(b, e, n, f) == [backend |-> b, exitOrder |-> e, pool |-> n, faults |-> f]
\* A pool of two runs short; one of ten has room for every session.
ThreeWays == {Deployed("sqlite", "commit_first", 2, TRUE),
              Deployed("sqlite", "commit_last", 3, TRUE),
              Deployed("postgres", "commit_last", 10, FALSE)}
LateOnSqlite == {Deployed("sqlite", "commit_last", 10, FALSE)}
=============================================================================
