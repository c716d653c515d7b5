------------------------------- MODULE Quota -------------------------------
(***************************************************************************)
(* What a per-key rate limit promises, with no window kept anywhere: a     *)
(* request is admitted exactly when fewer than Limit requests of its key   *)
(* were admitted in the last Window time units of this process's life.     *)
(*                                                                         *)
(* RateLimiter.tla is the code's sliding window, which must answer the     *)
(* same from the few timestamps it keeps.                                  *)
(***************************************************************************)
EXTENDS Integers, FiniteSets

CONSTANTS Keys,        \* hashes of the API keys
          Limit,       \* rate_limit_per_minute
          Window       \* the 60 seconds of the sliding window, in ticks

VARIABLES now,         \* time.monotonic()
          boot,        \* which life of the process this is
          admitted,    \* admitted[k]: every admission of key k ever made
          verdict      \* the last answer of the limiter

quotaVars == <<now, boot, admitted, verdict>>

NoVerdict == [kind |-> "none"]

\* The admissions of key k that this life of the process made in the Window
\* up to and including the instant t.
Recent(k, t) ==
    {a \in admitted[k] : a.boot = boot /\ t - Window < a.at /\ a.at <= t}

QuotaInit ==
    /\ now = 0
    /\ boot = 0
    /\ admitted = [k \in Keys |-> {}]
    /\ verdict = NoVerdict

Admit(k) ==
    /\ Cardinality(Recent(k, now)) < Limit
    /\ LET a == [boot |-> boot, at |-> now, n |-> Cardinality(admitted[k])]
       IN  admitted' = [admitted EXCEPT ![k] = @ \cup {a}]
    /\ verdict' = [kind |-> "admitted", key |-> k]
    /\ UNCHANGED <<now, boot>>

Reject(k) ==
    /\ Cardinality(Recent(k, now)) >= Limit
    /\ verdict' = [kind |-> "rejected", key |-> k]
    /\ UNCHANGED <<now, boot, admitted>>

\* The clock of one process never goes back, and a restarted process starts
\* with no memory of what its predecessor admitted.
Elapse == /\ now' \in Nat
          /\ now' > now
          /\ verdict' = NoVerdict
          /\ UNCHANGED <<boot, admitted>>

Forget == /\ boot' = boot + 1
          /\ verdict' = NoVerdict
          /\ UNCHANGED <<now, admitted>>

QuotaNext == (\E k \in Keys : Admit(k) \/ Reject(k)) \/ Elapse \/ Forget

QuotaSpec == QuotaInit /\ [][QuotaNext]_quotaVars
=============================================================================
