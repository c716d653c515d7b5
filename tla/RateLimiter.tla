---------------------------- MODULE RateLimiter ----------------------------
(***************************************************************************)
(* The in-memory sliding-window rate limiter of proxy/api/auth.py:         *)
(* _rate_limit_windows and _check_rate_limit.  A key's window is a list of *)
(* monotonic timestamps; the order of the list never matters to the code   *)
(* (it filters, counts and appends), so a window is a set of admissions,   *)
(* each with its instant and a number that tells two of one instant apart. *)
(***************************************************************************)
EXTENDS Integers, FiniteSets

CONSTANTS Keys, Limit, Window,
          MaxNow,      \* bound: the clock stops here
          MaxBoots     \* bound: so many restarts of the process

ASSUME RateAssumption ==
    /\ Limit \in Nat
    /\ Window \in Nat \ {0}
    /\ MaxNow \in Nat
    /\ MaxBoots \in Nat

VARIABLES now, boot,
          windows,     \* _rate_limit_windows: per key, the timestamps kept
          admitted,    \* history: per key, every admission ever made
          verdict      \* the last answer: raise or return

vars == <<now, boot, windows, admitted, verdict>>

Promise == INSTANCE Quota

Admissions == [boot : 0..MaxBoots, at : 0..MaxNow, n : Nat]

TypeOK ==
    /\ now \in 0..MaxNow
    /\ boot \in 0..MaxBoots
    /\ windows \in [Keys -> SUBSET Admissions]
    /\ admitted \in [Keys -> SUBSET Admissions]
    /\ verdict \in {Promise!NoVerdict}
                   \cup [kind : {"admitted", "rejected"}, key : Keys]

Init ==
    /\ now = 0
    /\ boot = 0
    /\ windows = [k \in Keys |-> {}]
    /\ admitted = [k \in Keys |-> {}]
    /\ verdict = Promise!NoVerdict

\* Variant: an entry of exactly one window ago still counts.
KeptAtCutoff(k) == {e \in windows[k] : e.at >= now - Window}

\* The entries that survive the eviction: t > now - 60.
Kept(k) == {e \in windows[k] : e.at > now - Window}

\* Variant: the limit is tested with > instead of >=.
CheckAdmitsOneMore(k) ==
    /\ Cardinality(Kept(k)) <= Limit
    /\ LET e == [boot |-> boot, at |-> now, n |-> Cardinality(admitted[k])]
       IN  /\ windows' = [windows EXCEPT ![k] = Kept(k) \cup {e}]
           /\ admitted' = [admitted EXCEPT ![k] = @ \cup {e}]
    /\ verdict' = [kind |-> "admitted", key |-> k]
    /\ UNCHANGED <<now, boot>>

\* Variant: the cutoff is appended in place of the present instant.
CheckAdmitsAtCutoff(k) ==
    /\ Cardinality(Kept(k)) < Limit
    /\ LET e == [boot |-> boot, at |-> now - Window, n |-> Cardinality(admitted[k])]
       IN  /\ windows' = [windows EXCEPT ![k] = Kept(k) \cup {e}]
           /\ admitted' = [admitted EXCEPT ![k] = @ \cup {e}]
    /\ verdict' = [kind |-> "admitted", key |-> k]
    /\ UNCHANGED <<now, boot>>

\* The request is admitted: the eviction is stored, then the timestamp added.
CheckAdmits(k) ==
    /\ Cardinality(Kept(k)) < Limit
    /\ LET e == [boot |-> boot, at |-> now, n |-> Cardinality(admitted[k])]
       IN  /\ windows' = [windows EXCEPT ![k] = Kept(k) \cup {e}]
           /\ admitted' = [admitted EXCEPT ![k] = @ \cup {e}]
    /\ verdict' = [kind |-> "admitted", key |-> k]
    /\ UNCHANGED <<now, boot>>

\* RateLimitExceededError: the eviction is stored all the same, and the
\* refused request takes no slot.
CheckRaises(k) ==
    /\ Cardinality(Kept(k)) >= Limit
    /\ windows' = [windows EXCEPT ![k] = Kept(k)]
    /\ verdict' = [kind |-> "rejected", key |-> k]
    /\ UNCHANGED <<now, boot, admitted>>

\* time.monotonic() moves on between two requests.
Tick ==
    /\ \E t \in (now + 1)..MaxNow : now' = t
    /\ verdict' = Promise!NoVerdict
    /\ UNCHANGED <<boot, windows, admitted>>

\* A restart of the process: the windows are module state and start empty.
Restart ==
    /\ boot < MaxBoots
    /\ boot' = boot + 1
    /\ windows' = [k \in Keys |-> {}]
    /\ verdict' = Promise!NoVerdict
    /\ UNCHANGED <<now, admitted>>

Next == (\E k \in Keys : CheckAdmits(k) \/ CheckRaises(k)) \/ Tick \/ Restart

Spec == Init /\ [][Next]_vars
-----------------------------------------------------------------------------
(* Properties *)

\* In no Window of one life of the process are more than Limit requests of a
\* key admitted, wherever the window is placed: a burst at the end of one
\* minute and another at the start of the next count together
\* (_check_rate_limit keeps instants, not a counter per minute).
WindowBound ==
    \A k \in Keys, b \in 0..boot, t \in 0..now :
        Cardinality({a \in admitted[k] :
                        a.boot = b /\ t - Window < a.at /\ a.at <= t}) <= Limit

\* The window answers as Quota does from the whole history: evicting entries
\* loses none that count, keeps none that do not, and a refused request
\* leaves no trace that would refuse a later one.
KeepsQuota == Promise!QuotaSpec
=============================================================================
