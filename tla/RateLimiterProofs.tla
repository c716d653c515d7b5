------------------------- MODULE RateLimiterProofs -------------------------
(***************************************************************************)
(* Theorems about the sliding-window rate limiter, for every set of keys,  *)
(* limit and window: its state is well formed, it answers as Quota does    *)
(* from the whole history, and no window of time admits more than Limit.   *)
(*                                                                         *)
(* The argument rests on one fact, that after the eviction a key's list    *)
(* holds exactly the admissions of this process's life that are less than  *)
(* Window old (KeptIsRecent).  WindowInv is what makes it inductive: the   *)
(* list holds real admissions of this life only, and misses none of the    *)
(* recent ones, because the clock moves forward alone.                     *)
(***************************************************************************)
EXTENDS RateLimiter, FiniteSetTheorems, TLAPS

ListInv ==
    \A k \in Keys :
        /\ IsFiniteSet(admitted[k])
        /\ \A a \in admitted[k] : a.boot <= boot /\ a.at <= now
        /\ \A e \in windows[k] : e \in admitted[k] /\ e.boot = boot
        /\ \A a \in admitted[k] :
              a.boot = boot /\ a.at > now - Window => a \in windows[k]

WindowInv == TypeOK /\ ListInv /\ WindowBound
-----------------------------------------------------------------------------
\* Quota counts with the same Cardinality.
LEMMA SameCardinality == \A S : Promise!Cardinality(S) = Cardinality(S)
  BY DEF Promise!Cardinality, Cardinality, Promise!IsFiniteSet, IsFiniteSet

\* What the eviction keeps is what the promise counts.
LEMMA KeptIsRecent ==
    ASSUME TypeOK, ListInv, NEW k \in Keys
    PROVE  /\ Kept(k) = Promise!Recent(k, now)
           /\ IsFiniteSet(Kept(k))
           /\ Kept(k) \subseteq admitted[k]
  <1>1. Kept(k) = Promise!Recent(k, now)
    BY RateAssumption DEF TypeOK, ListInv, Kept, Promise!Recent, Admissions
  <1>2. Kept(k) \subseteq admitted[k]
    BY DEF ListInv, Kept
  <1>3. IsFiniteSet(Kept(k))
    BY <1>2, FS_Subset DEF ListInv
  <1> QED
    BY <1>1, <1>2, <1>3

LEMMA InitInv == Init => WindowInv
  <1> SUFFICES ASSUME Init PROVE WindowInv
    OBVIOUS
  <1>1. TypeOK
    BY RateAssumption DEF Init, TypeOK
  <1>2. ListInv
    BY FS_EmptySet DEF Init, ListInv
  <1>3. WindowBound
    <2> SUFFICES ASSUME NEW k \in Keys, NEW b \in 0..boot, NEW t \in 0..now
                 PROVE  Cardinality({a \in admitted[k] :
                           a.boot = b /\ t - Window < a.at /\ a.at <= t}) <= Limit
      BY DEF WindowBound
    <2>1. {a \in admitted[k] : a.boot = b /\ t - Window < a.at /\ a.at <= t} = {}
      BY DEF Init
    <2> QED
      BY <2>1, FS_EmptySet, RateAssumption
  <1> QED
    BY <1>1, <1>2, <1>3 DEF WindowInv

\* A placement of the window whose admissions a step leaves alone keeps its
\* bound.
LEMMA FrameBound ==
    ASSUME WindowInv, NEW k \in Keys, NEW b \in 0..boot, NEW t \in 0..now,
           {a \in admitted'[k] : a.boot = b /\ t - Window < a.at /\ a.at <= t}
             = {a \in admitted[k] : a.boot = b /\ t - Window < a.at /\ a.at <= t}
    PROVE  Cardinality({a \in admitted'[k] :
                   a.boot = b /\ t - Window < a.at /\ a.at <= t}) <= Limit
  BY DEF WindowInv, WindowBound

LEMMA AdmitInv == ASSUME WindowInv, NEW j \in Keys, CheckAdmits(j)
                  PROVE  WindowInv'
  <1> DEFINE e == [boot |-> boot, at |-> now, n |-> Cardinality(admitted[j])]
  <1>1. /\ windows' = [windows EXCEPT ![j] = Kept(j) \cup {e}]
        /\ admitted' = [admitted EXCEPT ![j] = @ \cup {e}]
        /\ verdict' = [kind |-> "admitted", key |-> j]
        /\ now' = now /\ boot' = boot
        /\ Cardinality(Kept(j)) < Limit
    BY DEF CheckAdmits
  <1>2. TypeOK /\ ListInv /\ WindowBound
    BY DEF WindowInv
  <1>3. e \in Admissions
    <2>1. Cardinality(admitted[j]) \in Nat
      BY <1>2, FS_CardinalityType DEF ListInv
    <2> QED
      BY <2>1, <1>2 DEF TypeOK, Admissions
  <1>4. TypeOK'
    <2>1. Kept(j) \subseteq Admissions
      BY <1>2 DEF TypeOK, Kept
    <2> QED
      BY <1>1, <1>2, <1>3, <2>1 DEF TypeOK
  <1>5. ListInv'
    <2> SUFFICES ASSUME NEW k \in Keys
                 PROVE  /\ IsFiniteSet(admitted'[k])
                        /\ \A a \in admitted'[k] : a.boot <= boot /\ a.at <= now
                        /\ \A x \in windows'[k] : x \in admitted'[k] /\ x.boot = boot
                        /\ \A a \in admitted'[k] :
                              a.boot = boot /\ a.at > now - Window
                                => a \in windows'[k]
      BY <1>1 DEF ListInv
    <2>1. CASE k # j
      BY <1>1, <1>2, <2>1 DEF ListInv, TypeOK
    <2>2. CASE k = j
      <3>1. admitted'[j] = admitted[j] \cup {e} /\ windows'[j] = Kept(j) \cup {e}
        BY <1>1, <1>2 DEF TypeOK
      <3>2. IsFiniteSet(admitted'[j])
        <4>1. IsFiniteSet(admitted[j])
          BY <1>2 DEF ListInv
        <4> HIDE DEF e
        <4>2. IsFiniteSet(admitted[j] \cup {e})
          BY <4>1, FS_AddElement
        <4> QED
          BY <4>2, <3>1
      <3>3. \A a \in admitted'[j] : a.boot <= boot /\ a.at <= now
        BY <3>1, <1>2 DEF ListInv, TypeOK
      <3>4. \A x \in windows'[j] : x \in admitted'[j] /\ x.boot = boot
        BY <3>1, <1>2 DEF ListInv, Kept
      <3>5. \A a \in admitted'[j] :
               a.boot = boot /\ a.at > now - Window => a \in windows'[j]
        BY <3>1, <1>2 DEF ListInv, Kept
      <3> QED
        BY <2>2, <3>2, <3>3, <3>4, <3>5
    <2> QED
      BY <2>1, <2>2
  <1>6. WindowBound'
    <2> SUFFICES ASSUME NEW k \in Keys, NEW b \in 0..boot, NEW t \in 0..now
                 PROVE  Cardinality({a \in admitted'[k] :
                           a.boot = b /\ t - Window < a.at /\ a.at <= t}) <= Limit
      BY <1>1 DEF WindowBound
    <2> DEFINE S == {a \in admitted'[k] : a.boot = b /\ t - Window < a.at /\ a.at <= t}
    <2>1. CASE ~(k = j /\ b = boot /\ t = now)
      <3>1. S = {a \in admitted[k] : a.boot = b /\ t - Window < a.at /\ a.at <= t}
        <4>1. t < now => ~(e.at <= t)
          BY <1>2, RateAssumption DEF TypeOK
        <4>2. b # boot => e.boot # b
          OBVIOUS
        <4>3. t \in Int /\ t <= now
          BY <1>2, RateAssumption DEF TypeOK
        <4> HIDE DEF e
        <4>4. k = j => ~(e.boot = b /\ e.at <= t)
          BY <2>1, <4>1, <4>2, <4>3, <1>2, RateAssumption DEF TypeOK
        <4>5. admitted'[k] = IF k = j THEN admitted[k] \cup {e} ELSE admitted[k]
          BY <1>1, <1>2 DEF TypeOK, e
        <4> QED
          BY <4>4, <4>5
      <3> QED
        BY <3>1, FrameBound
    <2>2. CASE k = j /\ b = boot /\ t = now
      \* Everything in the window that ends now was kept, and e comes on top.
      <3>1. Kept(j) = Promise!Recent(j, now) /\ IsFiniteSet(Kept(j))
        BY <1>2, KeptIsRecent
      <3>2. S \subseteq Kept(j) \cup {e}
        BY <1>1, <1>2, <2>2, <3>1 DEF TypeOK, Promise!Recent
      <3>3. /\ IsFiniteSet(Kept(j) \cup {e})
            /\ Cardinality(Kept(j) \cup {e}) <= Cardinality(Kept(j)) + 1
        <4> HIDE DEF e
        <4>1. IsFiniteSet(Kept(j)) /\ Cardinality(Kept(j)) \in Nat
          BY <3>1, FS_CardinalityType
        <4>2. /\ IsFiniteSet(Kept(j) \cup {e})
              /\ Cardinality(Kept(j) \cup {e}) =
                    IF e \in Kept(j) THEN Cardinality(Kept(j))
                                     ELSE Cardinality(Kept(j)) + 1
          BY <4>1, FS_AddElement
        <4> QED
          BY <4>1, <4>2
      <3>4. IsFiniteSet(S) /\ Cardinality(S) <= Cardinality(Kept(j) \cup {e})
        BY <3>2, <3>3, FS_Subset
      <3>5. /\ Cardinality(S) \in Nat
            /\ Cardinality(Kept(j)) \in Nat
            /\ Cardinality(Kept(j) \cup {e}) \in Nat
        BY <3>1, <3>3, <3>4, FS_CardinalityType
      <3> QED
        BY <1>1, <3>3, <3>4, <3>5, RateAssumption
    <2> QED
      BY <2>1, <2>2
  <1> QED
    BY <1>4, <1>5, <1>6 DEF WindowInv

LEMMA RaiseInv == ASSUME WindowInv, NEW j \in Keys, CheckRaises(j)
                  PROVE  WindowInv'
  <1>1. /\ windows' = [windows EXCEPT ![j] = Kept(j)]
        /\ verdict' = [kind |-> "rejected", key |-> j]
        /\ now' = now /\ boot' = boot /\ admitted' = admitted
    BY DEF CheckRaises
  <1>2. TypeOK /\ ListInv /\ WindowBound
    BY DEF WindowInv
  <1>3. TypeOK'
    BY <1>1, <1>2 DEF TypeOK, Kept
  <1>4. ListInv'
    BY <1>1, <1>2 DEF ListInv, TypeOK, Kept
  <1>5. WindowBound'
    BY <1>1, <1>2 DEF WindowBound
  <1> QED
    BY <1>3, <1>4, <1>5 DEF WindowInv

LEMMA TickInv == ASSUME WindowInv, Tick
                 PROVE  WindowInv'
  <1>1. /\ now' \in (now + 1)..MaxNow
        /\ verdict' = Promise!NoVerdict
        /\ boot' = boot /\ windows' = windows /\ admitted' = admitted
    BY DEF Tick
  <1>2. TypeOK /\ ListInv /\ WindowBound
    BY DEF WindowInv
  <1>3. now \in Nat /\ now' \in 0..MaxNow /\ now' > now
    BY <1>1, <1>2, RateAssumption DEF TypeOK
  <1>4. TypeOK'
    BY <1>1, <1>2, <1>3 DEF TypeOK
  <1>5. \A k \in Keys : \A a \in admitted[k] : a.at \in Nat /\ a.at <= now
    BY <1>2 DEF TypeOK, ListInv, Admissions
  <1>6. ListInv'
    <2>1. \A k \in Keys : \A a \in admitted[k] :
             a.at <= now' /\ (a.at > now' - Window => a.at > now - Window)
      BY <1>3, <1>5, RateAssumption
    <2> QED
      BY <1>1, <1>2, <2>1 DEF ListInv
  <1>7. WindowBound'
    <2> SUFFICES ASSUME NEW k \in Keys, NEW b \in 0..boot, NEW t \in 0..now'
                 PROVE  Cardinality({a \in admitted[k] :
                           a.boot = b /\ t - Window < a.at /\ a.at <= t}) <= Limit
      BY <1>1 DEF WindowBound
    <2> DEFINE S(u) == {a \in admitted[k] : a.boot = b /\ u - Window < a.at /\ a.at <= u}
    <2>1. CASE t <= now
      <3>1. t \in 0..now
        BY <2>1, <1>3
      <3> QED
        BY <3>1, <1>2 DEF WindowBound
    <2>2. CASE t > now
      \* A window that ends later covers a part of the one that ends now.
      <3>1. S(t) \subseteq S(now)
        BY <2>2, <1>3, <1>5, RateAssumption
      <3>2. S(now) \in SUBSET admitted[k] /\ IsFiniteSet(admitted[k])
        BY <1>2 DEF ListInv
      <3>3. IsFiniteSet(S(now))
        BY <3>2, FS_Subset
      <3>4. IsFiniteSet(S(t)) /\ Cardinality(S(t)) <= Cardinality(S(now))
        BY <3>1, <3>3, FS_Subset
      <3>5. now \in 0..now
        BY <1>3
      <3>6. Cardinality(S(now)) <= Limit
        BY <1>2, <3>5 DEF WindowBound
      <3>7. Cardinality(S(t)) \in Nat /\ Cardinality(S(now)) \in Nat
        BY <3>3, <3>4, FS_CardinalityType
      <3> QED
        BY <3>4, <3>6, <3>7, RateAssumption
    <2> QED
      BY <2>1, <2>2, <1>3
  <1> QED
    BY <1>4, <1>6, <1>7 DEF WindowInv

LEMMA RestartInv == ASSUME WindowInv, Restart
                    PROVE  WindowInv'
  <1>1. /\ boot < MaxBoots /\ boot' = boot + 1
        /\ windows' = [k \in Keys |-> {}]
        /\ verdict' = Promise!NoVerdict
        /\ now' = now /\ admitted' = admitted
    BY DEF Restart
  <1>2. TypeOK /\ ListInv /\ WindowBound
    BY DEF WindowInv
  <1>3. boot \in Nat /\ MaxBoots \in Nat
    BY <1>2, RateAssumption DEF TypeOK
  <1>4. TypeOK'
    BY <1>1, <1>2, <1>3 DEF TypeOK
  <1>5. \A k \in Keys : \A a \in admitted[k] : a.boot \in Nat /\ a.boot < boot'
    BY <1>1, <1>2, <1>3 DEF TypeOK, ListInv, Admissions
  <1>6. ListInv'
    BY <1>1, <1>2, <1>3, <1>5 DEF ListInv
  <1>7. WindowBound'
    <2> SUFFICES ASSUME NEW k \in Keys, NEW b \in 0..boot', NEW t \in 0..now
                 PROVE  Cardinality({a \in admitted[k] :
                           a.boot = b /\ t - Window < a.at /\ a.at <= t}) <= Limit
      BY <1>1 DEF WindowBound
    <2>1. CASE b \in 0..boot
      BY <2>1, <1>2 DEF WindowBound
    <2>2. CASE b = boot'
      <3>1. {a \in admitted[k] : a.boot = b /\ t - Window < a.at /\ a.at <= t} = {}
        BY <1>3, <1>5, <1>1, <2>2
      <3> QED
        BY <3>1, FS_EmptySet, RateAssumption
    <2> QED
      BY <2>1, <2>2, <1>1, <1>3
  <1> QED
    BY <1>4, <1>6, <1>7 DEF WindowInv

LEMMA NextInv == WindowInv /\ [Next]_vars => WindowInv'
  <1> SUFFICES ASSUME WindowInv, [Next]_vars PROVE WindowInv'
    OBVIOUS
  <1>1. CASE \E k \in Keys : CheckAdmits(k)
    BY <1>1, AdmitInv
  <1>2. CASE \E k \in Keys : CheckRaises(k)
    BY <1>2, RaiseInv
  <1>3. CASE Tick
    BY <1>3, TickInv
  <1>4. CASE Restart
    BY <1>4, RestartInv
  <1>5. CASE UNCHANGED vars
    BY <1>5 DEF vars, WindowInv, TypeOK, ListInv, WindowBound
  <1> QED
    BY <1>1, <1>2, <1>3, <1>4, <1>5 DEF Next

LEMMA Invariance == Spec => []WindowInv
  BY InitInv, NextInv, PTL DEF Spec
-----------------------------------------------------------------------------
\* The limiter's state is well formed: every instant kept is one the clock
\* has read (auth.py, _rate_limit_windows).
THEOREM TypeCorrect == Spec => []TypeOK
  <1>1. WindowInv => TypeOK
    BY DEF WindowInv
  <1> QED
    BY Invariance, <1>1, PTL

\* However requests, time and restarts interleave, no Window of one life of
\* the process admits more than Limit requests of a key (_check_rate_limit).
THEOREM NeverOverLimit == Spec => []WindowBound
  <1>1. WindowInv => WindowBound
    BY DEF WindowInv
  <1> QED
    BY Invariance, <1>1, PTL

\* The list of timestamps implements the promise made about the whole
\* history: each check, clock step and restart is a step of Quota.
THEOREM ImplementsQuota == Spec => KeepsQuota
  <1>1. Init => Promise!QuotaInit
    BY DEF Init, Promise!QuotaInit
  <1>2. WindowInv /\ [Next]_vars => [Promise!QuotaNext]_Promise!quotaVars
    <2> SUFFICES ASSUME WindowInv, [Next]_vars
                 PROVE  [Promise!QuotaNext]_Promise!quotaVars
      OBVIOUS
    <2>1. ASSUME NEW k \in Keys, CheckAdmits(k)
          PROVE  Promise!Admit(k)
      BY <2>1, KeptIsRecent, SameCardinality DEF WindowInv, CheckAdmits, Promise!Admit
    <2>2. ASSUME NEW k \in Keys, CheckRaises(k)
          PROVE  Promise!Reject(k)
      BY <2>2, KeptIsRecent, SameCardinality DEF WindowInv, CheckRaises, Promise!Reject
    <2>3. ASSUME Tick PROVE Promise!Elapse
      BY <2>3, RateAssumption DEF WindowInv, TypeOK, Tick, Promise!Elapse
    <2>4. ASSUME Restart PROVE Promise!Forget
      BY <2>4 DEF Restart, Promise!Forget
    <2>5. CASE UNCHANGED vars
      BY <2>5 DEF vars, Promise!quotaVars
    <2> QED
      BY <2>1, <2>2, <2>3, <2>4, <2>5 DEF Next, Promise!QuotaNext
  <1> QED
    BY <1>1, <1>2, Invariance, PTL DEF Spec, KeepsQuota, Promise!QuotaSpec
=============================================================================
