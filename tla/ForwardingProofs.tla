-------------------------- MODULE ForwardingProofs --------------------------
(***************************************************************************)
(* Theorems about a proxied request and about the exchange with the        *)
(* provider that it forwards.                                              *)
(*                                                                         *)
(* The life of a request: for every set of requests and keys and every     *)
(* deployment: either backend, either order of leaving a session, any pool *)
(* size, and commits that may fail.                                        *)
(*                                                                         *)
(* The exchange: for any lines and any length of a stream.  What a client  *)
(* makes of lines is defined by recursion, and one lemma (OneMoreLine)     *)
(* says what a line adds; after it, that the replay keeps the events is an *)
(* invariant of reading lines (ReplayInv), in which the blank line that    *)
(* was added comes a line before the provider's own.                       *)
(***************************************************************************)
EXTENDS ProxyRequest, StreamUsage, DataTheorems

LEMMA DistinctSessions ==
    /\ \A r, q \in Requests :
        /\ Request(r) \in Sessions /\ TaskOf(r) \in Sessions
        /\ Request(r) # TaskOf(q)
        /\ Request(r) = Request(q) => r = q
        /\ TaskOf(r) = TaskOf(q) => r = q
    /\ Nobody \notin Sessions
  BY RequestAssumption DEF Request, TaskOf, Sessions
-----------------------------------------------------------------------------
(* Type correctness *)

LEMMA NextType ==
  ASSUME TypeOK, [Next]_vars
  PROVE  TypeOK'
  <1>. USE DEF TypeOK, Stages, TaskStages, Statuses
  <1>1. ASSUME NEW r \in Requests, Authenticate(r) PROVE TypeOK'
    BY <1>1, DistinctSessions DEF Authenticate, Connect
  <1>2. ASSUME NEW r \in Requests, Refuse(r) PROVE TypeOK'
    BY <1>2, DistinctSessions DEF Refuse, FailWith, EndSession
  <1>3. ASSUME NEW r \in Requests, PoolTimeout(r) PROVE TypeOK'
    BY <1>3, DistinctSessions DEF PoolTimeout, FailWith, EndSession
  <1>4. ASSUME NEW r \in Requests, Touch(r) PROVE TypeOK'
    BY <1>4, DistinctSessions DEF Touch, Acquire
  <1>5. ASSUME NEW r \in Requests, LockTimeout(r) PROVE TypeOK'
    BY <1>5, DistinctSessions DEF LockTimeout, FailWith, EndSession
  <1>6. ASSUME NEW r \in Requests, Answer(r) PROVE TypeOK'
    BY <1>6, DistinctSessions DEF Answer, Leaving
  <1>7. ASSUME NEW r \in Requests, Read(r) PROVE TypeOK'
    BY <1>7, DistinctSessions DEF Read, Leaving
  <1>8. ASSUME NEW r \in Requests, HandlerFails(r) PROVE TypeOK'
    BY <1>8, DistinctSessions DEF HandlerFails, FailWith, EndSession
  <1>9. ASSUME NEW r \in Requests, CommitThenRespond(r) PROVE TypeOK'
    BY <1>9, DistinctSessions DEF CommitThenRespond, EndSession
  <1>10. ASSUME NEW r \in Requests, CommitFails(r) PROVE TypeOK'
    BY <1>10, DistinctSessions DEF CommitFails, EndSession
  <1>11. ASSUME NEW r \in Requests, Respond(r) PROVE TypeOK'
    BY <1>11, DistinctSessions DEF Respond
  <1>12. ASSUME NEW r \in Requests, Close(r) PROVE TypeOK'
    BY <1>12, DistinctSessions DEF Close, EndSession
  <1>13. ASSUME NEW r \in Requests, TaskConnects(r) PROVE TypeOK'
    BY <1>13, DistinctSessions DEF TaskConnects, Connect
  <1>14. ASSUME NEW r \in Requests, TaskInserts(r) PROVE TypeOK'
    BY <1>14, DistinctSessions DEF TaskInserts, Acquire
  <1>15. ASSUME NEW r \in Requests, TaskCommits(r) PROVE TypeOK'
    BY <1>15, DistinctSessions DEF TaskCommits, EndSession
  <1>16. ASSUME NEW r \in Requests, TaskGivesUp(r) PROVE TypeOK'
    BY <1>16, DistinctSessions DEF TaskGivesUp, EndSession
  <1>17. ASSUME NEW r \in Requests, Invalid(r) PROVE TypeOK'
    BY <1>17, DistinctSessions DEF Invalid, FailWith, EndSession, Leaving
  <1>18. ASSUME NEW r \in Requests, TaskRaises(r) PROVE TypeOK'
    BY <1>18, DistinctSessions DEF TaskRaises, EndSession
  <1>19. CASE UNCHANGED vars
    BY <1>19 DEF vars
  <1>. QED
    BY <1>1, <1>2, <1>3, <1>4, <1>5, <1>6, <1>7, <1>8, <1>9, <1>10,
       <1>11, <1>12, <1>13, <1>14, <1>15, <1>16, <1>17, <1>18, <1>19
    DEF Next, Step, TaskStep, Idle

\* Every stage, status, task, connection and lock is one the code knows
\* (validate_api_key, get_db, proxy_request and the handlers of main.py).
THEOREM TypeCorrect == Spec => []TypeOK
  <1>1. Init => TypeOK
    BY DEF Init, TypeOK, Stages, TaskStages, Statuses
  <1>. QED
    BY <1>1, NextType, PTL DEF Spec
-----------------------------------------------------------------------------
(* Stored calls were served *)

\* A task is due only after the response, and a request whose task is due
\* has its answer for good.
ServedInv ==
    \A r \in Requests :
        /\ stage[r] \in {"new", "updating", "handling"} => task[r] = "none"
        /\ stage[r] \in {"committing", "responding"} => task[r] \in {"none", "queued"}
        /\ task[r] = "queued" => r \in billed /\ answer[r] = 200
        /\ task[r] \in {"due", "connected", "inserted", "stored"}
            => r \in billed /\ status[r] = 200
        /\ r \in stored => task[r] = "stored"

LEMMA NextServed ==
  ASSUME TypeOK, ServedInv, [Next]_vars
  PROVE  ServedInv'
  <1>. USE DEF TypeOK, ServedInv
  <1>1. ASSUME NEW r \in Requests, Authenticate(r) PROVE ServedInv'
    BY <1>1 DEF Authenticate
  <1>2. ASSUME NEW r \in Requests, Refuse(r) PROVE ServedInv'
    BY <1>2 DEF Refuse, FailWith
  <1>3. ASSUME NEW r \in Requests, PoolTimeout(r) PROVE ServedInv'
    BY <1>3 DEF PoolTimeout, FailWith
  <1>4. ASSUME NEW r \in Requests, Touch(r) PROVE ServedInv'
    BY <1>4 DEF Touch
  <1>5. ASSUME NEW r \in Requests, LockTimeout(r) PROVE ServedInv'
    BY <1>5 DEF LockTimeout, FailWith
  <1>6. ASSUME NEW r \in Requests, Answer(r) PROVE ServedInv'
    BY <1>6 DEF Answer, Leaving
  <1>7. ASSUME NEW r \in Requests, Read(r) PROVE ServedInv'
    BY <1>7 DEF Read, Leaving
  <1>8. ASSUME NEW r \in Requests, HandlerFails(r) PROVE ServedInv'
    BY <1>8 DEF HandlerFails, FailWith
  <1>9. ASSUME NEW r \in Requests, CommitThenRespond(r) PROVE ServedInv'
    BY <1>9 DEF CommitThenRespond
  <1>10. ASSUME NEW r \in Requests, CommitFails(r) PROVE ServedInv'
    BY <1>10 DEF CommitFails
  <1>11. ASSUME NEW r \in Requests, Respond(r) PROVE ServedInv'
    BY <1>11 DEF Respond
  <1>12. ASSUME NEW r \in Requests, Close(r) PROVE ServedInv'
    BY <1>12 DEF Close
  <1>13. ASSUME NEW r \in Requests, TaskConnects(r) PROVE ServedInv'
    BY <1>13 DEF TaskConnects
  <1>14. ASSUME NEW r \in Requests, TaskInserts(r) PROVE ServedInv'
    BY <1>14 DEF TaskInserts
  <1>15. ASSUME NEW r \in Requests, TaskCommits(r) PROVE ServedInv'
    BY <1>15 DEF TaskCommits
  <1>16. ASSUME NEW r \in Requests, TaskGivesUp(r) PROVE ServedInv'
    BY <1>16 DEF TaskGivesUp
  <1>17. ASSUME NEW r \in Requests, Invalid(r) PROVE ServedInv'
    BY <1>17 DEF Invalid, FailWith, Leaving
  <1>18. ASSUME NEW r \in Requests, TaskRaises(r) PROVE ServedInv'
    BY <1>18 DEF TaskRaises
  <1>19. CASE UNCHANGED vars
    BY <1>19 DEF vars
  <1>. QED
    BY <1>1, <1>2, <1>3, <1>4, <1>5, <1>6, <1>7, <1>8, <1>9, <1>10,
       <1>11, <1>12, <1>13, <1>14, <1>15, <1>16, <1>17, <1>18, <1>19
    DEF Next, Step, TaskStep, Idle

LEMMA Served == Spec => []ServedInv
  <1>1. Init => ServedInv
    BY DEF Init, ServedInv
  <1>. QED
    BY <1>1, NextServed, TypeCorrect, PTL DEF Spec

\* The audit trail holds no call whose client was not served, whichever way
\* requests and commits fail (proxy_request, _record_and_estimate).
THEOREM NoUnservedCall == Spec => []StoredWasServed
  <1>. TypeOK /\ ServedInv => StoredWasServed
    BY DEF TypeOK, ServedInv, StoredWasServed
  <1>. QED
    BY TypeCorrect, Served, PTL
-----------------------------------------------------------------------------
(* Connections and locks *)

\* A session is about to write only while it has its connection, and one
\* that is left before the response has given it back by then.
ConnectedInv ==
    \A r \in Requests :
        /\ stage[r] = "updating" => Request(r) \in conns
        /\ stage[r] = "responding" /\ ExitOrder = "commit_first"
            => Request(r) \notin conns
        /\ task[r] = "connected" => TaskOf(r) \in conns

LeakInv == ConnectedInv /\ NothingLeaks

LEMMA NextLeak ==
  ASSUME TypeOK, ServedInv, LeakInv, [Next]_vars
  PROVE  LeakInv'
  <1>. USE DEF TypeOK, LeakInv, ConnectedInv, NothingLeaks, ExitOrder
  <1>1. ASSUME NEW r \in Requests, Authenticate(r) PROVE LeakInv'
    BY <1>1, DistinctSessions DEF Authenticate, Connect
  <1>2. ASSUME NEW r \in Requests, Refuse(r) PROVE LeakInv'
    BY <1>2, DistinctSessions DEF Refuse, FailWith, EndSession
  <1>3. ASSUME NEW r \in Requests, PoolTimeout(r) PROVE LeakInv'
    BY <1>3, DistinctSessions DEF PoolTimeout, FailWith, EndSession
  <1>4. ASSUME NEW r \in Requests, Touch(r) PROVE LeakInv'
    BY <1>4, DistinctSessions DEF Touch, Acquire
  <1>5. ASSUME NEW r \in Requests, LockTimeout(r) PROVE LeakInv'
    BY <1>5, DistinctSessions DEF LockTimeout, FailWith, EndSession
  <1>6. ASSUME NEW r \in Requests, Answer(r) PROVE LeakInv'
    BY <1>6, DistinctSessions DEF Answer, Leaving, ServedInv
  <1>7. ASSUME NEW r \in Requests, Read(r) PROVE LeakInv'
    BY <1>7, DistinctSessions DEF Read, Leaving
  <1>8. ASSUME NEW r \in Requests, HandlerFails(r) PROVE LeakInv'
    BY <1>8, DistinctSessions DEF HandlerFails, FailWith, EndSession
  <1>9. ASSUME NEW r \in Requests, CommitThenRespond(r) PROVE LeakInv'
    BY <1>9, DistinctSessions DEF CommitThenRespond, EndSession
  <1>10. ASSUME NEW r \in Requests, CommitFails(r) PROVE LeakInv'
    BY <1>10, DistinctSessions DEF CommitFails, EndSession
  <1>11. ASSUME NEW r \in Requests, Respond(r) PROVE LeakInv'
    BY <1>11, DistinctSessions DEF Respond
  <1>12. ASSUME NEW r \in Requests, Close(r) PROVE LeakInv'
    BY <1>12, DistinctSessions DEF Close, EndSession
  <1>13. ASSUME NEW r \in Requests, TaskConnects(r) PROVE LeakInv'
    BY <1>13, DistinctSessions DEF TaskConnects, Connect
  <1>14. ASSUME NEW r \in Requests, TaskInserts(r) PROVE LeakInv'
    BY <1>14, DistinctSessions DEF TaskInserts, Acquire
  <1>15. ASSUME NEW r \in Requests, TaskCommits(r) PROVE LeakInv'
    BY <1>15, DistinctSessions DEF TaskCommits, EndSession
  <1>16. ASSUME NEW r \in Requests, TaskGivesUp(r) PROVE LeakInv'
    BY <1>16, DistinctSessions DEF TaskGivesUp, EndSession
  <1>17. ASSUME NEW r \in Requests, Invalid(r) PROVE LeakInv'
    BY <1>17, DistinctSessions DEF Invalid, FailWith, EndSession, Leaving
  <1>18. ASSUME NEW r \in Requests, TaskRaises(r) PROVE LeakInv'
    BY <1>18, DistinctSessions DEF TaskRaises, EndSession
  <1>19. CASE UNCHANGED vars
    BY <1>19 DEF vars
  <1>. QED
    BY <1>1, <1>2, <1>3, <1>4, <1>5, <1>6, <1>7, <1>8, <1>9, <1>10,
       <1>11, <1>12, <1>13, <1>14, <1>15, <1>16, <1>17, <1>18, <1>19
    DEF Next, Step, TaskStep, Idle

\* However requests and tasks end, what they held is given back, and only a
\* session with a connection holds locks (get_db, _record_and_estimate).
THEOREM NeverLeaks == Spec => []NothingLeaks
  <1>1. Init => LeakInv
    BY DEF Init, LeakInv, ConnectedInv, NothingLeaks
  <1>2. LeakInv => NothingLeaks
    BY DEF LeakInv
  <1>. QED
    BY <1>1, <1>2, NextLeak, TypeCorrect, Served, PTL DEF Spec
-----------------------------------------------------------------------------
(* The use of a key *)

\* Where a session stands tells whether its update is committed, and whether
\* there is an answer yet.
TouchInv ==
    /\ \A r \in Requests :
        /\ stage[r] \in {"new", "updating", "handling", "committing", "closing"}
            => r \notin touched
        /\ stage[r] = "committing" => ExitOrder = "commit_first"
        /\ stage[r] = "closing" => ExitOrder = "commit_last" /\ status[r] = answer[r]
        /\ stage[r] \in {"new", "updating", "handling"} => answer[r] = 0
        /\ stage[r] = "responding"
            => (r \in touched <=> ExitOrder = "commit_first")
    /\ TouchedIffAnswered

LEMMA NextTouch ==
  ASSUME TypeOK, TouchInv, [Next]_vars
  PROVE  TouchInv'
  <1>. USE DEF TypeOK, CleanExit, TouchInv, TouchedIffAnswered, Backend, ExitOrder, Faults
  <1>1. ASSUME NEW r \in Requests, Authenticate(r) PROVE TouchInv'
    BY <1>1, RequestAssumption DEF Authenticate
  <1>2. ASSUME NEW r \in Requests, Refuse(r) PROVE TouchInv'
    BY <1>2, RequestAssumption DEF Refuse, FailWith
  <1>3. ASSUME NEW r \in Requests, PoolTimeout(r) PROVE TouchInv'
    BY <1>3, RequestAssumption DEF PoolTimeout, FailWith
  <1>4. ASSUME NEW r \in Requests, Touch(r) PROVE TouchInv'
    BY <1>4, RequestAssumption DEF Touch
  <1>5. ASSUME NEW r \in Requests, LockTimeout(r) PROVE TouchInv'
    BY <1>5, RequestAssumption DEF LockTimeout, FailWith
  <1>6. ASSUME NEW r \in Requests, Answer(r) PROVE TouchInv'
    BY <1>6, RequestAssumption DEF Answer, Leaving
  <1>7. ASSUME NEW r \in Requests, Read(r) PROVE TouchInv'
    BY <1>7, RequestAssumption DEF Read, Leaving
  <1>8. ASSUME NEW r \in Requests, HandlerFails(r) PROVE TouchInv'
    BY <1>8, RequestAssumption DEF HandlerFails, FailWith
  <1>9. ASSUME NEW r \in Requests, CommitThenRespond(r) PROVE TouchInv'
    BY <1>9, RequestAssumption DEF CommitThenRespond
  <1>10. ASSUME NEW r \in Requests, CommitFails(r) PROVE TouchInv'
    BY <1>10, RequestAssumption DEF CommitFails
  <1>11. ASSUME NEW r \in Requests, Respond(r) PROVE TouchInv'
    BY <1>11, RequestAssumption DEF Respond
  <1>12. ASSUME NEW r \in Requests, Close(r) PROVE TouchInv'
    BY <1>12, RequestAssumption DEF Close
  <1>13. ASSUME NEW r \in Requests, TaskConnects(r) PROVE TouchInv'
    BY <1>13, RequestAssumption DEF TaskConnects
  <1>14. ASSUME NEW r \in Requests, TaskInserts(r) PROVE TouchInv'
    BY <1>14, RequestAssumption DEF TaskInserts
  <1>15. ASSUME NEW r \in Requests, TaskCommits(r) PROVE TouchInv'
    BY <1>15, RequestAssumption DEF TaskCommits
  <1>16. ASSUME NEW r \in Requests, TaskGivesUp(r) PROVE TouchInv'
    BY <1>16, RequestAssumption DEF TaskGivesUp
  <1>17. ASSUME NEW r \in Requests, Invalid(r) PROVE TouchInv'
    BY <1>17, RequestAssumption DEF Invalid, FailWith, Leaving
  <1>18. ASSUME NEW r \in Requests, TaskRaises(r) PROVE TouchInv'
    BY <1>18, RequestAssumption DEF TaskRaises
  <1>19. CASE UNCHANGED vars
    BY <1>19 DEF vars
  <1>. QED
    BY <1>1, <1>2, <1>3, <1>4, <1>5, <1>6, <1>7, <1>8, <1>9, <1>10,
       <1>11, <1>12, <1>13, <1>14, <1>15, <1>16, <1>17, <1>18, <1>19
    DEF Next, Step, TaskStep, Idle

\* A key's last_used_at is on record for the requests whose client got the
\* response that their handler, or FastAPI's validation, left the session with,
\* a returned 404 included, and for no others, where a session that ends after
\* its response always commits (validate_api_key, get_db, get_call_detail).
THEOREM TouchedByAnswered == Spec => []TouchedIffAnswered
  <1>1. Init => TouchInv
    BY DEF Init, TouchInv, TouchedIffAnswered
  <1>2. TouchInv => TouchedIffAnswered
    BY DEF TouchInv
  <1>. QED
    BY <1>1, <1>2, NextTouch, TypeCorrect, PTL DEF Spec
-----------------------------------------------------------------------------
(* The exchange with a provider *)

\* g holds what a client has received after each line of s.
Receives(g, s) ==
    g = [n \in 0..Len(s) |->
           IF n = 0 THEN [open |-> <<>>, events |-> <<>>] ELSE Received(g[n - 1], s[n])]

\* What Reception stands for: the last value of such a function.
LEMMA ReceptionUnfolds ==
    ASSUME NEW s PROVE Reception(s) = (CHOOSE g : Receives(g, s))[Len(s)]
  BY DEF Reception, Receives

\* The equation of such a function after n lines.
LEMMA ReceivesAt ==
    ASSUME NEW s, NEW g, Receives(g, s), NEW n \in 0..Len(s)
    PROVE  g[n] = IF n = 0 THEN [open |-> <<>>, events |-> <<>>] ELSE Received(g[n - 1], s[n])
  <1> DEFINE h == [k \in 0..Len(s) |->
                     IF k = 0 THEN [open |-> <<>>, events |-> <<>>] ELSE Received(g[k - 1], s[k])]
  <1>1. g = h
    BY DEF Receives
  <1>2. h[n] = IF n = 0 THEN [open |-> <<>>, events |-> <<>>] ELSE Received(g[n - 1], s[n])
    OBVIOUS
  <1> QED
    BY <1>1, <1>2

\* There is such a function for every sequence, because there is one up to every
\* line of it.
LEMMA ReceivesExists ==
    ASSUME NEW S, NEW s \in Seq(S) PROVE \E g : Receives(g, s)
  <1> DEFINE Empty == [open |-> <<>>, events |-> <<>>]
             After(g, n) == IF n = 0 THEN Empty ELSE Received(g[n - 1], s[n])
             Good(g, k) == \A n \in 0..k : g[n] = After(g, n)
             N == {k \in Nat : \E g : Good(g, k)}
  <1> HIDE DEF Empty
  <1>1. 0 \in N
    <2> DEFINE g == [n \in 0..0 |-> Empty]
    <2>1. Good(g, 0)
      OBVIOUS
    <2> QED
      BY <2>1
  <1>2. ASSUME NEW k \in N PROVE k + 1 \in N
    <2>1. PICK g : Good(g, k)
      OBVIOUS
    <2> DEFINE h == [n \in 0..(k + 1) |-> After(g, n)]
    <2>2. ASSUME NEW n \in 0..k PROVE h[n] = g[n]
      BY <2>1
    <2>3. ASSUME NEW n \in 0..(k + 1) PROVE h[n] = After(h, n)
      <3>1. h[n] = After(g, n)
        OBVIOUS
      <3>2. n # 0 => n - 1 \in 0..k
        OBVIOUS
      <3> HIDE DEF h
      <3> QED
        BY <2>2, <3>1, <3>2
    <2>4. Good(h, k + 1)
      BY <2>3
    <2> HIDE DEF Good, h
    <2>5. k + 1 \in Nat /\ \E g1 : Good(g1, k + 1)
      BY <2>4
    <2> QED
      BY <2>5
  <1>3. N = Nat
    <2> HIDE DEF N
    <2>1. N \in SUBSET Nat
      BY DEF N
    <2> QED
      BY <1>1, <1>2, <2>1, NatInd
  <1>4. PICK g : Good(g, Len(s))
    <2>1. Len(s) \in Nat
      OBVIOUS
    <2>2. Len(s) \in N
      <3> HIDE DEF N
      <3> QED
        BY <1>3, <2>1
    <2> QED
      BY <2>2
  <1> DEFINE h == [n \in 0..Len(s) |-> After(g, n)]
  <1>5. \A n \in 0..Len(s) : h[n] = g[n]
    BY <1>4
  <1>6. \A n \in 0..Len(s) : After(h, n) = After(g, n)
    <2> SUFFICES ASSUME NEW n \in 0..Len(s), n # 0 PROVE h[n - 1] = g[n - 1]
      OBVIOUS
    <2>1. n - 1 \in 0..Len(s)
      OBVIOUS
    <2> QED
      BY <1>5, <2>1
  <1>7. Receives(h, s)
    BY <1>6 DEF Receives, Empty
  <1> QED
    BY <1>7

\* What a client has received of one more line.
LEMMA OneMoreLine ==
    ASSUME NEW S, NEW s \in Seq(S), NEW l \in S
    PROVE  Reception(Append(s, l)) = Received(Reception(s), l)
  <1> DEFINE t == Append(s, l)
             g == CHOOSE g : Receives(g, s)
             h == CHOOSE h : Receives(h, t)
  <1>1. t \in Seq(S) /\ Len(t) = Len(s) + 1 /\ t[Len(s) + 1] = l /\ Len(s) \in Nat
        /\ \A i \in 1..Len(s) : t[i] = s[i]
    OBVIOUS
  <1>2. Receives(g, s)
    BY ReceivesExists
  <1> HIDE DEF t
  <1>3. Receives(h, t)
    BY <1>1, ReceivesExists
  <1>4. Reception(s) = g[Len(s)] /\ Reception(t) = h[Len(t)]
    BY ReceptionUnfolds
  <1> HIDE DEF g, h
  <1> DEFINE N == {n \in Nat : n <= Len(s) => g[n] = h[n]}
  <1>5. 0 \in N
    BY <1>1, <1>2, <1>3, ReceivesAt
  <1>6. ASSUME NEW n \in N PROVE n + 1 \in N
    <2> SUFFICES ASSUME n + 1 <= Len(s) PROVE g[n + 1] = h[n + 1]
      OBVIOUS
    <2>1. n + 1 \in 0..Len(s) /\ n + 1 \in 0..Len(t) /\ n + 1 # 0 /\ (n + 1) - 1 = n
      BY <1>1
    <2>2. g[n + 1] = Received(g[n], s[n + 1])
      BY <1>2, <2>1, ReceivesAt
    <2>3. h[n + 1] = Received(h[n], t[n + 1])
      BY <1>3, <2>1, ReceivesAt
    <2>4. g[n] = h[n]
      BY <1>1
    <2> QED
      BY <1>1, <2>2, <2>3, <2>4
  <1>7. N = Nat
    <2> HIDE DEF N
    <2>1. N \in SUBSET Nat
      BY DEF N
    <2> QED
      BY <1>5, <1>6, <2>1, NatInd
  <1>8. g[Len(s)] = h[Len(s)]
    BY <1>1, <1>7
  <1>9. h[Len(s) + 1] = Received(h[Len(s)], l)
    <2>1. Len(s) + 1 \in 0..Len(t) /\ Len(s) + 1 # 0 /\ (Len(s) + 1) - 1 = Len(s)
      BY <1>1
    <2> QED
      BY <1>1, <1>3, <2>1, ReceivesAt
  <1> QED
    BY <1>1, <1>4, <1>8, <1>9 DEF t
-----------------------------------------------------------------------------
\* The kinds of lines, and what those that report carry.
LEMMA LineIs ==
    ASSUME NEW l \in AllLines
    PROVE  /\ l \in Lines["openai"] =>
                 /\ l.kind \in {"comment", "done", "bad", "chunk"}
                 /\ l.kind = "chunk" => l.usage \in Usages \cup {None}
           /\ l \in Lines["anthropic"] =>
                 /\ l.kind \in {"comment", "event", "bad", "start", "delta", "error"}
                 /\ l.kind \in {"start", "delta"} => l.usage \in Usages \cup {None}
           /\ l = Blank => l.kind = "blank"
  <1>1. ASSUME l \in Lines["openai"]
        PROVE  /\ l.kind \in {"comment", "done", "bad", "chunk"}
               /\ l.kind = "chunk" => l.usage \in Usages \cup {None}
    <2>1. \/ l \in [kind : {"comment", "done", "bad"}]
          \/ l \in [kind : {"chunk"}, model : Models \cup {None}, usage : Usages \cup {None}]
      BY <1>1, StreamAssumption
    <2> QED
      BY <2>1
  <1>2. ASSUME l \in Lines["anthropic"]
        PROVE  /\ l.kind \in {"comment", "event", "bad", "start", "delta", "error"}
               /\ l.kind \in {"start", "delta"} => l.usage \in Usages \cup {None}
    <2>1. \/ l \in [kind : {"comment", "event", "bad"}]
          \/ l \in [kind : {"start", "delta", "error"},
                    model : Models \cup {None}, usage : Usages \cup {None}]
      BY <1>2, StreamAssumption
    <2> QED
      BY <2>1
  <1>3. l = Blank => l.kind = "blank"
    BY DEF Blank
  <1> QED
    BY <1>1, <1>2, <1>3

StreamInv ==
    /\ provider \in Providers
    /\ sent \in Seq(AllLines) /\ chunks \in Seq(AllLines)
    /\ usage \in [Fields -> Nat \cup {Null, None}]

\* Nothing has been sent or held yet.
LEMMA StreamInit == ExchangeInit => StreamInv
  BY DEF ExchangeInit, StreamInv, Providers, NoUsage

\* Every step but the reading of a line, as far as the stream is concerned.
LEMMA StreamSteps ==
    ASSUME [ExchangeNext]_exchangeVars
    PROVE  \/ \E p \in Providers, streaming \in BOOLEAN : Begin(p, streaming)
           \/ \E l \in AllLines : ReadLine(l)
           \/ PlainAnswer
           \/ StreamEnds
           \/ /\ UNCHANGED <<provider, sent, chunks, usage, model>>
              /\ \/ UNCHANGED <<exchange, outcome>>
                 \/ exchange' = "idle" /\ outcome'.kind # "stream"
  <1>1. CASE UnknownProvider
    BY <1>1 DEF UnknownProvider, Ends
  <1>2. CASE PlainFails
    BY <1>2 DEF PlainFails, Ends
  <1>3. CASE StreamFails
    BY <1>3 DEF StreamFails, Ends
  <1>4. CASE UNCHANGED exchangeVars
    BY <1>4 DEF exchangeVars
  <1> QED
    BY <1>1, <1>2, <1>3, <1>4 DEF ExchangeNext

\* Every step keeps lines lines and usages usages.
LEMMA StreamStep == StreamInv /\ [ExchangeNext]_exchangeVars => StreamInv'
  <1> SUFFICES ASSUME StreamInv, [ExchangeNext]_exchangeVars PROVE StreamInv'
    OBVIOUS
  <1>1. ASSUME NEW p \in Providers, NEW streaming \in BOOLEAN, Begin(p, streaming)
        PROVE  StreamInv'
    BY <1>1 DEF Begin, StreamInv, NoUsage
  <1>2. ASSUME NEW l \in AllLines, ReadLine(l) PROVE StreamInv'
    <2>1. provider' = provider /\ sent' = Append(sent, l)
      BY <1>2 DEF ReadLine
    <2>2. l \in Lines[provider] \cup {Blank} /\ Blank \in AllLines
      <3>1. Blank \in AllLines
        BY DEF AllLines
      <3> QED
        BY <1>2, <3>1 DEF ReadLine
    <2>3. CASE provider = "openai"
      <3>1. OpenAILine(l)
        BY <1>2, <2>3 DEF ReadLine
      <3>2. chunks' \in Seq(AllLines)
        BY <2>2, <3>1 DEF OpenAILine, StreamInv
      <3>3. usage' \in [Fields -> Nat \cup {Null, None}]
        <4>1. CASE l.kind = "chunk" /\ l.usage # None
          <5>1. l \in Lines["openai"]
            BY <2>2, <2>3, <4>1, LineIs
          <5> QED
            BY <3>1, <4>1, <5>1, LineIs, StreamAssumption DEF OpenAILine
        <4>2. CASE ~(l.kind = "chunk" /\ l.usage # None)
          BY <3>1, <4>2 DEF OpenAILine, StreamInv
        <4> QED
          BY <4>1, <4>2
      <3> QED
        BY <2>1, <3>2, <3>3 DEF StreamInv
    <2>4. CASE provider = "anthropic"
      <3>1. AnthropicLine(l)
        BY <1>2, <2>4 DEF ReadLine
      <3>2. chunks' \in Seq(AllLines)
        BY <3>1 DEF AnthropicLine, StreamInv
      <3>3. usage' \in [Fields -> Nat \cup {Null, None}]
        <4>1. CASE l.kind \in {"start", "delta"} /\ l.usage # None
          <5>1. l \in Lines["anthropic"]
            BY <2>2, <2>4, <4>1, LineIs
          <5>2. l.usage \in [Fields -> Nat \cup {Null, None}]
            BY <4>1, <5>1, LineIs, StreamAssumption
          <5> QED
            BY <3>1, <4>1, <5>2 DEF AnthropicLine, StreamInv
        <4>2. CASE ~(l.kind \in {"start", "delta"} /\ l.usage # None)
          BY <3>1, <4>2 DEF AnthropicLine, StreamInv
        <4> QED
          BY <4>1, <4>2
      <3> QED
        BY <2>1, <3>2, <3>3 DEF StreamInv
    <2> QED
      BY <2>3, <2>4 DEF StreamInv, Providers
  <1>3. CASE PlainAnswer
    BY <1>3, StreamAssumption DEF PlainAnswer, StreamInv, NoUsage
  <1>4. CASE StreamEnds
    BY <1>4 DEF StreamEnds, StreamInv
  <1>5. CASE UNCHANGED <<provider, sent, chunks, usage, model>>
    BY <1>5 DEF StreamInv
  <1> QED
    BY <1>1, <1>2, <1>3, <1>4, <1>5, StreamSteps

\* The types that the proofs about streams rest on.
LEMMA Streams == ExchangeSpec => []StreamInv
  BY StreamInit, StreamStep, PTL DEF ExchangeSpec
-----------------------------------------------------------------------------
\* The last of the positions I, when one more is appended.
LEMMA LastOf ==
    ASSUME NEW n \in Nat, NEW I \in SUBSET (1..n)
    PROVE  /\ I # {} => Max(I) \in I
           /\ Max(I \cup {n + 1}) = n + 1
  <1>1. ASSUME I # {} PROVE Max(I) \in I
    <2>1. \E x \in I : \A y \in I : x >= y
      BY <1>1, GreatestOf
    <2> QED
      BY <2>1 DEF Max
  <1>2. Max(I \cup {n + 1}) = n + 1
    <2> DEFINE J == I \cup {n + 1}
               m == CHOOSE x \in J : \A y \in J : x >= y
    <2>1. n + 1 \in J /\ \A y \in J : n + 1 >= y
      OBVIOUS
    <2>2. m \in J /\ \A y \in J : m >= y
      BY <2>1
    <2>3. \A y \in J : y \in Int
      OBVIOUS
    <2>4. Max(J) = m
      BY DEF Max
    <2> HIDE DEF m
    <2>5. m >= n + 1 /\ n + 1 >= m /\ m \in Int
      BY <2>1, <2>2, <2>3
    <2> QED
      BY <2>4, <2>5
  <1> QED
    BY <1>1, <1>2

\* A line that says something is what was said last; one that does not leaves
\* what the last of the positions P said.
LEMMA SaidLast ==
    ASSUME NEW s \in Seq(AllLines), NEW l \in AllLines, NEW P \in SUBSET (1..Len(s))
    PROVE  /\ P # {} => Append(s, l)[Max(P)] = s[Max(P)]
           /\ Append(s, l)[Max(P \cup {Len(s) + 1})] = l
  <1> DEFINE t == Append(s, l)
  <1>1. Len(s) \in Nat /\ t[Len(s) + 1] = l /\ \A i \in 1..Len(s) : t[i] = s[i]
    OBVIOUS
  <1>2. P # {} => Max(P) \in 1..Len(s)
    BY <1>1, LastOf
  <1>3. Max(P \cup {Len(s) + 1}) = Len(s) + 1
    BY <1>1, LastOf
  <1> HIDE DEF t
  <1>4. t[Max(P \cup {Len(s) + 1})] = l
    BY <1>1, <1>3
  <1>5. P # {} => t[Max(P)] = s[Max(P)]
    BY <1>1, <1>2
  <1> QED
    BY <1>4, <1>5 DEF t

Said(s) == {i \in DOMAIN s : Reports(s[i])}
SaidOf(s, p, f) == {i \in Said(s) : p = "anthropic" => s[i].usage[f] # None}
Named(s) == {i \in DOMAIN s : Names(s[i])}

\* UsageIsLastReported, with its sets of positions named.
LEMMA UsageIs ==
    UsageIsLastReported <=>
        (exchange = "streaming" =>
            /\ usage = [f \in Fields |->
                          IF SaidOf(sent, provider, f) = {} THEN None
                          ELSE sent[Max(SaidOf(sent, provider, f))].usage[f]]
            /\ model = IF Named(sent) = {} THEN None ELSE sent[Max(Named(sent))].model)
  BY DEF UsageIsLastReported, SaidOf, Said, Named

\* What one more line adds to these positions.
LEMMA SaidNext ==
    ASSUME NEW S, NEW s \in Seq(S), NEW l \in S, NEW p, NEW f
    PROVE  LET t == Append(s, l)
           IN  /\ SaidOf(s, p, f) \in SUBSET (1..Len(s)) /\ Named(s) \in SUBSET (1..Len(s))
               /\ SaidOf(t, p, f) = IF Reports(l) /\ (p = "anthropic" => l.usage[f] # None)
                                    THEN SaidOf(s, p, f) \cup {Len(s) + 1}
                                    ELSE SaidOf(s, p, f)
               /\ Named(t) = IF Names(l) THEN Named(s) \cup {Len(s) + 1} ELSE Named(s)
  <1> DEFINE t == Append(s, l)
  <1>1. /\ DOMAIN s = 1..Len(s) /\ DOMAIN t = 1..(Len(s) + 1) /\ Len(s) \in Nat
        /\ t[Len(s) + 1] = l /\ \A i \in 1..Len(s) : t[i] = s[i]
    OBVIOUS
  <1> HIDE DEF t
  <1>2. 1..(Len(s) + 1) = (1..Len(s)) \cup {Len(s) + 1}
    BY <1>1
  <1>3. Said(t) = IF Reports(l) THEN Said(s) \cup {Len(s) + 1} ELSE Said(s)
    BY <1>1, <1>2 DEF Said
  <1>4. \A i \in Said(s) : i \in 1..Len(s)
    BY <1>1 DEF Said
  <1>5. SaidOf(t, p, f) = IF Reports(l) /\ (p = "anthropic" => l.usage[f] # None)
                          THEN SaidOf(s, p, f) \cup {Len(s) + 1} ELSE SaidOf(s, p, f)
    BY <1>1, <1>3, <1>4 DEF SaidOf
  <1>6. Named(t) = IF Names(l) THEN Named(s) \cup {Len(s) + 1} ELSE Named(s)
    BY <1>1, <1>2 DEF Named
  <1>7. SaidOf(s, p, f) \in SUBSET (1..Len(s)) /\ Named(s) \in SUBSET (1..Len(s))
    BY <1>1, <1>4 DEF SaidOf, Named
  <1> QED
    BY <1>5, <1>6, <1>7 DEF t

\* A line that reports usage is held, and is from then on the last that did.
LEMMA ReadLineUsage ==
    ASSUME StreamInv, UsageIsLastReported, NEW l \in AllLines, ReadLine(l)
    PROVE  UsageIsLastReported'
  <1> DEFINE t == Append(sent, l)
  <1>1. /\ sent \in Seq(AllLines) /\ provider \in Providers /\ exchange = "streaming"
        /\ provider' = provider /\ sent' = t /\ l \in Lines[provider] \cup {Blank}
        /\ usage \in [Fields -> Nat \cup {Null, None}]
    BY DEF ReadLine, StreamInv
  <1>2. /\ usage = [f \in Fields |->
                     IF SaidOf(sent, provider, f) = {} THEN None
                     ELSE sent[Max(SaidOf(sent, provider, f))].usage[f]]
        /\ model = IF Named(sent) = {} THEN None ELSE sent[Max(Named(sent))].model
    BY <1>1, UsageIs
  <1> HIDE DEF t
  <1>3. model' = IF Names(l) THEN l.model ELSE model
    <2>1. CASE provider = "openai"
      <3>1. OpenAILine(l)
        BY <2>1 DEF ReadLine
      <3>2. Names(l) <=> l.kind = "chunk" /\ l.model # None
        BY <1>1, <2>1, LineIs DEF Names
      <3> QED
        BY <3>1, <3>2 DEF OpenAILine
    <2>2. CASE provider = "anthropic"
      <3>1. AnthropicLine(l)
        BY <2>2 DEF ReadLine
      <3>2. Names(l) <=> l.kind = "start" /\ l.model # None
        BY <1>1, <2>2, LineIs DEF Names
      <3> QED
        BY <3>1, <3>2 DEF AnthropicLine
    <2> QED
      BY <1>1, <2>1, <2>2 DEF Providers
  <1>4. ASSUME NEW f \in Fields
        PROVE  usage'[f] = IF Reports(l) /\ (provider = "anthropic" => l.usage[f] # None)
                           THEN l.usage[f] ELSE usage[f]
    <2>1. CASE provider = "openai"
      <3>1. OpenAILine(l)
        BY <2>1 DEF ReadLine
      <3>2. Reports(l) <=> l.kind = "chunk" /\ l.usage # None
        BY <1>1, <2>1, LineIs DEF Reports, IsData
      <3> QED
        BY <2>1, <3>1, <3>2 DEF OpenAILine
    <2>2. CASE provider = "anthropic"
      <3>1. AnthropicLine(l)
        BY <2>2 DEF ReadLine
      <3>2. Reports(l) <=> l.kind \in {"start", "delta"} /\ l.usage # None
        BY <1>1, <2>2, LineIs DEF Reports, IsData
      <3> QED
        BY <2>2, <3>1, <3>2 DEF AnthropicLine
    <2> QED
      BY <1>1, <2>1, <2>2 DEF Providers
  <1>5. ASSUME NEW f \in Fields
        PROVE  usage'[f] = IF SaidOf(t, provider, f) = {} THEN None
                           ELSE t[Max(SaidOf(t, provider, f))].usage[f]
    <2> DEFINE P == SaidOf(sent, provider, f)
               Q == SaidOf(t, provider, f)
    <2>1. /\ P \in SUBSET (1..Len(sent))
          /\ Q = IF Reports(l) /\ (provider = "anthropic" => l.usage[f] # None)
                 THEN P \cup {Len(sent) + 1} ELSE P
      BY <1>1, SaidNext DEF t
    <2>2. usage[f] = IF P = {} THEN None ELSE sent[Max(P)].usage[f]
      BY <1>2
    <2> HIDE DEF P, Q
    <2>3. /\ Q = P /\ P # {} => t[Max(Q)] = sent[Max(P)]
          /\ Q = P \cup {Len(sent) + 1} => Q # {} /\ t[Max(Q)] = l
      <3>1. sent \in Seq(AllLines) /\ P \in SUBSET (1..Len(sent))
        BY <1>1, <2>1
      <3>2. /\ P # {} => Append(sent, l)[Max(P)] = sent[Max(P)]
            /\ Append(sent, l)[Max(P \cup {Len(sent) + 1})] = l
        BY <3>1, SaidLast, Zenon
      <3> QED
        BY <3>2 DEF t
    <2>4. usage'[f] = IF Q = {} THEN None ELSE t[Max(Q)].usage[f]
      BY <1>4, <2>1, <2>2, <2>3
    <2> QED
      BY <2>4 DEF P, Q
  <1>6. model' = IF Named(t) = {} THEN None ELSE t[Max(Named(t))].model
    <2> DEFINE P == Named(sent)
               Q == Named(t)
    <2>1. /\ P \in SUBSET (1..Len(sent))
          /\ Q = IF Names(l) THEN P \cup {Len(sent) + 1} ELSE P
      BY <1>1, SaidNext DEF t
    <2>2. model = IF P = {} THEN None ELSE sent[Max(P)].model
      BY <1>2
    <2> HIDE DEF P, Q
    <2>3. /\ Q = P /\ P # {} => t[Max(Q)] = sent[Max(P)]
          /\ Q = P \cup {Len(sent) + 1} => Q # {} /\ t[Max(Q)] = l
      <3>1. sent \in Seq(AllLines) /\ P \in SUBSET (1..Len(sent))
        BY <1>1, <2>1
      <3>2. /\ P # {} => Append(sent, l)[Max(P)] = sent[Max(P)]
            /\ Append(sent, l)[Max(P \cup {Len(sent) + 1})] = l
        BY <3>1, SaidLast, Zenon
      <3> QED
        BY <3>2 DEF t
    <2>4. model' = IF Q = {} THEN None ELSE t[Max(Q)].model
      BY <1>3, <2>1, <2>2, <2>3
    <2> QED
      BY <2>4 DEF P, Q
  <1>7. usage' \in [Fields -> Nat \cup {Null, None}]
    BY StreamStep DEF StreamInv, ExchangeNext
  <1>8. usage' = [f \in Fields |-> IF SaidOf(t, provider, f) = {} THEN None
                                  ELSE t[Max(SaidOf(t, provider, f))].usage[f]]
    BY <1>5, <1>7
  <1> QED
    BY <1>1, <1>6, <1>8 DEF UsageIsLastReported, SaidOf, Said, Named

\* The usage held is at any moment the last thing the stream said of it, field
\* by field with Anthropic, as a whole with OpenAI, for any lines and any
\* length of the stream.
THEOREM HoldsLastUsage == ExchangeSpec => []UsageIsLastReported
  <1>1. ExchangeInit => UsageIsLastReported
    BY DEF ExchangeInit, UsageIsLastReported
  <1>2. StreamInv /\ UsageIsLastReported /\ [ExchangeNext]_exchangeVars => UsageIsLastReported'
    <2> SUFFICES ASSUME StreamInv, UsageIsLastReported, [ExchangeNext]_exchangeVars
                 PROVE  UsageIsLastReported'
      OBVIOUS
    <2>1. ASSUME NEW p \in Providers, NEW streaming \in BOOLEAN, Begin(p, streaming)
          PROVE  UsageIsLastReported'
      <3>1. sent' = <<>> /\ usage' = [f \in Fields |-> None] /\ model' = None
        BY <2>1 DEF Begin, NoUsage
      <3> QED
        BY <3>1 DEF UsageIsLastReported
    <2>2. ASSUME NEW l \in AllLines, ReadLine(l) PROVE UsageIsLastReported'
      BY <2>2, ReadLineUsage
    <2>3. CASE PlainAnswer
      BY <2>3 DEF PlainAnswer, Ends, UsageIsLastReported
    <2>4. CASE StreamEnds
      BY <2>4 DEF StreamEnds, Ends, UsageIsLastReported
    <2>5. CASE UNCHANGED <<provider, sent, chunks, usage, model>>
               /\ (exchange' = "streaming" => exchange = "streaming")
      BY <2>5 DEF UsageIsLastReported
    <2> QED
      BY <2>1, <2>2, <2>3, <2>4, <2>5, StreamSteps
  <1> QED
    BY <1>1, <1>2, Streams, PTL DEF ExchangeSpec
-----------------------------------------------------------------------------
\* Lines c that a client receives like the lines s, but that of a last data
\* line the event may be dispatched in c already.
Replays(c, s) ==
    IF provider = "openai" /\ s # <<>> /\ IsData(Last(s))
    THEN Reception(c) = Received(Reception(s), Blank)
    ELSE Reception(c) = Reception(s)

\* ReplayKeepsEvents speaks of a stream that has ended after a whole event; it
\* is kept because at every line before, what is kept replays what was sent.
ReplayInv ==
    /\ exchange = "streaming" =>
          /\ outcome = None
          /\ Replays(chunks, sent)
          /\ provider = "anthropic" => chunks = sent
    /\ outcome # None /\ outcome.kind = "stream" => Replays(outcome.lines, sent)

\* A blank line after a blank line changes nothing.
LEMMA BlankTwice ==
    ASSUME NEW acc PROVE Received(Received(acc, Blank), Blank) = Received(acc, Blank)
  BY DEF Received

\* The line appended is the last one.
LEMMA LastOfAppend ==
    ASSUME NEW S, NEW s \in Seq(S), NEW l \in S
    PROVE  Append(s, l) # <<>> /\ Last(Append(s, l)) = l
  BY DEF Last

\* Two lines appended at once are two lines appended one by one.
LEMMA AppendsTwo ==
    ASSUME NEW S, NEW s \in Seq(S), NEW l \in S, NEW m \in S
    PROVE  s \o <<l, m>> = Append(Append(s, l), m)
  <1> DEFINE t == s \o <<l, m>>
             u == Append(Append(s, l), m)
  <1>1. /\ t \in Seq(S) /\ Len(t) = Len(s) + 2 /\ Len(s) \in Nat
        /\ u \in Seq(S) /\ Len(u) = Len(s) + 2
    OBVIOUS
  <1>2. ASSUME NEW i \in 1..(Len(s) + 2) PROVE t[i] = u[i]
    OBVIOUS
  <1> HIDE DEF t, u
  <1>3. t = u
    BY <1>1, <1>2
  <1> QED
    BY <1>3 DEF t, u

\* Whatever the line, what is kept still replays what was sent.
LEMMA ReadLineReplays ==
    ASSUME StreamInv, ReplayInv, NEW l \in AllLines, ReadLine(l)
    PROVE  ReplayInv'
  <1> DEFINE a == Reception(sent)
             b == Reception(chunks)
  <1>1. /\ sent \in Seq(AllLines) /\ chunks \in Seq(AllLines) /\ provider \in Providers
        /\ exchange = "streaming" /\ outcome = None
        /\ provider' = provider /\ outcome' = outcome /\ sent' = Append(sent, l)
        /\ Blank \in AllLines /\ ~IsData(Blank)
    BY DEF ReadLine, StreamInv, ReplayInv, AllLines, IsData, Blank
  <1>2. Reception(sent') = Received(a, l)
    BY <1>1, OneMoreLine
  <1>3. sent' # <<>> /\ Last(sent') = l
    BY <1>1, LastOfAppend
  <1>4. CASE provider = "openai"
    <2>1. chunks' = IF IsData(l) THEN chunks \o <<l, Blank>> ELSE Append(chunks, l)
      BY <1>4 DEF ReadLine, OpenAILine
    <2>2. (sent # <<>> /\ IsData(Last(sent))) <=> l = Blank
      BY DEF ReadLine, MayFollow
    <2>3. IF l = Blank THEN b = Received(a, Blank) ELSE b = a
      <3>1. Replays(chunks, sent)
        BY <1>1 DEF ReplayInv
      <3>2. CASE l = Blank
        BY <1>4, <2>2, <3>1, <3>2 DEF Replays
      <3>3. CASE l # Blank
        BY <1>4, <2>2, <3>1, <3>3 DEF Replays
      <3> QED
        BY <3>2, <3>3
    <2>4. CASE IsData(l)
      <3>1. chunks' = Append(Append(chunks, l), Blank)
        BY <1>1, <2>1, <2>4, AppendsTwo
      <3>2. Append(chunks, l) \in Seq(AllLines)
        BY <1>1
      <3>3. Reception(chunks') = Received(Reception(Append(chunks, l)), Blank)
        BY <1>1, <3>1, <3>2, OneMoreLine
      <3>4. Reception(Append(chunks, l)) = Received(b, l)
        BY <1>1, OneMoreLine
      <3>5. b = a
        BY <1>1, <2>3, <2>4
      <3>6. Reception(chunks') = Received(Reception(sent'), Blank)
        BY <1>2, <3>3, <3>4, <3>5
      <3> QED
        BY <1>1, <1>3, <1>4, <2>4, <3>6 DEF ReplayInv, Replays
    <2>5. CASE l = Blank
      <3>1. Reception(chunks') = Received(b, Blank)
        BY <1>1, <2>1, <2>5, OneMoreLine
      <3>2. Reception(chunks') = Reception(sent')
        BY <1>2, <2>3, <2>5, <3>1, BlankTwice
      <3> QED
        BY <1>1, <1>3, <1>4, <2>5, <3>2 DEF ReplayInv, Replays
    <2>6. CASE ~IsData(l) /\ l # Blank
      <3>1. Reception(chunks') = Received(b, l)
        BY <1>1, <2>1, <2>6, OneMoreLine
      <3>2. Reception(chunks') = Reception(sent')
        BY <1>2, <2>3, <2>6, <3>1
      <3> QED
        BY <1>1, <1>3, <1>4, <2>6, <3>2 DEF ReplayInv, Replays
    <2> QED
      BY <2>4, <2>5, <2>6
  <1>5. CASE provider = "anthropic"
    <2>1. chunks' = Append(chunks, l) /\ chunks = sent
      BY <1>1, <1>5 DEF ReadLine, AnthropicLine, ReplayInv
    <2> QED
      BY <1>1, <1>5, <2>1 DEF ReplayInv, Replays
  <1> QED
    BY <1>1, <1>4, <1>5 DEF Providers

\* The lines replayed to the client of a stream that ended after a whole event
\* give it the events the provider sent, in order, for any lines and any length.
THEOREM ReplaysEveryEvent == ExchangeSpec => []ReplayKeepsEvents
  <1>1. ExchangeInit => ReplayInv
    BY DEF ExchangeInit, ReplayInv
  <1>2. StreamInv /\ ReplayInv /\ [ExchangeNext]_exchangeVars => ReplayInv'
    <2> SUFFICES ASSUME StreamInv, ReplayInv, [ExchangeNext]_exchangeVars PROVE ReplayInv'
      OBVIOUS
    <2>1. ASSUME NEW p \in Providers, NEW streaming \in BOOLEAN, Begin(p, streaming)
          PROVE  ReplayInv'
      <3>1. outcome' = None /\ sent' = <<>> /\ chunks' = <<>>
        BY <2>1 DEF Begin
      <3> QED
        BY <3>1 DEF ReplayInv, Replays
    <2>2. ASSUME NEW l \in AllLines, ReadLine(l) PROVE ReplayInv'
      BY <2>2, ReadLineReplays
    <2>3. CASE PlainAnswer
      BY <2>3 DEF PlainAnswer, Ends, ReplayInv
    <2>4. CASE StreamEnds
      <3>1. /\ exchange = "streaming" /\ exchange' = "idle"
            /\ provider' = provider /\ sent' = sent /\ outcome'.lines = chunks
        BY <2>4 DEF StreamEnds, Ends
      <3> QED
        BY <3>1 DEF ReplayInv, Replays
    <2>5. CASE /\ UNCHANGED <<provider, sent, chunks, usage, model>>
               /\ \/ UNCHANGED <<exchange, outcome>>
                  \/ exchange' = "idle" /\ outcome'.kind # "stream"
      BY <2>5 DEF ReplayInv, Replays
    <2> QED
      BY <2>1, <2>2, <2>3, <2>4, <2>5, StreamSteps
  <1>3. ReplayInv => ReplayKeepsEvents
    <2> SUFFICES ASSUME ReplayInv, outcome # None, outcome.kind = "stream",
                        sent = <<>> \/ Last(sent) = Blank
                 PROVE  Dispatched(outcome.lines) = Dispatched(sent)
      BY DEF ReplayKeepsEvents
    <2>1. ~IsData(Blank)
      BY DEF IsData, Blank
    <2> QED
      BY <2>1 DEF ReplayInv, Replays, Dispatched
  <1> QED
    BY <1>1, <1>2, <1>3, Streams, PTL DEF ExchangeSpec
-----------------------------------------------------------------------------
\* What names a model names one of the provider's.
LEMMA LineNames ==
    ASSUME NEW p \in Providers, NEW l \in Lines[p] \cup {Blank}, l.kind \in {"chunk", "start"}
    PROVE  l.model \in Models \cup {None}
  <1>1. l # Blank
    BY DEF Blank
  <1>2. CASE p = "openai"
    BY <1>1, <1>2, StreamAssumption
  <1>3. CASE p = "anthropic"
    BY <1>1, <1>3, StreamAssumption
  <1> QED
    BY <1>2, <1>3 DEF Providers

\* Every exchange ends with a status that the proxy knows, and with three
\* counts to record, whatever the provider left out of its usage: whole numbers,
\* or the nulls that it sent.
THEOREM ExchangeTypeCorrect == ExchangeSpec => []ExchangeTypeOK
  <1>1. ExchangeInit => ExchangeTypeOK
    BY DEF ExchangeInit, ExchangeTypeOK, Providers, NoUsage
  <1>2. StreamInv' /\ ExchangeTypeOK /\ [ExchangeNext]_exchangeVars => ExchangeTypeOK'
    <2> DEFINE Typed == /\ exchange' \in {"idle", "plain", "streaming"}
                        /\ model' \in Models \cup {None}
                        /\ outcome' \in {None} \cup Outcomes
    <2> SUFFICES ASSUME StreamInv', ExchangeTypeOK, [ExchangeNext]_exchangeVars PROVE Typed
      BY DEF StreamInv, ExchangeTypeOK, Outcomes
    <2>0. /\ NoTokens \in [Fields -> Nat \cup {Null}] /\ <<>> \in Seq(AllLines)
          /\ \A u \in [Fields -> Nat \cup {Null, None}] : Tokens(u) \in [Fields -> Nat \cup {Null}]
      BY DEF NoTokens, Tokens
    <2>1. ASSUME NEW p \in Providers, NEW streaming \in BOOLEAN, Begin(p, streaming) PROVE Typed
      BY <2>1 DEF Begin
    <2>2. CASE UnknownProvider
      BY <2>0, <2>2 DEF UnknownProvider, Ends, ExchangeTypeOK, Outcomes
    <2>3. CASE PlainAnswer
      <3>1. PICK u \in [Fields -> Nat \cup {Null, None}] : Ends(200, "plain", <<>>, Tokens(u))
        BY <2>3, StreamAssumption DEF PlainAnswer, NoUsage
      <3>2. Tokens(u) \in [Fields -> Nat \cup {Null}] /\ model' = model
        BY <2>0, <2>3 DEF PlainAnswer
      <3> QED
        BY <2>0, <3>1, <3>2 DEF Ends, ExchangeTypeOK, Outcomes
    <2>4. CASE PlainFails \/ StreamFails
      <3>1. /\ \E code \in {500, 502, 504},
                kind \in {"timeout", "api_error", "network", "unparsed"} :
                Ends(code, kind, <<>>, NoTokens)
            /\ model' = model
        <4>1. CASE PlainFails
          BY <4>1 DEF PlainFails
        <4>2. CASE StreamFails
          BY <4>2 DEF StreamFails
        <4> QED
          BY <2>4, <4>1, <4>2
      <3> QED
        BY <2>0, <3>1 DEF Ends, ExchangeTypeOK, Outcomes
    <2>5. ASSUME NEW l \in AllLines, ReadLine(l) PROVE Typed
      <3>1. /\ provider \in Providers /\ l \in Lines[provider] \cup {Blank}
            /\ UNCHANGED <<exchange, outcome>>
        BY <2>5 DEF ReadLine, ExchangeTypeOK
      <3>2. model' = model \/ (l.kind \in {"chunk", "start"} /\ model' = l.model)
        BY <2>5 DEF ReadLine, OpenAILine, AnthropicLine
      <3> QED
        BY <3>1, <3>2, LineNames DEF ExchangeTypeOK, Outcomes
    <2>6. CASE StreamEnds
      <3>1. chunks \in Seq(AllLines) /\ Tokens(usage) \in [Fields -> Nat \cup {Null}]
        BY <2>0 DEF ExchangeTypeOK
      <3> QED
        BY <2>6, <3>1 DEF StreamEnds, Ends, ExchangeTypeOK, Outcomes
    <2>7. CASE UNCHANGED exchangeVars
      BY <2>7 DEF exchangeVars, ExchangeTypeOK, Outcomes
    <2> QED
      BY <2>1, <2>2, <2>3, <2>4, <2>5, <2>6, <2>7 DEF ExchangeNext
  <1> QED
    BY <1>1, <1>2, Streams, PTL DEF ExchangeSpec
=============================================================================
