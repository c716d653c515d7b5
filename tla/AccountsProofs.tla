---------------------------- MODULE AccountsProofs --------------------------
(***************************************************************************)
(* Theorems about registration and keys, for every set of requests and     *)
(* e-mails, on either backend, with commits that fail and restarts.        *)
(***************************************************************************)
EXTENDS Accounts, TLAPS

\* A request at work acts for somebody.
TypeInv ==
    /\ TypeOK
    /\ \A r \in Requests : stage[r] \notin {"idle", "over"} => account[r] \in Requests

LEMMA NextType ==
  ASSUME TypeInv, [Next]_vars
  PROVE  TypeInv'
  <1>. USE AccountsAssumption DEF Backend, ExitOrder, TypeInv, TypeOK, Tell, Move, Users, Keys
  <1>1. ASSUME NEW r \in Requests, NEW e \in Emails, RegisterChecks(r, e) PROVE TypeInv'
    BY <1>1 DEF RegisterChecks
  <1>2. ASSUME NEW r \in Requests, RegisterInserts(r) PROVE TypeInv'
    BY <1>2 DEF RegisterInserts
  <1>3. ASSUME NEW r \in Requests, NEW k \in shown, UseKey(r, k) PROVE TypeInv'
    BY <1>3 DEF UseKey
  <1>4. ASSUME NEW r \in Requests, StatementFails(r) PROVE TypeInv'
    BY <1>4 DEF StatementFails
  <1>5. ASSUME NEW r \in Requests, CommitFirst(r) PROVE TypeInv'
    BY <1>5 DEF CommitFirst, Store, NewKey
  <1>6. ASSUME NEW r \in Requests, Respond(r) PROVE TypeInv'
    BY <1>6 DEF Respond, NewKey
  <1>7. ASSUME NEW r \in Requests, CommitLast(r) PROVE TypeInv'
    BY <1>7 DEF CommitLast, Store, NewKey
  <1>8. CASE Restart
    BY <1>8 DEF Restart
  <1>9. CASE UNCHANGED vars
    BY <1>9 DEF vars
  <1>. QED
    BY <1>1, <1>2, <1>3, <1>4, <1>5, <1>6, <1>7, <1>8, <1>9
    DEF Next

\* Every row of users and api_keys and every status is one the code knows
\* (register_user, generate_api_key, get_db).
THEOREM TypeCorrect == Spec => []TypeOK
  <1>1. Init => TypeInv
    BY AccountsAssumption DEF Init, TypeInv, TypeOK
  <1>2. TypeInv => TypeOK
    BY DEF TypeInv
  <1>. QED
    BY <1>1, <1>2, NextType, PTL DEF Spec
-----------------------------------------------------------------------------
LEMMA DeploymentStays == [Next]_vars => deployment' = deployment
  BY DEF Next, vars, RegisterChecks, RegisterInserts, UseKey, StatementFails,
         CommitFirst, Respond, CommitLast, Restart

(* E-mails *)

\* A request that has written for an e-mail is alone with it: nobody else
\* writes for the same one, and no committed user has it.
WritersInv ==
    /\ \A r \in Requests : stage[r] = "idle" => email[r] = None
    /\ \A r \in Requests : stage[r] = "checked" => email[r] # None
    /\ \A r, o \in Requests : Writing(r) /\ Writing(o) /\ r # o =>
          Backend = "postgres" /\ (email[r] = None \/ email[r] # email[o])
    /\ \A r \in Requests : Writing(r) /\ email[r] # None => ~Registered(email[r])
    /\ EmailsAreUnique

LEMMA NextWriters ==
  ASSUME TypeInv, WritersInv, [Next]_vars
  PROVE  WritersInv'
  <1>. USE AccountsAssumption DEF Backend, ExitOrder, TypeInv, TypeOK, WritersInv, EmailsAreUnique, Writing, Registered, Tell, Move, Users
  <1>1. ASSUME NEW r \in Requests, NEW e \in Emails, RegisterChecks(r, e) PROVE WritersInv'
    BY <1>1 DEF RegisterChecks
  <1>2. ASSUME NEW r \in Requests, RegisterInserts(r) PROVE WritersInv'
    BY <1>2 DEF RegisterInserts, MayWrite
  <1>3. ASSUME NEW r \in Requests, NEW k \in shown, UseKey(r, k) PROVE WritersInv'
    BY <1>3 DEF UseKey, MayWrite
  <1>4. ASSUME NEW r \in Requests, StatementFails(r) PROVE WritersInv'
    BY <1>4 DEF StatementFails
  <1>5. ASSUME NEW r \in Requests, CommitFirst(r) PROVE WritersInv'
    BY <1>5 DEF CommitFirst, Store
  <1>6. ASSUME NEW r \in Requests, Respond(r) PROVE WritersInv'
    BY <1>6 DEF Respond
  <1>7. ASSUME NEW r \in Requests, CommitLast(r) PROVE WritersInv'
    BY <1>7 DEF CommitLast, Store
  <1>8. CASE Restart
    BY <1>8 DEF Restart
  <1>9. CASE UNCHANGED vars
    BY <1>9 DEF vars
  <1>. QED
    BY <1>1, <1>2, <1>3, <1>4, <1>5, <1>6, <1>7, <1>8, <1>9
    DEF Next

\* No two committed users have one e-mail, whatever registrations interleave,
\* commits fail and restarts come between (register_user and users.email).
THEOREM NeverTwice == Spec => []EmailsAreUnique
  <1>1. Init => TypeInv /\ WritersInv
    BY AccountsAssumption DEF Init, TypeInv, TypeOK, WritersInv, EmailsAreUnique, Writing, Registered
  <1>2. TypeInv /\ WritersInv /\ [Next]_vars => (TypeInv /\ WritersInv)'
    BY NextType, NextWriters
  <1>3. WritersInv => EmailsAreUnique
    BY DEF WritersInv
  <1>. QED
    BY <1>1, <1>2, <1>3, PTL DEF Spec
-----------------------------------------------------------------------------
(* Keys *)

HasAccount(u) == \E v \in users : v.id = u

\* A registration writes a key of its own user, any other request one of a user
\* who is there; a session that ended first has stored its key when it answers.
KeysInv ==
    /\ \A r \in Requests : stage[r] = "idle" => email[r] = None
    /\ \A r \in Requests : email[r] # None => account[r] = r
    /\ \A r \in Requests : stage[r] \in {"inserted", "ending"} /\ email[r] = None =>
          HasAccount(account[r])
    /\ \A r \in Requests : stage[r] = "checked" => email[r] # None
    /\ \A r \in Requests : stage[r] = "ending" => NewKey(r) \in keys
    /\ ShownKeyWorks

LEMMA NextKeys ==
  ASSUME ExitOrder = "commit_first", TypeInv, KeysInv, [Next]_vars
  PROVE  KeysInv'
  <1>. USE AccountsAssumption DEF Backend, ExitOrder, TypeInv, TypeOK, KeysInv, ShownKeyWorks, HasAccount, NewKey, Tell, Move, Users, Keys
  <1>1. ASSUME NEW r \in Requests, NEW e \in Emails, RegisterChecks(r, e) PROVE KeysInv'
    BY <1>1 DEF RegisterChecks
  <1>2. ASSUME NEW r \in Requests, RegisterInserts(r) PROVE KeysInv'
    BY <1>2 DEF RegisterInserts
  <1>3. ASSUME NEW r \in Requests, NEW k \in shown, UseKey(r, k) PROVE KeysInv'
    BY <1>3 DEF UseKey
  <1>4. ASSUME NEW r \in Requests, StatementFails(r) PROVE KeysInv'
    BY <1>4 DEF StatementFails
  <1>5. ASSUME NEW r \in Requests, CommitFirst(r) PROVE KeysInv'
    <2>. DEFINE New == [id |-> r, email |-> email[r]]
    <2>1. CASE Store(r) /\ Move(r, "ending") /\ UNCHANGED status
      <3>1. keys' = keys \cup {NewKey(r)} /\ users \subseteq users' /\ shown' = shown
        BY <1>5, <2>1 DEF CommitFirst, Store
      <3>2. \E u \in users' : u.id = account[r]
        <4>1. CASE email[r] = None
          BY <1>5, <3>1, <4>1 DEF CommitFirst
        <4>2. CASE email[r] # None
          <5>1. New \in users' /\ New.id = r
            BY <2>1, <4>2 DEF Store
          <5>. QED
            BY <4>2, <5>1
        <4>. QED
          BY <4>1, <4>2
      <3>3. shown' \subseteq keys' /\ \A k \in keys' : \E u \in users' : u.id = k.user
        BY <3>1, <3>2
      <3>4. UNCHANGED <<email, account>> /\ stage' = [stage EXCEPT ![r] = "ending"] /\ stage[r] = "inserted"
        BY <1>5, <2>1 DEF CommitFirst
      <3>5. \A o \in Requests : stage'[o] = "ending" => NewKey(o)' \in keys'
        BY <3>1, <3>4
      <3>6. \A o \in Requests : stage'[o] \in {"inserted", "ending"} /\ email'[o] = None =>
               HasAccount(account[o])'
        BY <3>1, <3>4
      <3>. QED
        BY <3>3, <3>4, <3>5, <3>6
    <2>2. CASE Faults /\ Tell(r, 500) /\ Move(r, "over") /\ UNCHANGED <<users, keys>>
      BY <1>5, <2>2 DEF CommitFirst
    <2>. QED
      BY <1>5, <2>1, <2>2 DEF CommitFirst
  <1>6. ASSUME NEW r \in Requests, Respond(r) PROVE KeysInv'
    BY <1>6 DEF Respond
  <1>7. ASSUME NEW r \in Requests, CommitLast(r) PROVE KeysInv'
    BY <1>7 DEF CommitLast, Store
  <1>8. CASE Restart
    BY <1>8 DEF Restart
  <1>9. CASE UNCHANGED vars
    BY <1>9 DEF vars
  <1>. QED
    BY <1>1, <1>2, <1>3, <1>4, <1>5, <1>6, <1>7, <1>8, <1>9
    DEF Next

\* Where sessions end before the response, a key that was shown is stored, and
\* its user with it, whatever commits fail (get_db, register_user).
THEOREM ShownIsStored == Spec => []ShownKeyWorks
  <1>. DEFINE Inv == TypeInv /\ (ExitOrder = "commit_first" => KeysInv)
  <1>1. Init => Inv
    BY AccountsAssumption DEF Init, TypeInv, TypeOK, KeysInv, ShownKeyWorks
  <1>2. Inv /\ [Next]_vars => Inv'
    <2>1. [Next]_vars => ExitOrder' = ExitOrder
      BY DeploymentStays DEF ExitOrder
    <2>. QED
      BY <2>1, NextType, NextKeys
  <1>3. Inv => ShownKeyWorks
    BY DEF KeysInv, ShownKeyWorks
  <1>. QED
    BY <1>1, <1>2, <1>3, PTL DEF Spec

\* Where they end after it, what a session stores has been shown.
EntryInv ==
    /\ \A r \in Requests : email[r] # None => account[r] = r
    /\ \A r \in Requests : stage[r] = "idle" => email[r] = None
    /\ \A r \in Requests : stage[r] = "ending" => NewKey(r) \in shown
    /\ AccountsCanBeEntered

LEMMA NextEntry ==
  ASSUME ExitOrder = "commit_last", TypeInv, EntryInv, [Next]_vars
  PROVE  EntryInv'
  <1>. USE AccountsAssumption DEF Backend, ExitOrder, TypeInv, TypeOK, EntryInv, AccountsCanBeEntered, NewKey, Tell, Move, Users, Keys
  <1>1. ASSUME NEW r \in Requests, NEW e \in Emails, RegisterChecks(r, e) PROVE EntryInv'
    BY <1>1 DEF RegisterChecks
  <1>2. ASSUME NEW r \in Requests, RegisterInserts(r) PROVE EntryInv'
    BY <1>2 DEF RegisterInserts
  <1>3. ASSUME NEW r \in Requests, NEW k \in shown, UseKey(r, k) PROVE EntryInv'
    BY <1>3 DEF UseKey
  <1>4. ASSUME NEW r \in Requests, StatementFails(r) PROVE EntryInv'
    BY <1>4 DEF StatementFails
  <1>5. ASSUME NEW r \in Requests, CommitFirst(r) PROVE EntryInv'
    BY <1>5 DEF CommitFirst, Store
  <1>6. ASSUME NEW r \in Requests, Respond(r) PROVE EntryInv'
    BY <1>6 DEF Respond
  <1>7. ASSUME NEW r \in Requests, CommitLast(r) PROVE EntryInv'
    <2>1. NewKey(r) \in shown /\ UNCHANGED <<email, account, shown>>
          /\ stage' = [stage EXCEPT ![r] = "over"]
      BY <1>7 DEF CommitLast
    <2>2. CASE Store(r)
      <3>1. keys' = keys \cup {NewKey(r)} /\ \A u \in users' : u \in users \/ u.id = account[r]
        BY <2>2 DEF Store
      <3>2. NewKey(r) \in shown' \cap keys' /\ NewKey(r).user = account[r]
        BY <2>1, <3>1
      <3>3. AccountsCanBeEntered'
        BY <2>1, <3>1, <3>2
      <3>. QED
        BY <2>1, <3>3
    <2>3. CASE UNCHANGED <<users, keys>>
      BY <2>1, <2>3
    <2>. QED
      BY <1>7, <2>2, <2>3 DEF CommitLast
  <1>8. CASE Restart
    BY <1>8 DEF Restart
  <1>9. CASE UNCHANGED vars
    BY <1>9 DEF vars
  <1>. QED
    BY <1>1, <1>2, <1>3, <1>4, <1>5, <1>6, <1>7, <1>8, <1>9
    DEF Next

\* Where sessions end after the response, no user is stored without a key that
\* somebody has been shown (register_user, get_db).
THEOREM NobodyIsLockedOut == Spec => []AccountsCanBeEntered
  <1>. DEFINE Inv == TypeInv /\ (ExitOrder = "commit_last" => EntryInv)
  <1>1. Init => Inv
    BY AccountsAssumption DEF Init, TypeInv, TypeOK, EntryInv, AccountsCanBeEntered
  <1>2. Inv /\ [Next]_vars => Inv'
    <2>1. [Next]_vars => ExitOrder' = ExitOrder
      BY DeploymentStays DEF ExitOrder
    <2>. QED
      BY <2>1, NextType, NextEntry
  <1>3. Inv => AccountsCanBeEntered
    BY DEF EntryInv, AccountsCanBeEntered
  <1>. QED
    BY <1>1, <1>2, <1>3, PTL DEF Spec
=============================================================================
