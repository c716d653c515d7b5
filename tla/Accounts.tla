------------------------------ MODULE Accounts ------------------------------
(***************************************************************************)
(* Registration and the issue of keys (proxy/api/routes.py:641-687), from  *)
(* the statements of a request to the end of its session in get_db.  A     *)
(* user is named by the request that registered it, a key by the request   *)
(* that generated it: raw keys are random and never collide.  No code      *)
(* deactivates a key.                                                      *)
(***************************************************************************)
EXTENDS Integers

CONSTANTS Requests, Emails,
          Deployments,     \* the ways the proxy is deployed, as in ProxyRequest
          Faults,          \* whether a COMMIT or a statement may fail
          MaxBoots,        \* bound: restarts of the process
          None

ASSUME AccountsAssumption ==
    /\ Deployments \subseteq [backend : {"sqlite", "postgres"},
                              exitOrder : {"commit_first", "commit_last"}]
    /\ Faults \in BOOLEAN
    /\ MaxBoots \in Nat
    /\ None \notin Requests \cup Emails

VARIABLES deployment,      \* how this proxy is deployed, for good
          stage,           \* how far each request is
          email,           \* what a registration asks for
          account,         \* the user a request to issue a key acts for
          status,          \* what the client was told, or None
          users, keys,     \* the committed rows
          shown,           \* the keys that clients have been shown
          boot

vars == <<deployment, stage, email, account, status, users, keys, shown, boot>>

Backend == deployment.backend
ExitOrder == deployment.exitOrder

Users == [id : Requests, email : Emails]
Keys == [id : Requests, user : Requests]

TypeOK ==
    /\ deployment \in Deployments
    /\ stage \in [Requests -> {"idle", "checked", "inserted", "ending", "over"}]
    /\ email \in [Requests -> Emails \cup {None}]
    /\ account \in [Requests -> Requests \cup {None}]
    /\ status \in [Requests -> {None, 200, 201, 401, 409, 500}]
    /\ users \in SUBSET Users
    /\ keys \in SUBSET Keys
    /\ shown \in SUBSET Keys
    /\ boot \in 0..MaxBoots

Init ==
    /\ deployment \in Deployments
    /\ stage = [r \in Requests |-> "idle"]
    /\ email = [r \in Requests |-> None]
    /\ account = [r \in Requests |-> None]
    /\ status = [r \in Requests |-> None]
    /\ users = {} /\ keys = {} /\ shown = {}
    /\ boot = 0
-----------------------------------------------------------------------------
Registered(e) == \E u \in users : u.email = e

\* A request that has written holds its locks to the end of its transaction:
\* the whole of a SQLite file, or the entry of its e-mail in Postgres' index.
Writing(r) ==
    \/ stage[r] = "inserted"
    \/ stage[r] = "ending" /\ ExitOrder = "commit_last"

MayWrite(r) ==
    \A o \in Requests \ {r} : Writing(o) =>
        Backend = "postgres" /\ (email[o] = None \/ email[o] # email[r])

Tell(r, s) == status' = [status EXCEPT ![r] = s]
Move(r, s) == stage' = [stage EXCEPT ![r] = s]

\* Variant: the id of the new user is read before the flush that sets it.
NewKeyOfNobody(r) == [id |-> r, user |-> IF account[r] = r THEN None ELSE account[r]]

\* The row of api_keys that a request adds.
NewKey(r) == [id |-> r, user |-> account[r]]

\* register_user: the SELECT by e-mail, and the 409.
RegisterChecks(r, e) ==
    /\ stage[r] = "idle"
    /\ email' = [email EXCEPT ![r] = e]
    /\ account' = [account EXCEPT ![r] = r]
    /\ IF Registered(e)
       THEN Tell(r, 409) /\ Move(r, "over")
       ELSE Move(r, "checked") /\ UNCHANGED status
    /\ UNCHANGED <<deployment, users, keys, shown, boot>>

\* Variant: the index on users.email is not unique.
RegisterInsertsAnyway(r) ==
    /\ stage[r] = "checked" /\ MayWrite(r)
    /\ Move(r, "inserted")
    /\ UNCHANGED <<deployment, email, account, status, users, keys, shown, boot>>

\* The INSERT into users, at flush: it waits for a writer of the same entry,
\* and fails if that one registered the e-mail; nothing translates the error.
RegisterInserts(r) ==
    /\ stage[r] = "checked" /\ MayWrite(r)
    /\ IF Registered(email[r])
       THEN Tell(r, 500) /\ Move(r, "over")
       ELSE Move(r, "inserted") /\ UNCHANGED status
    /\ UNCHANGED <<deployment, email, account, users, keys, shown, boot>>

\* validate_api_key for a key that was shown to the client, whose row may not
\* be there.  The request then ends (200), or issues a key: its INSERT follows
\* the UPDATE of last_used_at, with the locks already taken.
UseKey(r, k) ==
    /\ stage[r] = "idle"
    /\ \/ k \notin keys /\ Tell(r, 401) /\ Move(r, "over") /\ UNCHANGED account
       \/ k \in keys /\ MayWrite(r) /\ Tell(r, 200) /\ Move(r, "over") /\ UNCHANGED account
       \/ /\ k \in keys /\ MayWrite(r)
          /\ account' = [account EXCEPT ![r] = k.user]
          /\ Move(r, "inserted") /\ UNCHANGED status
    /\ UNCHANGED <<deployment, email, users, keys, shown, boot>>

\* SQLite gives up a wait for its lock after 30 seconds; a statement may fail.
StatementFails(r) ==
    /\ stage[r] \in {"checked", "inserted"}
    /\ Faults \/ (Backend = "sqlite" /\ stage[r] = "checked" /\ ~MayWrite(r))
    /\ Tell(r, 500) /\ Move(r, "over")
    /\ UNCHANGED <<deployment, email, account, users, keys, shown, boot>>

Store(r) ==
    /\ users' = IF email[r] = None THEN users
                ELSE users \cup {[id |-> r, email |-> email[r]]}
    /\ keys' = keys \cup {NewKey(r)}

\* Variant: a failing commit goes unnoticed.
CommitFirstAnyway(r) ==
    /\ stage[r] = "inserted" /\ ExitOrder = "commit_first"
    /\ Store(r) \/ (Faults /\ UNCHANGED <<users, keys>>)
    /\ Move(r, "ending")
    /\ UNCHANGED <<deployment, email, account, status, shown, boot>>

\* get_db before the response: the commit, or the 500 of a commit that fails.
CommitFirst(r) ==
    /\ stage[r] = "inserted" /\ ExitOrder = "commit_first"
    /\ \/ Store(r) /\ Move(r, "ending") /\ UNCHANGED status
       \/ Faults /\ Tell(r, 500) /\ Move(r, "over") /\ UNCHANGED <<users, keys>>
    /\ UNCHANGED <<deployment, email, account, shown, boot>>

\* Variant: a registration answers without the key it generated.
RespondWithoutKey(r) ==
    /\ \/ stage[r] = "ending" /\ ExitOrder = "commit_first" /\ Move(r, "over")
       \/ stage[r] = "inserted" /\ ExitOrder = "commit_last" /\ Move(r, "ending")
    /\ Tell(r, 201)
    /\ shown' = IF email[r] = None THEN shown \cup {NewKey(r)} ELSE shown
    /\ UNCHANGED <<deployment, email, account, users, keys, boot>>

\* The 201 with the raw key, after the commit or before it.
Respond(r) ==
    /\ \/ stage[r] = "ending" /\ ExitOrder = "commit_first" /\ Move(r, "over")
       \/ stage[r] = "inserted" /\ ExitOrder = "commit_last" /\ Move(r, "ending")
    /\ Tell(r, 201)
    /\ shown' = shown \cup {NewKey(r)}
    /\ UNCHANGED <<deployment, email, account, users, keys, boot>>

\* get_db after the response, when a failure can no longer be told.
CommitLast(r) ==
    /\ stage[r] = "ending" /\ ExitOrder = "commit_last"
    /\ Store(r) \/ (Faults /\ UNCHANGED <<users, keys>>)
    /\ Move(r, "over")
    /\ UNCHANGED <<deployment, email, account, status, shown, boot>>

\* The process dies: open transactions are rolled back, their clients are told
\* nothing more.
Restart ==
    /\ boot < MaxBoots
    /\ boot' = boot + 1
    /\ stage' = [r \in Requests |-> IF stage[r] = "idle" THEN "idle" ELSE "over"]
    /\ UNCHANGED <<deployment, email, account, status, users, keys, shown>>

Next ==
    \/ \E r \in Requests :
          \/ \E e \in Emails : RegisterChecks(r, e)
          \/ RegisterInserts(r)
          \/ \E k \in shown : UseKey(r, k)
          \/ StatementFails(r)
          \/ CommitFirst(r) \/ Respond(r) \/ CommitLast(r)
    \/ Restart

Spec == Init /\ [][Next]_vars
-----------------------------------------------------------------------------
(* Properties *)

\* Two registrations that both found an e-mail free do not both keep it,
\* whatever commits fail and wherever the process dies (the check and the
\* INSERT of register_user are two statements).
EmailsAreUnique == \A u, v \in users : u.email = v.email => u = v

\* Where sessions end before the response, a key that was shown is accepted
\* from then on, also after a restart, and belongs to the account of whoever
\* asked for it.
ShownKeyWorks ==
    ExitOrder = "commit_first" =>
        shown \subseteq keys /\ \A k \in keys : \E u \in users : u.id = k.user

\* Where they end after it, no e-mail is taken by an account nobody can enter:
\* its user has been shown a key of it.  (Where sessions end first, a crash
\* between the commit and the response leaves such an account.)
AccountsCanBeEntered ==
    ExitOrder = "commit_last" =>
        \A u \in users : \E k \in shown \cap keys : k.user = u.id
=============================================================================
