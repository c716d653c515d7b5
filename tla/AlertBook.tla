----------------------------- MODULE AlertBook -----------------------------
(***************************************************************************)
(* What the alert store promises its users: an alert is raised for a user  *)
(* who has none outstanding, is acknowledged at most once and only by its  *)
(* own user, and never comes back or goes away.  Nothing is said of how an *)
(* alert comes to be raised; Recording.tla is the code that does it.       *)
(***************************************************************************)
CONSTANTS Ids,         \* identities of alerts
          Users,
          Requests,    \* identities of acknowledge requests
          UserOf       \* UserOf[r]: the user who sent request r

VARIABLE book          \* book[i]: the user and the acknowledging request

Unwritten == [user |-> {}, ackedBy |-> {}]

Outstanding(u) == \E i \in Ids : book[i] = [user |-> {u}, ackedBy |-> {}]

BookInit == book = [i \in Ids |-> Unwritten]

Raise(i, u) ==
    /\ book[i] = Unwritten
    /\ ~Outstanding(u)
    /\ book' = [book EXCEPT ![i] = [user |-> {u}, ackedBy |-> {}]]

Acknowledge(i, r) ==
    /\ book[i] = [user |-> {UserOf[r]}, ackedBy |-> {}]
    /\ book' = [book EXCEPT ![i] = [user |-> {UserOf[r]}, ackedBy |-> {r}]]

BookNext == \E i \in Ids :
    (\E u \in Users : Raise(i, u)) \/ (\E r \in Requests : Acknowledge(i, r))

BookSpec == BookInit /\ [][BookNext]_book
=============================================================================
