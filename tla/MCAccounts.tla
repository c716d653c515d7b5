----------------------------- MODULE MCAccounts -----------------------------
(* Instances of Accounts for TLC.                                           *)
EXTENDS Accounts

Deployed(b, e) == [backend |-> b, exitOrder |-> e]
BothOrders == {Deployed("sqlite", "commit_first"), Deployed("postgres", "commit_last")}
=============================================================================
