----------------------------- MODULE MCAccounts -----------------------------
(* Two registrations race for one email with passwords of their own; the   *)
(* login has the password of the first.                                    *)
EXTENDS Accounts

MCEmail == [r \in Registrations \cup Logins |-> "an email"]
MCPassword == [r \in Registrations \cup Logins |-> IF r = "second" THEN "theirs" ELSE "mine"]
=============================================================================
