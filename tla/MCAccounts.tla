----------------------------- MODULE MCAccounts -----------------------------
(***************************************************************************)
(* Two clients and one name, typed with two passwords.                     *)
(***************************************************************************)
EXTENDS Accounts

MCPasswords == {"key ", "other"}
MCTrim == [p \in MCPasswords |-> IF p = "key " THEN "key" ELSE p]
=============================================================================
