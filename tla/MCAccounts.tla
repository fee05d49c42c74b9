------------------------------ MODULE MCAccounts -----------------------------
(* Accounts with two guests and one key of another kind.                    *)
EXTENDS Accounts

A(id, key) == [id |-> id, key |-> key]
MCExisting == {{}, {A(1, "guest"), A(3, "other")}}
=============================================================================
