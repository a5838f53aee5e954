----------------------------- MODULE MCAccounts -----------------------------
(***************************************************************************)
(* The instance of Accounts that TLC checks.                               *)
(***************************************************************************)
EXTENDS Accounts, TLC

MCSymmetry == Permutations(Requests) \union Permutations(Accounts) \union Permutations(Users)
                \union Permutations(Emails)
=============================================================================
