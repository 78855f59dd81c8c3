------------------------------ MODULE MCAccounts -----------------------------
(* Constants of the run of Accounts. *)
EXTENDS Accounts, TLC

CONSTANTS ann, bob, c1, c2, um, pw1, pw2

\* User Management with each level; nothing else that is stored gates a request.
MCSubmitted == {um :> "EDIT", um :> "NONE", um :> "VIEW"}

MCSymmetry == Permutations({c1, c2}) \cup Permutations({pw1, pw2})
=============================================================================
