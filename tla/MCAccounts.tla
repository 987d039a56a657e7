----------------------------- MODULE MCAccounts -----------------------------
(* Accounts on small sets; the .cfg files choose them. *)
EXTENDS Accounts, TLC

\* Texts are random and requests are anonymous: both are interchangeable.
Symmetry == Permutations(Texts) \cup Permutations(Requests)
=============================================================================
