----------------------------- MODULE MCAccounts -----------------------------
(* Accounts for model checking: handler goroutines are interchangeable, and *)
(* so are the passwords and the provider's subscription identifiers.        *)
EXTENDS Accounts, TLC

Symmetry == Permutations(Requests) \union Permutations(Lavas) \union Permutations(Passwords)
=============================================================================
