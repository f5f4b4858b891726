----------------------------- MODULE MCAccounts -----------------------------
(* Symmetry and a bound for the run of Accounts. *)
EXTENDS Accounts, FiniteSets, TLC

Symmetry ==
    Permutations(Req) \cup Permutations(Browser) \cup Permutations(UserId)
        \cup Permutations(Email) \cup Permutations(Password)

(* A browser sends one password only: the right one or the wrong one. *)
OnePassword == \A b \in Browser : Cardinality(sent[b]) <= 1
=============================================================================
