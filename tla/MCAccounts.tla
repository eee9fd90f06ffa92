----------------------------- MODULE MCAccounts -----------------------------
(***************************************************************************)
(* Model values, scenarios and symmetry: two imports of the same phones    *)
(* and a crash; resets and changes of an account just created; logins with *)
(* right and wrong passwords, also while the password is replaced.         *)
(***************************************************************************)
EXTENDS Accounts, TLC

CONSTANTS p1, p2, i1, i2, c1, r1, r2

ScenariosVal == {{"create", "crash"}, {"create", "reset", "change"},
                 {"login", "change"}, {"login", "reset"}}
Symmetry == Permutations({p1, p2}) \cup Permutations({i1, i2})
            \cup Permutations({r1, r2})
=============================================================================
