----------------------------- MODULE MCAccounts -----------------------------
(* Instances of Accounts for TLC. *)
EXTENDS Accounts, TLC

Admin == NewUser("admin", TRUE, 0)
Editor == NewUser("editor", TRUE, 0)

(* First boot, two admins, and an admin with an editor. *)
MCTables == {<< >>, [u \in Users |-> Admin]}
            \cup {[u \in Users |-> IF u = a THEN Admin ELSE Editor] : a \in Users}

Symmetry == Permutations(Users) \cup Permutations(Requests)
=============================================================================
