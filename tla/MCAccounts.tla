----------------------------- MODULE MCAccounts -----------------------------
(* Small instances of Accounts: one administrator, one user, one new user *)
EXTENDS Accounts, TLC

CONSTANTS root, ann, bob

Symmetry == Permutations(Requests)

\* Rows 1 and 2 of the roles table, as the migration makes them; 3 is free
TwoRoles == [id \in RoleIds |-> CASE id = 1 -> "admin" [] id = 2 -> "user"
                                  [] OTHER -> NoName]
AdminAndUser == [u \in {root, ann} |-> IF u = root THEN 1 ELSE 2]

=============================================================================
