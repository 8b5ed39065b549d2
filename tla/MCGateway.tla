----------------------------- MODULE MCGateway -----------------------------
(* A small instance of Gateway: a service for everybody and one for admins *)
EXTENDS Gateway, TLC

CONSTANTS r1, r2, r3, p1

\* r3 is the id of a role created later
RolesOfMigration == r1 :> "admin" @@ r2 :> "user"
AdminGrants == {<<r1, p1>>}
UserIsUser == Users \X {r2}

=============================================================================
