----------------------------- MODULE MCMigrations -----------------------------
(* Migrations, and the teams they lead to, on small instances.             *)
EXTENDS Migrations

CONSTANTS h1, k1
OwnerOfToken == k1 :> h1
=================================================================================
