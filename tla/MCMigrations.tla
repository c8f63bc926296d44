---------------------------- MODULE MCMigrations ----------------------------
(***************************************************************************)
(* Instances of Migrations: two versions of one object with the same       *)
(* number, which revisions before 0004 let in, and one of another object.  *)
(***************************************************************************)
EXTENDS Migrations, TLC

CONSTANTS o1, o2, v1, v2, w1

VersionOwner == v1 :> o1 @@ v2 :> o1 @@ w1 :> o2
Numbers == v1 :> 1 @@ v2 :> 1 @@ w1 :> 1

Interchangeable == Permutations(Key) \union Permutations({v1, v2})
===============================================================================
