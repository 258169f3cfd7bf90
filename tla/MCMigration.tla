---------------------------- MODULE MCMigration ----------------------------
(***************************************************************************)
(* Two microVMs, and programs one after another.                           *)
(***************************************************************************)
EXTENDS Migration

MCVMs == {a, b}

=============================================================================
