----------------------------- MODULE MCMigrations ------------------------------
(***************************************************************************)
(* Small instances of the migrations for TLC.                              *)
(***************************************************************************)
EXTENDS MigrationsProperties

CONSTANTS j1, j2

TwoJobs == {j1, j2}
FirstFile == {1}

================================================================================
