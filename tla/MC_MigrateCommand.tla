--------------------------- MODULE MC_MigrateCommand ---------------------------
(* Three plugin names, at most three reported plugins.                       *)
EXTENDS MigrateCommand
=============================================================================
