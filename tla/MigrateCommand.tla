---------------------------- MODULE MigrateCommand ----------------------------
(***************************************************************************)
(* `tauri migrate` (tooling/cli/src/migrate/mod.rs): migrate the config,  *)
(* then the Cargo manifest, then the frontend, then add every plugin the  *)
(* config migration reported, one `tauri add` at a time.  Each of these   *)
(* steps writes files and may fail; the first failure returns the error   *)
(* with `?` and nothing already written is undone.                        *)
(*                                                                         *)
(* One step is one of the calls; whether it fails is chosen by the step. *)
(***************************************************************************)
EXTENDS Naturals, Sequences

CONSTANTS
  Plugins,         \* plugin names config::migrate may report
  MaxPlugins       \* bound on the number of reported plugins

ASSUME MigrateAssumption == MaxPlugins \in Nat

(* The migration steps before the plugin loop, in the order `command` runs *)
(* them.                                                                   *)
Steps == <<"config", "manifest", "frontend">>

VARIABLES
  done,            \* the migration steps that completed, in order
  plugins,         \* `migrated.plugins`, known once config::migrate returned
  added,           \* plugins `add::command` installed, in order
  pc,              \* "migrate", "plugins" or "returned"
  result           \* "none", "ok" or "err"

vars == <<done, plugins, added, pc, result>>

Lists(S) == UNION {[1..n -> S] : n \in 0..MaxPlugins}

-----------------------------------------------------------------------------
Init ==
  /\ done = <<>> /\ plugins = <<>> /\ added = <<>>
  /\ pc = "migrate" /\ result = "none"

(* The next of config::migrate, manifest::migrate, frontend::migrate      *)
(* succeeds; config::migrate also returns the plugins to add.              *)
MigrateStep ==
  /\ pc = "migrate"
  /\ done' = Append(done, Steps[Len(done) + 1])
  /\ IF Len(done) = 0 THEN plugins' \in Lists(Plugins) ELSE UNCHANGED plugins
  /\ pc' = IF Len(done') = Len(Steps) THEN "plugins" ELSE "migrate"
  /\ UNCHANGED <<added, result>>

(* That migration step fails: `?` returns its error.                       *)
MigrateStepFails ==
  /\ pc = "migrate"
  /\ pc' = "returned" /\ result' = "err"
  /\ UNCHANGED <<done, plugins, added>>

(* Mutant: the result of `add::command` discarded instead of `?`.          *)
AddPluginFailsIgnored ==
  /\ pc = "plugins" /\ Len(added) < Len(plugins)
  /\ pc' = "returned" /\ result' = "ok"
  /\ UNCHANGED <<done, plugins, added>>

(* `crate::add::command(..)?` fails for the next plugin.                   *)
AddPluginFails ==
  /\ pc = "plugins" /\ Len(added) < Len(plugins)
  /\ pc' = "returned" /\ result' = "err"
  /\ UNCHANGED <<done, plugins, added>>

(* `crate::add::command(..)` succeeds for the next plugin.                 *)
AddPlugin ==
  /\ pc = "plugins" /\ Len(added) < Len(plugins)
  /\ added' = Append(added, plugins[Len(added) + 1])
  /\ UNCHANGED <<done, plugins, pc, result>>

(* The loop is over: Ok(()).                                               *)
Finish ==
  /\ pc = "plugins" /\ Len(added) = Len(plugins)
  /\ pc' = "returned" /\ result' = "ok"
  /\ UNCHANGED <<done, plugins, added>>

Next ==
  \/ MigrateStep \/ MigrateStepFails
  \/ AddPlugin \/ AddPluginFails \/ Finish

Spec == Init /\ [][Next]_vars

-----------------------------------------------------------------------------
(* Properties.                                                             *)

IsPrefix(s, t) == Len(s) <= Len(t) /\ \A k \in DOMAIN s : s[k] = t[k]

(* What `migrate` leaves behind is always a prefix of the full run: the   *)
(* migration steps done are the first ones in order, plugins are added    *)
(* only after all three and in the reported order; Ok means every step   *)
(* ran and every reported plugin was added, and Err means the run stopped *)
(* at the first failure with everything before it left applied.           *)
MigrationPrefix ==
  /\ IsPrefix(done, Steps)
  /\ IsPrefix(added, plugins)
  /\ added # <<>> => done = Steps
  /\ result = "ok" => done = Steps /\ added = plugins
  /\ result = "err" => done # Steps \/ Len(added) < Len(plugins)

=============================================================================
