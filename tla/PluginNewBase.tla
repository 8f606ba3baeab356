------------------------------ MODULE PluginNewBase ------------------------------
(* The state of `tauri plugin new` (PluginNew) and what it must keep:    *)
(* the constants, the variables and the property, shared by the proofs.  *)
EXTENDS Naturals

CONSTANTS
  Cwds,            \* possible current directories
  Dirs,            \* `--directory` arguments
  Names,           \* plugin names
  Default,         \* name -> the relative path "tauri-plugin-{name}"
  Join,            \* (cwd, relative path) -> path
  None             \* Option::None

VARIABLES
  name,            \* options.plugin_name
  directory,       \* options.directory
  cwd,             \* current_dir(), once read
  created,         \* directories create_dir_all made
  initDir,         \* the directory `plugin init` was given
  pc               \* "cwd", "create", "init", "done", "err" or "panic"

-----------------------------------------------------------------------------
(* Properties.                                                             *)

(* From<Options> never panics, and `plugin init` always runs in a         *)
(* directory that was just created: a relative `--directory` resolves    *)
(* against the same cwd it was created in, and the default target is     *)
(* passed on as the path created.                                          *)
InitInCreatedDir ==
  /\ pc # "panic"
  /\ pc = "done" => Join[cwd, initDir] \in created

=============================================================================
