------------------------------ MODULE PluginNew ------------------------------
(***************************************************************************)
(* `tauri plugin new` (tooling/cli/src/plugin/new.rs): resolve the target *)
(* directory, create it, fill `options.directory` when it was not given,  *)
(* and hand the options to `plugin init` through From<Options>, which     *)
(* unwraps `directory`.                                                    *)
(*                                                                         *)
(* Paths are abstract: Join(cwd, d) is the path `cwd.join(d)` names, and  *)
(* the default target is Join(cwd, Default[name]) for the name's          *)
(* "tauri-plugin-{name}".  One step is one call that may fail.            *)
(***************************************************************************)
EXTENDS PluginNewBase

ASSUME PluginNewAssumption ==
  /\ Default \in [Names -> Dirs]
  /\ None \notin Dirs

(* std::env::current_dir() is absolute, so `cwd.join(d)` is an absolute  *)
(* path, and Path::join with an absolute argument replaces the base: the  *)
(* default target, joined again with the same cwd, names itself.         *)
ASSUME PathAssumption ==
  /\ Join \in [Cwds \X Dirs -> Dirs]
  /\ \A c \in Cwds, d \in Dirs : Join[c, Join[c, d]] = Join[c, d]

vars == <<name, directory, cwd, created, initDir, pc>>

-----------------------------------------------------------------------------
Init ==
  /\ name \in Names
  /\ directory \in Dirs \cup {None}
  /\ cwd = None /\ created = {} /\ initDir = None
  /\ pc = "cwd"

(* `std::env::current_dir()?`                                              *)
CurrentDir ==
  /\ pc = "cwd"
  /\ \E c \in Cwds : cwd' = c
  /\ pc' = "create"
  /\ UNCHANGED <<name, directory, created, initDir>>

CurrentDirFails ==
  /\ pc = "cwd"
  /\ pc' = "err"
  /\ UNCHANGED <<name, directory, cwd, created, initDir>>

(* Mutant: the default target created but `directory` left None.           *)
CreateDirNoReplace ==
  /\ pc = "create"
  /\ created' = created \cup
       {Join[cwd, IF directory = None THEN Default[name] ELSE directory]}
  /\ pc' = "init"
  /\ UNCHANGED <<name, directory, cwd, initDir>>

(* `create_dir_all(cwd.join(dir))?`, or the default target created and    *)
(* `options.directory.replace(target)`.                                    *)
CreateDir ==
  /\ pc = "create"
  /\ IF directory = None
     THEN /\ created' = created \cup {Join[cwd, Default[name]]}
          /\ directory' = Join[cwd, Default[name]]
     ELSE /\ created' = created \cup {Join[cwd, directory]}
          /\ UNCHANGED directory
  /\ pc' = "init"
  /\ UNCHANGED <<name, cwd, initDir>>

(* create_dir_all fails: `?` returns the error.                            *)
CreateDirFails ==
  /\ pc = "create"
  /\ pc' = "err"
  /\ UNCHANGED <<name, directory, cwd, created, initDir>>

(* `super::init::command(options.into())`: `o.directory.unwrap()` panics  *)
(* on None; otherwise init runs with that directory.                       *)
StartInit ==
  /\ pc = "init"
  /\ IF directory = None
     THEN pc' = "panic" /\ UNCHANGED initDir
     ELSE pc' = "done" /\ initDir' = directory
  /\ UNCHANGED <<name, directory, cwd, created>>

Next ==
  \/ CurrentDir \/ CurrentDirFails
  \/ CreateDir \/ CreateDirFails
  \/ StartInit

Spec == Init /\ [][Next]_vars

=============================================================================
