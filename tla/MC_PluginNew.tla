------------------------------ MODULE MC_PluginNew ------------------------------
(* Two current directories, two plugin names, a relative and an absolute *)
(* `--directory`.  Join keeps an absolute path and appends a relative one. *)
EXTENDS PluginNew, Sequences

MCCwds == {"/w", "/v"}
MCNames == {"a", "b"}
MCRel == {"tauri-plugin-a", "tauri-plugin-b", "x"}
MCAbs == {"/w/x", "/v/x", "/w/tauri-plugin-a", "/w/tauri-plugin-b",
          "/v/tauri-plugin-a", "/v/tauri-plugin-b", "/abs"}
MCDirs == MCRel \cup MCAbs
MCDefault == [n \in MCNames |-> IF n = "a" THEN "tauri-plugin-a" ELSE "tauri-plugin-b"]
MCJoin == [p \in MCCwds \X MCDirs |->
             IF p[2] \in MCAbs THEN p[2]
             ELSE CHOOSE q \in MCAbs : q = p[1] \o "/" \o p[2]]
=============================================================================
