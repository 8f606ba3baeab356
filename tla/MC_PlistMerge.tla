---------------------------- MODULE MC_PlistMerge ----------------------------
(* Small instance: two source files and the destination, two keys, two    *)
(* values, and every `src` of at most two paths, the destination included. *)
EXTENDS PlistMerge

MCPaths == {"a.plist", "b.plist", "Info.plist"}
MCDest == "Info.plist"
MCKeys == {"k1", "k2"}
MCValues == {"v1", "v2"}
MCSources == {<<>>} \cup {<<p>> : p \in MCPaths}
               \cup {<<p, q>> : p, q \in MCPaths}
=============================================================================
