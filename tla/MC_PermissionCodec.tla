-------------------------- MODULE MC_PermissionCodec --------------------------
(* Two commands, one scope value, lists of at most one entry.            *)
EXTENDS PermissionCodec
=============================================================================
