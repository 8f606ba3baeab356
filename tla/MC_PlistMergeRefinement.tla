----------------------- MODULE MC_PlistMergeRefinement -----------------------
(* merge_plist step by step, checked against its atomic specification,    *)
(* and for termination, on the instance of MC_PlistMerge.                 *)
EXTENDS MC_PlistMerge

=============================================================================
