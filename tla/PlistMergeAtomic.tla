--------------------------- MODULE PlistMergeAtomic ---------------------------
(***************************************************************************)
(* What merge_plist (tooling/cli/src/mobile/ios/mod.rs) promises, as one  *)
(* atomic step: while it runs nothing observable changes, and when it     *)
(* returns, the disk and the result satisfy Outcome.  The loop index and  *)
(* the in-memory plist of the code are not part of this specification.    *)
(***************************************************************************)
EXTENDS PlistMergeBase

VARIABLE
  phase          \* "running" or "returned"

vars == <<disk, disk0, srcs, result, phase>>

Init ==
  /\ disk \in [Paths -> Contents]
  /\ disk0 = disk
  /\ srcs \in Sources
  /\ result = NoValue
  /\ phase = "running"

(* The call returns Ok or Err, leaving the disk as Outcome describes.     *)
Return ==
  /\ phase = "running"
  /\ phase' = "returned"
  /\ result' \in {"ok", "err"}
  /\ disk' \in [Paths -> Contents]
  /\ UNCHANGED <<disk0, srcs>>
  /\ Outcome'

Next == Return

Spec == Init /\ [][Next]_vars

=============================================================================
