------------------------------ MODULE PlistMerge ------------------------------
(***************************************************************************)
(* merge_plist (tooling/cli/src/mobile/ios/mod.rs): overlay the top-level *)
(* keys of a list of source plists onto a destination plist and write it  *)
(* back once.                                                              *)
(*                                                                         *)
(* One step is one iteration of the loop over `src`, or the final write.  *)
(* The file system is `disk`: each path holds a dictionary (a function     *)
(* from some keys to values), a readable plist that is not a dictionary   *)
(* (NonDict), or something `plist::Value::from_file` fails on             *)
(* (Unreadable: missing, truncated, not a plist).  The destination is read *)
(* lazily, on the first readable source, and its read failing aborts the  *)
(* function with an error.  Writing it may fail before anything is written *)
(* (create refused) or after `File::create` truncated it (Unreadable).    *)
(***************************************************************************)
EXTENDS PlistMergeBase

VARIABLES
  i,             \* index of the next source the loop takes
  destPlist,     \* `dest_plist`: NoValue until loaded
  pc             \* "loop" or "done"

vars == <<disk, disk0, srcs, i, destPlist, pc, result>>

-----------------------------------------------------------------------------
(* Mutant: the destination's keys win over the source's.                   *)
OverlayDestWins(d, s) ==
  [k \in DOMAIN d \cup DOMAIN s |-> IF k \in DOMAIN d THEN d[k] ELSE s[k]]

(* `for (key, value) in dict { plist.insert(key, value) }`: every key of  *)
(* the source overwrites the destination's.                                *)
Overlay(d, s) ==
  [k \in DOMAIN d \cup DOMAIN s |-> IF k \in DOMAIN s THEN s[k] ELSE d[k]]

(* The overlay happens only when both roots are dictionaries.             *)
MergeInto(d, s) == IF IsDict(d) /\ IsDict(s) THEN Overlay(d, s) ELSE d

(* Mutant: `from_file(dest)?` taken as infallible.                         *)
DestLoadableAlways == TRUE

(* `plist::Value::from_file(dest)?` succeeds.                              *)
DestLoadable == disk[Dest] # Unreadable

(* Mutant: the `is_none()` check dropped, the destination re-read for     *)
(* every readable source.                                                  *)
LoadDestAlways(current) == disk[Dest]

(* `if dest_plist.is_none() { dest_plist.replace(from_file(dest)?) }`     *)
LoadDest(current) == IF current = NoValue THEN disk[Dest] ELSE current

-----------------------------------------------------------------------------
Init ==
  /\ disk \in [Paths -> Contents]
  /\ disk0 = disk
  /\ srcs \in Sources
  /\ i = 1
  /\ destPlist = NoValue
  /\ pc = "loop"
  /\ result = NoValue

SrcReadable == disk[srcs[i]] # Unreadable

(* `if let Ok(src_plist) = ...` fails: the source is skipped.             *)
SkipSource ==
  /\ pc = "loop" /\ i <= Len(srcs)
  /\ ~SrcReadable
  /\ i' = i + 1
  /\ UNCHANGED <<disk, disk0, srcs, destPlist, pc, result>>

(* The first readable source, and the destination fails to load: `?`.     *)
LoadDestFails ==
  /\ pc = "loop" /\ i <= Len(srcs)
  /\ SrcReadable
  /\ destPlist = NoValue
  /\ ~DestLoadable
  /\ pc' = "done" /\ result' = "err"
  /\ UNCHANGED <<disk, disk0, srcs, i, destPlist>>

(* Mutant: `to_file_xml(dest)` moved into the loop body.                  *)
MergeSourceWriting ==
  /\ pc = "loop" /\ i <= Len(srcs)
  /\ SrcReadable
  /\ destPlist = NoValue => DestLoadable
  /\ destPlist' = MergeInto(LoadDest(destPlist), disk[srcs[i]])
  /\ disk' = [disk EXCEPT ![Dest] = destPlist']
  /\ i' = i + 1
  /\ UNCHANGED <<disk0, srcs, pc, result>>

(* A readable source: load the destination if needed, overlay the keys.   *)
MergeSource ==
  /\ pc = "loop" /\ i <= Len(srcs)
  /\ SrcReadable
  /\ destPlist = NoValue => DestLoadable
  /\ destPlist' = MergeInto(LoadDest(destPlist), disk[srcs[i]])
  /\ i' = i + 1
  /\ UNCHANGED <<disk, disk0, srcs, pc, result>>

(* The loop is over and nothing was loaded: Ok(()) without writing.       *)
FinishUnwritten ==
  /\ pc = "loop" /\ i > Len(srcs)
  /\ destPlist = NoValue
  /\ pc' = "done" /\ result' = "ok"
  /\ UNCHANGED <<disk, disk0, srcs, i, destPlist>>

(* `dest_plist.to_file_xml(dest)?` succeeds.                              *)
WriteDest ==
  /\ pc = "loop" /\ i > Len(srcs)
  /\ destPlist # NoValue
  /\ disk' = [disk EXCEPT ![Dest] = destPlist]
  /\ pc' = "done" /\ result' = "ok"
  /\ UNCHANGED <<disk0, srcs, i, destPlist>>

(* The write fails, before File::create or after it truncated the file.    *)
WriteFails ==
  /\ pc = "loop" /\ i > Len(srcs)
  /\ destPlist # NoValue
  /\ \E c \in {disk[Dest], Unreadable} : disk' = [disk EXCEPT ![Dest] = c]
  /\ pc' = "done" /\ result' = "err"
  /\ UNCHANGED <<disk0, srcs, i, destPlist>>

Next ==
  \/ SkipSource \/ LoadDestFails \/ MergeSource
  \/ FinishUnwritten \/ WriteDest \/ WriteFails

Spec == Init /\ [][Next]_vars

-----------------------------------------------------------------------------
(* Properties.                                                             *)

TypeOK ==
  /\ disk \in [Paths -> Contents]
  /\ disk0 \in [Paths -> Contents]
  /\ srcs \in Seq(Paths)
  /\ i \in 1..(Len(srcs) + 1)
  /\ destPlist \in Dicts \cup {NonDict, NoValue}
  /\ pc \in {"loop", "done"}
  /\ result \in {NoValue, "ok", "err"}

(* While the loop runs, `dest_plist` is None exactly until a readable     *)
(* source has been met, and from then on it is the destination as it was *)
(* read once, with the keys of every dictionary source so far overlaid,   *)
(* the last source defining a key winning.  Breaks if the destination is *)
(* re-read (dropping earlier overlays) or the overlay order is reversed.  *)
MergedSoFar ==
  pc = "loop" =>
    IF ReadableUpTo(i - 1) = {} THEN destPlist = NoValue
    ELSE destPlist = MergedUpTo(i - 1)

(* What merge_plist returns and leaves on disk: Outcome, once it has     *)
(* returned.                                                               *)
MergeOutcome == pc = "done" => Outcome

(* The refinement mapping to the atomic specification: the call is running *)
(* until pc says it has returned; the loop index and dest_plist are hidden. *)
Atomic == INSTANCE PlistMergeAtomic
            WITH phase <- IF pc = "done" THEN "returned" ELSE "running"

(* merge_plist implements its atomic specification: every step of the    *)
(* loop leaves the disk and the result as they were, and the final step  *)
(* (write, failed write, or return without writing) is one Return.        *)
AtomicSpec == Atomic!Spec


=============================================================================
