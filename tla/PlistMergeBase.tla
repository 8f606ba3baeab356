---------------------------- MODULE PlistMergeBase ----------------------------
(***************************************************************************)
(* What merge_plist (tooling/cli/src/mobile/ios/mod.rs) works on and what *)
(* it must produce, shared by the step-by-step model PlistMerge and the    *)
(* atomic specification PlistMergeAtomic: the constants, the file system  *)
(* and the call's arguments, and the reference merge of the sources.      *)
(***************************************************************************)
EXTENDS Naturals, Sequences

CONSTANTS
  Paths,         \* file paths
  Dest,          \* the `dest` argument
  Keys,          \* top-level plist keys
  Values,        \* plist values
  Sources,       \* the `src` arguments: sequences of paths
  NonDict,       \* a readable plist whose root is not a dictionary
  Unreadable,    \* a file from_file fails on
  NoValue        \* Option::None

(* A plist dictionary.                                                     *)
Dicts == UNION {[D -> Values] : D \in SUBSET Keys}

Contents == Dicts \cup {NonDict, Unreadable}

ASSUME PlistAssumption ==
  /\ Dest \in Paths
  /\ Sources \subseteq Seq(Paths)
  /\ NonDict \notin Dicts /\ Unreadable \notin Dicts /\ NoValue \notin Dicts
  /\ NonDict # Unreadable /\ NoValue \notin {NonDict, Unreadable}

VARIABLES
  disk,          \* path -> content
  disk0,         \* the disk when merge_plist was called (history)
  srcs,          \* the `src` argument
  result         \* NoValue while running, then "ok" or "err"

IsDict(c) == c \in Dicts

(* Reference: the sources among the first n that the loop can read, the   *)
(* dictionary ones among them, and the dictionary merged from them in     *)
(* order onto the destination as it was when the function was called.     *)
ReadableUpTo(n) == {j \in 1..n : disk0[srcs[j]] # Unreadable}
DictUpTo(n) == {j \in 1..n : IsDict(disk0[srcs[j]])}
Defines(j, k) == k \in DOMAIN disk0[srcs[j]]
LastDefining(n, k, j) ==
  /\ j \in DictUpTo(n)
  /\ Defines(j, k)
  /\ \A j2 \in DictUpTo(n) : j2 > j => ~Defines(j2, k)
MergedUpTo(n) ==
  IF ~IsDict(disk0[Dest]) THEN disk0[Dest]
  ELSE [k \in DOMAIN disk0[Dest] \cup
              UNION {DOMAIN disk0[srcs[j]] : j \in DictUpTo(n)} |->
          IF \E j \in DictUpTo(n) : Defines(j, k)
          THEN disk0[srcs[CHOOSE j \in DictUpTo(n) : LastDefining(n, k, j)]][k]
          ELSE disk0[Dest][k]]

(* What merge_plist returns and leaves on disk once it has returned.  With *)
(* no readable source it returns Ok and writes nothing; with one and an   *)
(* unloadable destination it returns Err and writes nothing; otherwise Ok *)
(* means the destination holds the merge of all dictionary sources in     *)
(* order (the destination unchanged if its root is not a dictionary), and *)
(* Err means the destination is unchanged or unreadable.  No other file   *)
(* changes.                                                                *)
Outcome ==
  /\ \A p \in Paths \ {Dest} : disk[p] = disk0[p]
  /\ ReadableUpTo(Len(srcs)) = {} => result = "ok" /\ disk = disk0
  /\ ReadableUpTo(Len(srcs)) # {} /\ disk0[Dest] = Unreadable =>
       result = "err" /\ disk = disk0
  /\ result = "ok" /\ ReadableUpTo(Len(srcs)) # {} =>
       disk[Dest] = MergedUpTo(Len(srcs))
  /\ result = "err" => disk[Dest] \in {disk0[Dest], Unreadable}

=============================================================================
