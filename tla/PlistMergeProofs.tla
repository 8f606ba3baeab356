--------------------------- MODULE PlistMergeProofs ---------------------------
(* Proofs about merge_plist (PlistMerge) for every value of the constants. *)
EXTENDS PlistMerge, WellFoundedInduction, TLAPS

USE PlistAssumption

(* Overlaying one dictionary on another gives a dictionary.               *)
LEMMA OverlayDict ==
  ASSUME NEW d \in Dicts, NEW s \in Dicts
  PROVE  Overlay(d, s) \in Dicts
<1>1. PICK D1 \in SUBSET Keys : d \in [D1 -> Values]
  BY DEF Dicts
<1>2. PICK D2 \in SUBSET Keys : s \in [D2 -> Values]
  BY DEF Dicts
<1>3. Overlay(d, s) \in [D1 \cup D2 -> Values]
  BY <1>1, <1>2 DEF Overlay
<1>. QED
  BY <1>3 DEF Dicts

(* What MergeSource stores is a dictionary or a non-dictionary root.      *)
LEMMA MergeIntoType ==
  ASSUME NEW d \in Dicts \cup {NonDict}, NEW s
  PROVE  MergeInto(d, s) \in Dicts \cup {NonDict}
BY OverlayDict DEF MergeInto, IsDict

-----------------------------------------------------------------------------
(* The reference merge MergedUpTo.                                         *)

(* When some dictionary source among the first n defines k, one of them   *)
(* is the last to define it.                                               *)
LEMMA LastDefiningExists ==
  ASSUME NEW n \in Nat, NEW k, \E j \in DictUpTo(n) : Defines(j, k)
  PROVE  \E j : LastDefining(n, k, j)
<1> DEFINE Hits == {j \in DictUpTo(n) : Defines(j, k)}
           T    == {n - j : j \in Hits}
           R    == OpToRel(<, Nat)
<1>1. T \subseteq Nat /\ T # {}
  BY DEF DictUpTo
<1>2. PICK x \in T : \A y \in T : ~(<<y, x>> \in R)
  BY <1>1, NatLessThanWellFounded, WFMin
<1>3. PICK j \in Hits : x = n - j
  BY <1>2
<1>4. ASSUME NEW j2 \in DictUpTo(n), j2 > j, Defines(j2, k)
      PROVE  FALSE
  <2>1. n - j2 \in T /\ n - j2 < x
    BY <1>3, <1>4 DEF DictUpTo
  <2>2. <<n - j2, x>> \in R
    BY <2>1, <1>1 DEF OpToRel
  <2>. QED
    BY <2>1, <2>2, <1>2
<1>. QED
  BY <1>3, <1>4 DEF LastDefining

(* There is only one last source defining a key.                           *)
LEMMA LastDefiningUnique ==
  ASSUME NEW n \in Nat, NEW k, NEW j1, NEW j2,
         LastDefining(n, k, j1), LastDefining(n, k, j2)
  PROVE  j1 = j2
BY DEF LastDefining, DictUpTo

(* The merged value of a key is the one of the last source defining it.   *)
LEMMA MergedAt ==
  ASSUME NEW n \in Nat, IsDict(disk0[Dest]), NEW k, NEW j,
         LastDefining(n, k, j)
  PROVE  /\ k \in DOMAIN MergedUpTo(n)
         /\ MergedUpTo(n)[k] = disk0[srcs[j]][k]
<1>1. \E j1 \in DictUpTo(n) : LastDefining(n, k, j1)
  BY DEF LastDefining
<1>2. LET c == CHOOSE j1 \in DictUpTo(n) : LastDefining(n, k, j1)
      IN  c = j
  BY <1>1, LastDefiningUnique
<1>3. \E j1 \in DictUpTo(n) : Defines(j1, k)
  BY DEF LastDefining
<1>4. k \in DOMAIN disk0[srcs[j]]
  BY DEF LastDefining, Defines
<1>. QED
  BY <1>2, <1>3, <1>4 DEF MergedUpTo, LastDefining

(* Onto a dictionary destination the merge is a dictionary.                *)
LEMMA MergedDict ==
  ASSUME NEW n \in Nat, IsDict(disk0[Dest])
  PROVE  MergedUpTo(n) \in Dicts
<1> DEFINE M == MergedUpTo(n)
           D == DOMAIN disk0[Dest] \cup
                  UNION {DOMAIN disk0[srcs[j]] : j \in DictUpTo(n)}
<1>1. D \subseteq Keys
  BY DEF DictUpTo, IsDict, Dicts
<1>2. DOMAIN M = D
  BY DEF MergedUpTo
<1>3. ASSUME NEW k \in D PROVE M[k] \in Values
  <2>1. CASE \E j \in DictUpTo(n) : Defines(j, k)
    <3>1. PICK j : LastDefining(n, k, j)
      BY <2>1, LastDefiningExists
    <3>2. M[k] = disk0[srcs[j]][k]
      BY <3>1, MergedAt
    <3>3. disk0[srcs[j]] \in Dicts /\ k \in DOMAIN disk0[srcs[j]]
      BY <3>1 DEF LastDefining, DictUpTo, IsDict, Defines
    <3>. QED
      BY <3>2, <3>3 DEF Dicts
  <2>2. CASE ~\E j \in DictUpTo(n) : Defines(j, k)
    <3>1. k \in DOMAIN disk0[Dest]
      BY <2>2 DEF Defines
    <3>2. M[k] = disk0[Dest][k]
      BY <2>2, <3>1 DEF MergedUpTo
    <3>. QED
      BY <3>1, <3>2 DEF IsDict, Dicts
  <2>. QED
    BY <2>1, <2>2
<1>4. M \in [D -> Values]
  BY <1>2, <1>3 DEF MergedUpTo
<1>. QED
  BY <1>1, <1>4 DEF Dicts

(* Taking one more source merges it into the merge of the ones before.    *)
LEMMA MergedStep ==
  ASSUME NEW n \in Nat
  PROVE  MergedUpTo(n + 1) = MergeInto(MergedUpTo(n), disk0[srcs[n + 1]])
<1> DEFINE s  == disk0[srcs[n + 1]]
           d0 == disk0[Dest]
           M  == MergedUpTo(n)
           M1 == MergedUpTo(n + 1)
<1>1. CASE ~IsDict(d0)
  <2>1. M = d0 /\ M1 = d0
    BY <1>1 DEF MergedUpTo
  <2>. QED
    BY <1>1, <2>1 DEF MergeInto
<1>2. CASE IsDict(d0) /\ ~IsDict(s)
  <2>1. DictUpTo(n + 1) = DictUpTo(n)
    BY <1>2 DEF DictUpTo
  <2>2. M1 = M
    BY <2>1 DEF MergedUpTo, LastDefining
  <2>. QED
    BY <1>2, <2>2 DEF MergeInto
<1>3. CASE IsDict(d0) /\ IsDict(s)
  <2>1. DictUpTo(n + 1) = DictUpTo(n) \cup {n + 1}
    BY <1>3 DEF DictUpTo
  <2>2. IsDict(M)
    BY <1>3, MergedDict DEF IsDict
  <2>3. MergeInto(M, s) = Overlay(M, s)
    BY <1>3, <2>2 DEF MergeInto
  <2>4. DOMAIN M1 = DOMAIN M \cup DOMAIN s
    <3>1. DOMAIN M = DOMAIN d0 \cup
                       UNION {DOMAIN disk0[srcs[j]] : j \in DictUpTo(n)}
      BY <1>3 DEF MergedUpTo
    <3>2. DOMAIN M1 = DOMAIN d0 \cup
                        UNION {DOMAIN disk0[srcs[j]] : j \in DictUpTo(n + 1)}
      BY <1>3 DEF MergedUpTo
    <3>. QED
      BY <3>1, <3>2, <2>1
  <2>5. ASSUME NEW k \in DOMAIN s PROVE M1[k] = s[k]
    <3>1. LastDefining(n + 1, k, n + 1)
      BY <1>3, <2>1 DEF LastDefining, Defines, DictUpTo
    <3>. QED
      BY <1>3, <3>1, MergedAt
  <2>6. ASSUME NEW k \in DOMAIN M, k \notin DOMAIN s PROVE M1[k] = M[k]
    <3>1. CASE \E j \in DictUpTo(n) : Defines(j, k)
      <4>1. PICK j : LastDefining(n, k, j)
        BY <3>1, LastDefiningExists
      <4>2. LastDefining(n + 1, k, j)
        BY <4>1, <2>1, <2>6 DEF LastDefining, Defines
      <4>. QED
        BY <1>3, <4>1, <4>2, MergedAt
    <3>2. CASE ~\E j \in DictUpTo(n) : Defines(j, k)
      <4>1. ~\E j \in DictUpTo(n + 1) : Defines(j, k)
        BY <3>2, <2>1, <2>6 DEF Defines
      <4>2. k \in DOMAIN d0
        BY <3>2, <1>3 DEF MergedUpTo, Defines
      <4>3. M[k] = d0[k]
        BY <3>2, <4>2, <1>3 DEF MergedUpTo
      <4>4. M1[k] = d0[k]
        BY <4>1, <4>2, <1>3 DEF MergedUpTo
      <4>. QED
        BY <4>3, <4>4
    <3>. QED
      BY <3>1, <3>2
  <2>7. M1 = [k \in DOMAIN M \cup DOMAIN s |-> M1[k]]
    BY <2>4, <1>3 DEF MergedUpTo
  <2>. QED
    BY <2>3, <2>5, <2>6, <2>7 DEF Overlay
<1>. QED
  BY <1>1, <1>2, <1>3

LEMMA InitTypeOK == Init => TypeOK
BY DEF Init, TypeOK

LEMMA NextTypeOK == TypeOK /\ [Next]_vars => TypeOK'
<1> SUFFICES ASSUME TypeOK, [Next]_vars PROVE TypeOK'
  OBVIOUS
<1>1. CASE SkipSource
  BY <1>1 DEF SkipSource, TypeOK
<1>2. CASE LoadDestFails
  BY <1>2 DEF LoadDestFails, TypeOK
<1>3. CASE MergeSource
  <2>1. LoadDest(destPlist) \in Dicts \cup {NonDict}
    <3>1. disk[Dest] \in Contents
      BY DEF TypeOK
    <3>. QED
      BY <1>3, <3>1 DEF MergeSource, LoadDest, DestLoadable, TypeOK, Contents
  <2>2. destPlist' \in Dicts \cup {NonDict}
    BY <1>3, <2>1, MergeIntoType DEF MergeSource
  <2>. QED
    BY <1>3, <2>2 DEF MergeSource, TypeOK
<1>4. CASE FinishUnwritten
  BY <1>4 DEF FinishUnwritten, TypeOK
<1>5. CASE WriteDest
  BY <1>5 DEF WriteDest, TypeOK, Contents
<1>6. CASE WriteFails
  BY <1>6 DEF WriteFails, TypeOK, Contents
<1>7. CASE UNCHANGED vars
  BY <1>7 DEF vars, TypeOK
<1>. QED
  BY <1>1, <1>2, <1>3, <1>4, <1>5, <1>6, <1>7 DEF Next

(* merge_plist only ever holds a dictionary or a non-dictionary plist in   *)
(* `dest_plist` (never the unreadable destination it failed to load), and  *)
(* only ever writes a plist to the destination.                            *)
THEOREM TypeCorrect == Spec => []TypeOK
BY InitTypeOK, NextTypeOK, PTL DEF Spec

-----------------------------------------------------------------------------
(* The merge and the outcome.                                              *)

(* The inductive invariant: the disk is untouched while the loop runs,    *)
(* which is what lets the loop's reads of the file system be the reads    *)
(* of the reference (taken on disk0).                                      *)
IInv ==
  /\ TypeOK
  /\ pc = "loop" => disk = disk0
  /\ MergedSoFar
  /\ MergeOutcome

(* With no dictionary source yet, the merge is the destination as read.   *)
LEMMA MergedEmpty ==
  ASSUME NEW n \in Nat, DictUpTo(n) = {}, disk0 \in [Paths -> Contents]
  PROVE  MergedUpTo(n) = disk0[Dest]
<1> DEFINE d0 == disk0[Dest]
<1>1. CASE IsDict(d0)
  <2>1. MergedUpTo(n) = [k \in DOMAIN d0 |-> d0[k]]
    BY <1>1 DEF MergedUpTo
  <2>2. d0 = [k \in DOMAIN d0 |-> d0[k]]
    BY <1>1 DEF IsDict, Dicts
  <2>. QED
    BY <2>1, <2>2
<1>2. CASE ~IsDict(d0)
  BY <1>2 DEF MergedUpTo
<1>. QED
  BY <1>1, <1>2

(* The merge is never None, and is unreadable exactly when the            *)
(* destination was.                                                        *)
LEMMA MergedKind ==
  ASSUME NEW n \in Nat, disk0 \in [Paths -> Contents]
  PROVE  /\ MergedUpTo(n) # NoValue
         /\ MergedUpTo(n) = Unreadable <=> disk0[Dest] = Unreadable
<1>1. CASE IsDict(disk0[Dest])
  BY <1>1, MergedDict DEF IsDict
<1>2. CASE ~IsDict(disk0[Dest])
  BY <1>2 DEF MergedUpTo, Contents
<1>. QED
  BY <1>1, <1>2

(* The dictionary sources are among the readable ones.                     *)
LEMMA DictReadable ==
  ASSUME NEW n
  PROVE  DictUpTo(n) \subseteq ReadableUpTo(n)
BY DEF DictUpTo, ReadableUpTo, IsDict

LEMMA InitIInv == Init => IInv
<1> SUFFICES ASSUME Init PROVE IInv
  OBVIOUS
<1>1. ReadableUpTo(0) = {}
  BY DEF ReadableUpTo
<1>. QED
  BY <1>1, InitTypeOK DEF Init, IInv, MergedSoFar, MergeOutcome, Outcome

(* A step that keeps the argument and the history keeps the reference.   *)
LEMMA ReferenceUnchanged ==
  ASSUME disk0' = disk0, srcs' = srcs
  PROVE  \A m : /\ MergedUpTo(m)' = MergedUpTo(m)
               /\ ReadableUpTo(m)' = ReadableUpTo(m)
BY DEF MergedUpTo, ReadableUpTo, DictUpTo, Defines, LastDefining, IsDict

LEMMA NextIInv == IInv /\ [Next]_vars => IInv'
<1> SUFFICES ASSUME IInv, [Next]_vars PROVE IInv'
  OBVIOUS
<1>0. /\ TypeOK
      /\ pc = "loop" => disk = disk0
      /\ MergedSoFar
      /\ MergeOutcome
      /\ TypeOK'
  BY NextTypeOK DEF IInv
<1> DEFINE n == i - 1
           L == Len(srcs)
<1>1. CASE SkipSource
  <2>1. n \in Nat /\ i = n + 1 /\ pc = "loop" /\ disk = disk0
    BY <1>0, <1>1 DEF SkipSource, TypeOK
  <2>2. ~IsDict(disk0[srcs[i]]) /\ disk0[srcs[i]] = Unreadable
    BY <1>0, <1>1, <2>1 DEF SkipSource, SrcReadable, IsDict
  <2>3. ReadableUpTo(i) = ReadableUpTo(n)
    BY <2>1, <2>2 DEF ReadableUpTo
  <2>4. MergedUpTo(i) = MergedUpTo(n)
    BY <2>1, <2>2, MergedStep DEF MergeInto
  <2>5. \A m : /\ ReadableUpTo(m)' = ReadableUpTo(m)
              /\ MergedUpTo(m)' = MergedUpTo(m)
    BY <1>1, ReferenceUnchanged DEF SkipSource
  <2>6. MergedSoFar'
    BY <1>0, <1>1, <2>1, <2>3, <2>4, <2>5 DEF SkipSource, MergedSoFar
  <2>. QED
    BY <1>0, <1>1, <2>6 DEF SkipSource, IInv, MergeOutcome, Outcome
<1>2. CASE MergeSource
  <2>1. n \in Nat /\ i = n + 1 /\ pc = "loop" /\ disk = disk0
    BY <1>0, <1>2 DEF MergeSource, TypeOK
  <2>2. disk0[srcs[i]] # Unreadable
    BY <1>2, <2>1 DEF MergeSource, SrcReadable
  <2>3. ReadableUpTo(i) # {}
    BY <2>1, <2>2 DEF ReadableUpTo
  <2>4. LoadDest(destPlist) = MergedUpTo(n)
    <3>1. CASE ReadableUpTo(n) = {}
      <4>1. DictUpTo(n) = {}
        BY <3>1, DictReadable
      <4>2. MergedUpTo(n) = disk0[Dest]
        BY <2>1, <4>1, <1>0, MergedEmpty DEF TypeOK
      <4>3. destPlist = NoValue
        BY <1>0, <2>1, <3>1 DEF MergedSoFar
      <4>. QED
        BY <2>1, <4>2, <4>3 DEF LoadDest
    <3>2. CASE ReadableUpTo(n) # {}
      <4>1. destPlist = MergedUpTo(n)
        BY <1>0, <2>1, <3>2 DEF MergedSoFar
      <4>2. MergedUpTo(n) # NoValue
        BY <2>1, <1>0, MergedKind DEF TypeOK
      <4>. QED
        BY <4>1, <4>2 DEF LoadDest
    <3>. QED
      BY <3>1, <3>2
  <2>5. destPlist' = MergedUpTo(i)
    <3>1. destPlist' = MergeInto(MergedUpTo(n), disk0[srcs[n + 1]])
      BY <1>2, <2>1, <2>4 DEF MergeSource
    <3>. QED
      BY <3>1, <2>1, MergedStep
  <2>6. \A m : /\ ReadableUpTo(m)' = ReadableUpTo(m)
              /\ MergedUpTo(m)' = MergedUpTo(m)
    BY <1>2, ReferenceUnchanged DEF MergeSource
  <2>7. MergedSoFar'
    BY <1>2, <2>1, <2>3, <2>5, <2>6 DEF MergeSource, MergedSoFar
  <2>. QED
    BY <1>0, <1>2, <2>7 DEF MergeSource, IInv, MergeOutcome, Outcome
<1>3. CASE pc' = "done"
  <2>1. /\ \A m : /\ ReadableUpTo(m)' = ReadableUpTo(m)
                 /\ MergedUpTo(m)' = MergedUpTo(m)
        /\ Len(srcs') = L
        /\ disk0' = disk0 /\ srcs' = srcs
    <3>1. disk0' = disk0 /\ srcs' = srcs
      BY <1>3, <1>0 DEF Next, vars, SkipSource, MergeSource, LoadDestFails,
                        FinishUnwritten, WriteDest, WriteFails
    <3>. QED
      BY <3>1, ReferenceUnchanged
  <2>2. MergedSoFar'
    BY <1>3 DEF MergedSoFar
  <2>7. /\ (ReadableUpTo(Len(srcs)))' = ReadableUpTo(L)
        /\ (MergedUpTo(Len(srcs)))' = MergedUpTo(L)
    BY <2>1
  <2>3. CASE pc = "done"
    <3>1. UNCHANGED vars
      BY <2>3 DEF Next, SkipSource, MergeSource, LoadDestFails,
                  FinishUnwritten, WriteDest, WriteFails
    <3>. QED
      BY <1>0, <2>1, <2>2, <3>1 DEF vars, IInv, MergeOutcome, Outcome
  <2>4. CASE LoadDestFails
    <3>1. pc = "loop" /\ disk = disk0 /\ i \in 1..L
      BY <1>0, <2>4 DEF LoadDestFails, TypeOK
    <3>2. ReadableUpTo(L) # {}
      BY <2>4, <3>1 DEF LoadDestFails, SrcReadable, ReadableUpTo
    <3>3. disk0[Dest] = Unreadable
      BY <2>4, <3>1 DEF LoadDestFails, DestLoadable
    <3>. QED
      BY <1>0, <2>1, <2>2, <2>4, <3>1, <3>2, <3>3
         DEF LoadDestFails, IInv, MergeOutcome, Outcome
  <2>5. CASE FinishUnwritten
    <3>1. pc = "loop" /\ disk = disk0 /\ i = L + 1 /\ L \in Nat
      BY <1>0, <2>5 DEF FinishUnwritten, TypeOK
    <3>2. MergedUpTo(L) # NoValue
      BY <3>1, <1>0, MergedKind DEF TypeOK
    <3>3. ReadableUpTo(L) = {}
      BY <1>0, <2>5, <3>1, <3>2 DEF FinishUnwritten, MergedSoFar
    <3>. QED
      BY <1>0, <2>1, <2>2, <2>5, <3>1, <3>3
         DEF FinishUnwritten, IInv, MergeOutcome, Outcome
  <2>6. CASE WriteDest \/ WriteFails
    <3>1. pc = "loop" /\ disk = disk0 /\ i = L + 1 /\ L \in Nat
      BY <1>0, <2>6 DEF WriteDest, WriteFails, TypeOK
    <3>2. destPlist # NoValue
      BY <2>6 DEF WriteDest, WriteFails
    <3>3. ReadableUpTo(L) # {} /\ destPlist = MergedUpTo(L)
      BY <1>0, <3>1, <3>2 DEF MergedSoFar
    <3>4. disk0[Dest] # Unreadable
      <4>1. destPlist # Unreadable
        BY <1>0, PlistAssumption DEF TypeOK
      <4>. QED
        BY <3>1, <3>3, <4>1, <1>0, MergedKind DEF TypeOK
    <3>5. \A p \in Paths \ {Dest} : disk'[p] = disk0[p]
      BY <1>0, <2>6, <3>1 DEF WriteDest, WriteFails, TypeOK
    <3>6. CASE WriteDest
      <4>1. result' = "ok" /\ disk'[Dest] = destPlist
        BY <3>6, <1>0, PlistAssumption DEF WriteDest, TypeOK
      <4>. QED
        BY <1>0, <2>1, <2>2, <2>7, <3>3, <3>4, <3>5, <4>1, <1>3
           DEF IInv, MergeOutcome, Outcome
    <3>7. CASE WriteFails
      <4>1. result' = "err" /\ disk'[Dest] \in {disk0[Dest], Unreadable}
        BY <3>7, <3>1, <1>0, PlistAssumption DEF WriteFails, TypeOK
      <4>. QED
        BY <1>0, <2>1, <2>2, <2>7, <3>3, <3>4, <3>5, <4>1, <1>3
           DEF IInv, MergeOutcome, Outcome
    <3>. QED
      BY <2>6, <3>6, <3>7
  <2>. QED
    BY <1>3, <2>3, <2>4, <2>5, <2>6, <1>0
       DEF Next, vars, TypeOK, SkipSource, MergeSource
<1>4. CASE UNCHANGED vars /\ pc' # "done"
  <2>1. \A m : /\ ReadableUpTo(m)' = ReadableUpTo(m)
              /\ MergedUpTo(m)' = MergedUpTo(m)
    BY <1>4, ReferenceUnchanged DEF vars
  <2>. QED
    BY <1>0, <1>4, <2>1 DEF vars, IInv, MergedSoFar, MergeOutcome, Outcome
<1>. QED
  BY <1>1, <1>2, <1>3, <1>4, <1>0
     DEF Next, TypeOK, LoadDestFails, FinishUnwritten, WriteDest, WriteFails

(* While merge_plist's loop runs, `dest_plist` is None until a readable   *)
(* source has been met and is then the destination read once with every   *)
(* dictionary source so far overlaid, the last source winning.            *)
THEOREM MergedSoFarHolds == Spec => []MergedSoFar
<1>1. IInv => MergedSoFar
  BY DEF IInv
<1>. QED
  BY <1>1, InitIInv, NextIInv, PTL DEF Spec

(* merge_plist returns Ok without writing when no source is readable,    *)
(* Err without writing when the destination cannot be loaded, and         *)
(* otherwise leaves the merge on disk on Ok, and the destination unchanged *)
(* or unreadable on Err; no other file changes.                            *)
THEOREM MergeOutcomeHolds == Spec => []MergeOutcome
<1>1. IInv => MergeOutcome
  BY DEF IInv
<1>. QED
  BY <1>1, InitIInv, NextIInv, PTL DEF Spec

-----------------------------------------------------------------------------
(* Refinement of the atomic specification.                                *)

(* The instance's definitions are the base module's: it substitutes only *)
(* phase, which they do not mention.                                        *)
LEMMA AtomicContents == Atomic!Contents = Contents
BY DEF Atomic!Contents, Contents, Atomic!Dicts, Dicts

LEMMA AtomicOutcome == Atomic!Outcome' <=> Outcome'
BY DEF Atomic!Outcome, Outcome, Atomic!ReadableUpTo, ReadableUpTo,
       Atomic!MergedUpTo, MergedUpTo, Atomic!DictUpTo, DictUpTo,
       Atomic!Defines, Defines, Atomic!LastDefining, LastDefining,
       Atomic!IsDict, IsDict, Atomic!Dicts, Dicts

(* The four actions that end the call are each one Return of the atomic   *)
(* specification: the outcome they leave is Outcome, by the invariant in  *)
(* the state after them.                                                   *)
LEMMA ReturnStep ==
  ASSUME IInv, IInv',
         LoadDestFails \/ FinishUnwritten \/ WriteDest \/ WriteFails
  PROVE  Atomic!Return
<1>1. pc = "loop" /\ pc' = "done" /\ result' \in {"ok", "err"}
      /\ disk0' = disk0 /\ srcs' = srcs
  BY DEF LoadDestFails, FinishUnwritten, WriteDest, WriteFails
<1>2. disk' \in [Paths -> Atomic!Contents]
  BY AtomicContents DEF IInv, TypeOK
<1>3. Outcome'
  BY <1>1 DEF IInv, MergeOutcome
<1>4. Atomic!Outcome'
  BY <1>3, AtomicOutcome
<1>. QED
  BY <1>1, <1>2, <1>4 DEF Atomic!Return

(* A loop iteration changes neither the disk nor the result, and the call *)
(* is still running: it is a stuttering step of the atomic specification. *)
LEMMA LoopStep ==
  ASSUME SkipSource \/ MergeSource
  PROVE  UNCHANGED Atomic!vars
BY DEF SkipSource, MergeSource, Atomic!vars

(* merge_plist implements its atomic specification (PlistMergeAtomic)    *)
(* under the mapping that hides the loop index and dest_plist: while the *)
(* loop runs nothing observable changes, and the step that returns leaves *)
(* the disk and the result as the specification allows.                   *)
THEOREM Refinement == Spec => AtomicSpec
<1>1. Init => Atomic!Init
  BY AtomicContents DEF Init, Atomic!Init
<1>2. IInv /\ IInv' /\ [Next]_vars => [Atomic!Next]_Atomic!vars
  <2> SUFFICES ASSUME IInv, IInv', [Next]_vars
               PROVE  [Atomic!Next]_Atomic!vars
    OBVIOUS
  <2>1. CASE SkipSource \/ MergeSource
    BY <2>1, LoopStep
  <2>2. CASE LoadDestFails \/ FinishUnwritten \/ WriteDest \/ WriteFails
    BY <2>2, ReturnStep DEF Atomic!Next
  <2>3. CASE UNCHANGED vars
    BY <2>3 DEF vars, Atomic!vars
  <2>. QED
    BY <2>1, <2>2, <2>3 DEF Next
<1>. QED
  BY <1>1, <1>2, InitIInv, NextIInv, PTL DEF Spec, AtomicSpec, Atomic!Spec

=============================================================================
