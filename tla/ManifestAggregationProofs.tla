--------------------- MODULE ManifestAggregationProofs ---------------------
(***************************************************************************)
(* Proofs about ManifestAggregation, for every value of the constants.     *)
(***************************************************************************)
EXTENDS ManifestAggregation, WellFoundedInduction, TLAPS

(***************************************************************************)
(* Collecting into a BTreeMap is well defined: when an identifier occurs   *)
(* in a sequence, LastIndex picks its last occurrence.  The existence of a *)
(* last occurrence is the least element of {Len(s) - k} in the            *)
(* well-founded order < on Nat.                                            *)
(***************************************************************************)
LEMMA LastIndexSpec ==
  ASSUME NEW S, NEW s \in Seq(S), NEW id,
         \E k \in DOMAIN s : s[k].identifier = id
  PROVE  /\ LastIndex(s, id) \in DOMAIN s
         /\ s[LastIndex(s, id)].identifier = id
         /\ \A k2 \in DOMAIN s : k2 > LastIndex(s, id) => s[k2].identifier # id
<1> DEFINE Hits == {k \in DOMAIN s : s[k].identifier = id}
           T    == {Len(s) - k : k \in Hits}
           R    == OpToRel(<, Nat)
<1>1. T \subseteq Nat /\ T # {}
  OBVIOUS
<1>2. \E x \in T : \A y \in T : ~(<<y, x>> \in R)
  BY <1>1, NatLessThanWellFounded, WFMin
<1>3. PICK x \in T : \A y \in T : ~(<<y, x>> \in R)
  BY <1>2
<1>4. \E k \in DOMAIN s :
        /\ s[k].identifier = id
        /\ \A k2 \in DOMAIN s : k2 > k => s[k2].identifier # id
  <2>1. PICK k \in Hits : x = Len(s) - k
    BY <1>3
  <2>2. ASSUME NEW k2 \in DOMAIN s, k2 > k, s[k2].identifier = id
        PROVE  FALSE
    <3>1. Len(s) - k2 \in T /\ Len(s) - k2 < x
      BY <2>1, <2>2
    <3>2. <<Len(s) - k2, x>> \in R
      BY <3>1, <1>1 DEF OpToRel
    <3>3. QED
      BY <3>1, <3>2, <1>3
  <2>3. QED
    BY <2>1, <2>2
<1>5. QED
  BY <1>4 DEF LastIndex

(* A collected table holds, under each identifier of the sequence, an     *)
(* element of the sequence with that identifier.                           *)
LEMMA PermissionTableSpec ==
  ASSUME NEW ps \in Seq(Permission)
  PROVE  /\ IsMapOf(PermissionTable(ps), Permission)
         /\ DOMAIN PermissionTable(ps) = IdsOf(ps)
<1>1. ASSUME NEW id \in IdsOf(ps)
      PROVE  ps[LastIndex(ps, id)] \in Permission
  BY <1>1, LastIndexSpec DEF IdsOf
<1>2. IdsOf(ps) \subseteq Identifiers
  <2>1. \A k \in DOMAIN ps : ps[k] \in Permission
    OBVIOUS
  <2>2. \A k \in DOMAIN ps : ps[k].identifier \in Identifiers
    BY <2>1 DEF Permission
  <2>3. QED
    BY <2>2 DEF IdsOf
<1>3. QED
  BY <1>1, <1>2 DEF PermissionTable, IsMapOf

LEMMA SetTableSpec ==
  ASSUME NEW ss \in Seq(PermissionSet)
  PROVE  /\ IsMapOf(SetTable(ss), PermissionSet)
         /\ DOMAIN SetTable(ss) = IdsOf(ss)
<1>1. ASSUME NEW id \in IdsOf(ss)
      PROVE  ss[LastIndex(ss, id)] \in PermissionSet
  BY <1>1, LastIndexSpec DEF IdsOf
<1>2. ASSUME NEW set \in PermissionSet
      PROVE  [identifier  |-> set.identifier,
              description |-> set.description,
              permissions |-> set.permissions] \in PermissionSet
  BY DEF PermissionSet
<1>3. IdsOf(ss) \subseteq Identifiers
  <2>1. \A k \in DOMAIN ss : ss[k] \in PermissionSet
    OBVIOUS
  <2>2. \A k \in DOMAIN ss : ss[k].identifier \in Identifiers
    BY <2>1 DEF PermissionSet
  <2>3. QED
    BY <2>2 DEF IdsOf
<1>4. QED
  BY <1>1, <1>2, <1>3 DEF SetTable, IsMapOf

(* BTreeMap::extend of two maps of V is a map of V over both key sets.     *)
LEMMA ExtendSpec ==
  ASSUME NEW V, NEW m, NEW t, IsMapOf(m, V), IsMapOf(t, V)
  PROVE  /\ IsMapOf(Extend(m, t), V)
         /\ DOMAIN Extend(m, t) = DOMAIN m \cup DOMAIN t
BY DEF IsMapOf, Extend

(* The keys after BTreeMap::extend are the keys of both maps.              *)
LEMMA ExtendDomain ==
  ASSUME NEW m, NEW t
  PROVE  DOMAIN Extend(m, t) = DOMAIN m \cup DOMAIN t
BY DEF Extend

-----------------------------------------------------------------------------
(* Type correctness.                                                       *)

LEMMA InitTypeOK == Init => TypeOK
<1> SUFFICES ASSUME Init PROVE TypeOK
  OBVIOUS
<1>1. files \in Seq(PermissionFile)
  BY InputFilesAssumption DEF Init
<1>2. IsMapOf(EmptyMap, Permission) /\ IsMapOf(EmptyMap, PermissionSet)
  BY DEF IsMapOf, EmptyMap
<1>3. QED
  BY <1>1, <1>2 DEF Init, TypeOK

LEMMA NextTypeOK == TypeOK /\ [Next]_vars => TypeOK'
<1> SUFFICES ASSUME TypeOK, [Next]_vars PROVE TypeOK'
  OBVIOUS
<1>1. CASE AggregateFile
  <2> DEFINE file == files[next]
  <2>1. file \in PermissionFile
    BY <1>1 DEF AggregateFile, TypeOK
  <2>2. ReplaceDefault(manifest.default_permission, file.default)
          \in MaterialisedDefault \cup {NoValue}
    BY <2>1 DEF ReplaceDefault, DefaultSet, MaterialisedDefault,
                PermissionFile, DefaultPermission, OptDescription, TypeOK
  <2>3. IsMapOf(Extend(manifest.permissions, PermissionTable(file.permission)),
                Permission)
    BY <2>1, PermissionTableSpec, ExtendSpec DEF PermissionFile, TypeOK
  <2>4. IsMapOf(Extend(manifest.permission_sets, SetTable(file.set)),
                PermissionSet)
    BY <2>1, SetTableSpec, ExtendSpec DEF PermissionFile, TypeOK
  <2>5. QED
    BY <1>1, <2>2, <2>3, <2>4 DEF AggregateFile, TypeOK
<1>2. CASE UNCHANGED vars
  BY <1>2 DEF vars, TypeOK
<1>3. QED
  BY <1>1, <1>2 DEF Next

(* Every reachable state is well typed.                                    *)
THEOREM TypeCorrect == Spec => []TypeOK
BY InitTypeOK, NextTypeOK, PTL DEF Spec

-----------------------------------------------------------------------------
(* Last write wins for the permission table.  The invariant talks about   *)
(* the files already consumed, so it is inductive together with TypeOK.   *)

LEMMA InitPermissionsLastWriteWins == Init => PermissionsLastWriteWins
BY DEF Init, PermissionsLastWriteWins, Processed, EmptyMap

LEMMA NextPermissionsLastWriteWins ==
  TypeOK /\ PermissionsLastWriteWins /\ [Next]_vars => PermissionsLastWriteWins'
<1> SUFFICES ASSUME TypeOK, PermissionsLastWriteWins, [Next]_vars
             PROVE  PermissionsLastWriteWins'
  OBVIOUS
<1>1. CASE AggregateFile
  <2> DEFINE n    == next
             ps   == files[n].permission
             t    == PermissionTable(ps)
             m    == manifest.permissions
  <2>1. /\ n \in 1..Len(files)
        /\ files' = files /\ next' = n + 1
        /\ manifest'.permissions = Extend(m, t)
    BY <1>1 DEF AggregateFile, TypeOK
  <2>2. Processed' = Processed \cup {n}
    BY <2>1 DEF Processed, TypeOK
  <2>3. ps \in Seq(Permission)
    <3>1. files[n] \in PermissionFile
      BY <2>1 DEF TypeOK
    <3>2. QED
      BY <3>1 DEF PermissionFile
  <2>4. /\ DOMAIN t = IdsOf(ps)
        /\ DOMAIN Extend(m, t) = DOMAIN m \cup IdsOf(ps)
    <3>1. IsMapOf(t, Permission) /\ DOMAIN t = IdsOf(ps)
      BY <2>3, PermissionTableSpec
    <3>2. DOMAIN Extend(m, t) = DOMAIN m \cup DOMAIN t
      BY ExtendDomain
    <3>3. QED
      BY <3>1, <3>2
  <2>5. DOMAIN manifest'.permissions =
          UNION {IdsOf(files'[j].permission) : j \in Processed'}
    BY <2>1, <2>2, <2>4 DEF PermissionsLastWriteWins
  <2>6. ASSUME NEW id \in DOMAIN manifest'.permissions
        PROVE  \E j \in Processed' : \E k \in DOMAIN files'[j].permission :
                 /\ files'[j].permission[k] = manifest'.permissions[id]
                 /\ files'[j].permission[k].identifier = id
                 /\ \A j2 \in Processed' : \A k2 \in DOMAIN files'[j2].permission :
                      After(j2, k2, j, k) =>
                        files'[j2].permission[k2].identifier # id
    <3>1. CASE id \in IdsOf(ps)
      <4> DEFINE k == LastIndex(ps, id)
      <4>1. /\ k \in DOMAIN ps
            /\ ps[k].identifier = id
            /\ \A k2 \in DOMAIN ps : k2 > k => ps[k2].identifier # id
        BY <3>1, <2>3, LastIndexSpec DEF IdsOf
      <4>2. manifest'.permissions[id] = ps[k]
        BY <3>1, <2>1, <2>4 DEF Extend, PermissionTable
      <4>3. ASSUME NEW j2 \in Processed', NEW k2 \in DOMAIN files[j2].permission,
                   After(j2, k2, n, k)
            PROVE  files[j2].permission[k2].identifier # id
        BY <4>3, <4>1, <2>2 DEF After, Processed
      <4>4. QED
        BY <4>1, <4>2, <4>3, <2>1, <2>2
    <3>2. CASE id \notin IdsOf(ps)
      <4>1. id \in DOMAIN m /\ manifest'.permissions[id] = m[id]
        BY <3>2, <2>1, <2>4 DEF Extend
      <4>2. PICK j \in Processed : \E k \in DOMAIN files[j].permission :
                 /\ files[j].permission[k] = m[id]
                 /\ files[j].permission[k].identifier = id
                 /\ \A j2 \in Processed : \A k2 \in DOMAIN files[j2].permission :
                      After(j2, k2, j, k) =>
                        files[j2].permission[k2].identifier # id
        BY <4>1 DEF PermissionsLastWriteWins
      <4>3. PICK k \in DOMAIN files[j].permission :
                 /\ files[j].permission[k] = m[id]
                 /\ files[j].permission[k].identifier = id
                 /\ \A j2 \in Processed : \A k2 \in DOMAIN files[j2].permission :
                      After(j2, k2, j, k) =>
                        files[j2].permission[k2].identifier # id
        BY <4>2
      <4>4. \A k2 \in DOMAIN ps : ps[k2].identifier # id
        BY <3>2 DEF IdsOf
      <4>5. QED
        BY <4>1, <4>3, <4>4, <2>1, <2>2
    <3>3. QED
      BY <3>1, <3>2
  <2>7. QED
    BY <2>5, <2>6 DEF PermissionsLastWriteWins
<1>2. CASE UNCHANGED vars
  BY <1>2 DEF vars, PermissionsLastWriteWins, Processed, After
<1>3. QED
  BY <1>1, <1>2 DEF Next

LEMMA InitSetsLastWriteWins == Init => SetsLastWriteWins
BY DEF Init, SetsLastWriteWins, Processed, EmptyMap

LEMMA NextSetsLastWriteWins ==
  TypeOK /\ SetsLastWriteWins /\ [Next]_vars => SetsLastWriteWins'
<1> SUFFICES ASSUME TypeOK, SetsLastWriteWins, [Next]_vars
             PROVE  SetsLastWriteWins'
  OBVIOUS
<1>1. CASE AggregateFile
  <2> DEFINE n    == next
             ss   == files[n].set
             t    == SetTable(ss)
             m    == manifest.permission_sets
  <2>1. /\ n \in 1..Len(files)
        /\ files' = files /\ next' = n + 1
        /\ manifest'.permission_sets = Extend(m, t)
    BY <1>1 DEF AggregateFile, TypeOK
  <2>2. Processed' = Processed \cup {n}
    BY <2>1 DEF Processed, TypeOK
  <2>3. ss \in Seq(PermissionSet)
    <3>1. files[n] \in PermissionFile
      BY <2>1 DEF TypeOK
    <3>2. QED
      BY <3>1 DEF PermissionFile
  <2>4. /\ DOMAIN t = IdsOf(ss)
        /\ DOMAIN Extend(m, t) = DOMAIN m \cup IdsOf(ss)
    <3>1. IsMapOf(t, PermissionSet) /\ DOMAIN t = IdsOf(ss)
      BY <2>3, SetTableSpec
    <3>2. DOMAIN Extend(m, t) = DOMAIN m \cup DOMAIN t
      BY ExtendDomain
    <3>3. QED
      BY <3>1, <3>2
  <2>5. DOMAIN manifest'.permission_sets =
          UNION {IdsOf(files'[j].set) : j \in Processed'}
    BY <2>1, <2>2, <2>4 DEF SetsLastWriteWins
  <2>6. ASSUME NEW id \in DOMAIN manifest'.permission_sets
        PROVE  \E j \in Processed' : \E k \in DOMAIN files'[j].set :
                 /\ files'[j].set[k] = manifest'.permission_sets[id]
                 /\ files'[j].set[k].identifier = id
                 /\ \A j2 \in Processed' : \A k2 \in DOMAIN files'[j2].set :
                      After(j2, k2, j, k) =>
                        files'[j2].set[k2].identifier # id
    <3>1. CASE id \in IdsOf(ss)
      <4> DEFINE k == LastIndex(ss, id)
      <4>1. /\ k \in DOMAIN ss
            /\ ss[k].identifier = id
            /\ \A k2 \in DOMAIN ss : k2 > k => ss[k2].identifier # id
        BY <3>1, <2>3, LastIndexSpec DEF IdsOf
      <4>2. manifest'.permission_sets[id] = ss[k]
        <5>1. ss[k] \in PermissionSet
          BY <4>1, <2>3
        <5>2. SetTable(ss)[id] = ss[k]
          BY <3>1, <5>1 DEF SetTable, PermissionSet
        <5>3. QED
          BY <5>2, <3>1, <2>1, <2>4 DEF Extend
      <4>3. ASSUME NEW j2 \in Processed', NEW k2 \in DOMAIN files[j2].set,
                   After(j2, k2, n, k)
            PROVE  files[j2].set[k2].identifier # id
        BY <4>3, <4>1, <2>2 DEF After, Processed
      <4>4. QED
        BY <4>1, <4>2, <4>3, <2>1, <2>2
    <3>2. CASE id \notin IdsOf(ss)
      <4>1. id \in DOMAIN m /\ manifest'.permission_sets[id] = m[id]
        BY <3>2, <2>1, <2>4 DEF Extend
      <4>2. PICK j \in Processed : \E k \in DOMAIN files[j].set :
                 /\ files[j].set[k] = m[id]
                 /\ files[j].set[k].identifier = id
                 /\ \A j2 \in Processed : \A k2 \in DOMAIN files[j2].set :
                      After(j2, k2, j, k) =>
                        files[j2].set[k2].identifier # id
        BY <4>1 DEF SetsLastWriteWins
      <4>3. PICK k \in DOMAIN files[j].set :
                 /\ files[j].set[k] = m[id]
                 /\ files[j].set[k].identifier = id
                 /\ \A j2 \in Processed : \A k2 \in DOMAIN files[j2].set :
                      After(j2, k2, j, k) =>
                        files[j2].set[k2].identifier # id
        BY <4>2
      <4>4. \A k2 \in DOMAIN ss : ss[k2].identifier # id
        BY <3>2 DEF IdsOf
      <4>5. QED
        BY <4>1, <4>3, <4>4, <2>1, <2>2
    <3>3. QED
      BY <3>1, <3>2
  <2>7. QED
    BY <2>5, <2>6 DEF SetsLastWriteWins
<1>2. CASE UNCHANGED vars
  BY <1>2 DEF vars, SetsLastWriteWins, Processed, After
<1>3. QED
  BY <1>1, <1>2 DEF Next

(* Every reachable manifest holds, under each set identifier, exactly the *)
(* last declaration of that set in the files consumed so far.              *)
THEOREM SetsLastWriteWinsHolds == Spec => []SetsLastWriteWins
BY TypeCorrect, InitSetsLastWriteWins, NextSetsLastWriteWins, PTL DEF Spec

(* Every reachable manifest holds, under each identifier, exactly the     *)
(* last declaration of it in the files consumed so far (Manifest::new's    *)
(* collect-then-extend is last-write-wins within and across files).        *)
THEOREM PermissionsLastWriteWinsHolds == Spec => []PermissionsLastWriteWins
BY TypeCorrect, InitPermissionsLastWriteWins, NextPermissionsLastWriteWins,
   PTL DEF Spec

-----------------------------------------------------------------------------
(* The default permission is the last one declared.                        *)

(* The fields of the materialised default set.                            *)
LEMMA DefaultSetFields ==
  ASSUME NEW d
  PROVE  /\ DefaultSet(d).identifier = "default"
         /\ DefaultSet(d).permissions = d.permissions
         /\ DefaultSet(d).description =
              IF d.description = NoValue THEN "Default plugin permissions."
                                         ELSE d.description
BY DEF DefaultSet, DefaultDescription

LEMMA InitDefaultLastWins == Init => DefaultLastWins
BY DEF Init, DefaultLastWins, Processed

LEMMA NextDefaultLastWins ==
  TypeOK /\ DefaultLastWins /\ [Next]_vars => DefaultLastWins'
<1> SUFFICES ASSUME TypeOK, DefaultLastWins, [Next]_vars
             PROVE  DefaultLastWins'
  OBVIOUS
<1>1. CASE AggregateFile
  <2> DEFINE n == next
             d == files[n].default
  <2>1. /\ n \in 1..Len(files)
        /\ files' = files /\ next' = n + 1
        /\ manifest'.default_permission =
             ReplaceDefault(manifest.default_permission, d)
    BY <1>1 DEF AggregateFile, TypeOK
  <2>2. Processed' = Processed \cup {n}
    BY <2>1 DEF Processed, TypeOK
  <2>3. CASE d = NoValue
    <3>1. manifest'.default_permission = manifest.default_permission
      BY <2>1, <2>3 DEF ReplaceDefault
    <3>2. (\A j \in Processed' : files'[j].default = NoValue)
            <=> (\A j \in Processed : files[j].default = NoValue)
      BY <2>1, <2>2, <2>3
    <3>3. CASE \A j \in Processed : files[j].default = NoValue
      BY <3>1, <3>2, <3>3 DEF DefaultLastWins
    <3>4. CASE ~\A j \in Processed : files[j].default = NoValue
      <4>1. PICK j \in Processed :
              /\ files[j].default # NoValue
              /\ \A j2 \in Processed : j2 > j => files[j2].default = NoValue
              /\ manifest.default_permission.identifier = "default"
              /\ manifest.default_permission.permissions =
                   files[j].default.permissions
              /\ manifest.default_permission.description =
                   IF files[j].default.description = NoValue
                   THEN "Default plugin permissions."
                   ELSE files[j].default.description
        BY <3>4 DEF DefaultLastWins
      <4>2. j \in Processed' /\ \A j2 \in Processed' : j2 > j => files[j2].default = NoValue
        BY <4>1, <2>2, <2>3
      <4>3. QED
        BY <4>1, <4>2, <3>1, <3>2, <3>4, <2>1 DEF DefaultLastWins
    <3>5. QED
      BY <3>3, <3>4
  <2>4. CASE d # NoValue
    <3>1. manifest'.default_permission = DefaultSet(d)
      BY <2>1, <2>4 DEF ReplaceDefault
    <3>2. n \in Processed' /\ \A j2 \in Processed' : ~(j2 > n)
      BY <2>1, <2>2 DEF Processed
    <3>3. ~\A j \in Processed' : files'[j].default = NoValue
      BY <3>2, <2>1, <2>4
    <3>4. /\ manifest'.default_permission.identifier = "default"
          /\ manifest'.default_permission.permissions = d.permissions
          /\ manifest'.default_permission.description =
               IF d.description = NoValue THEN "Default plugin permissions."
                                          ELSE d.description
      BY <3>1, DefaultSetFields
    <3>5. \E j \in Processed' :
            /\ files'[j].default # NoValue
            /\ \A j2 \in Processed' : j2 > j => files'[j2].default = NoValue
            /\ manifest'.default_permission.identifier = "default"
            /\ manifest'.default_permission.permissions =
                 files'[j].default.permissions
            /\ manifest'.default_permission.description =
                 IF files'[j].default.description = NoValue
                 THEN "Default plugin permissions."
                 ELSE files'[j].default.description
      BY <3>2, <3>4, <2>1, <2>4
    <3>6. QED
      BY <3>3, <3>5 DEF DefaultLastWins
  <2>5. QED
    BY <2>3, <2>4
<1>2. CASE UNCHANGED vars
  BY <1>2 DEF vars, DefaultLastWins, Processed
<1>3. QED
  BY <1>1, <1>2 DEF Next

(* Every reachable manifest's default is the last declared default, with   *)
(* identifier "default" and the literal fallback description.              *)
THEOREM DefaultLastWinsHolds == Spec => []DefaultLastWins
BY TypeCorrect, InitDefaultLastWins, NextDefaultLastWins, PTL DEF Spec


=============================================================================
