------------------------- MODULE ManifestAggregation -------------------------
(***************************************************************************)
(* Manifest::new (core/tauri-utils/src/acl/manifest.rs): the fold that     *)
(* merges the ordered permission files of one plugin into its Manifest.    *)
(*                                                                         *)
(* One step of the specification is one iteration of the `for` loop over  *)
(* `permission_files`: the default is replaced when the file declares one, *)
(* then the file's inline permissions and its sets are each collected into *)
(* a BTreeMap keyed by identifier and `extend`ed into the manifest.        *)
(* The loop stops when every file is consumed and the manifest is returned *)
(* and never changed again, so the final states have no successor.         *)
(*                                                                         *)
(* Data is abstracted: identifiers and descriptions are small sets of      *)
(* strings, and the fields of a Permission other than identifier and       *)
(* description (version, commands, scope, platforms) are one opaque value  *)
(* from Bodies, because aggregation copies them whole.                     *)
(***************************************************************************)
EXTENDS Naturals, Sequences

CONSTANTS
  Identifiers,     \* permission and set identifiers
  Descriptions,    \* description strings a file may carry
  Bodies,          \* version/commands/scope/platforms of a Permission
  Schemas,         \* values of global_scope_schema (NoValue: None)
  InputFiles,      \* the Vec<PermissionFile> values passed to Manifest::new
  NoValue          \* Option::None

ASSUME NoValueAssumption ==
  /\ NoValue \notin Descriptions
  /\ NoValue \notin Identifiers

VARIABLES
  files,           \* the permission_files argument, consumed in order
  next,            \* index of the next file the loop takes
  manifest         \* the `manifest` being built

vars == <<files, next, manifest>>

-----------------------------------------------------------------------------
(* Types of core/tauri-utils/src/acl/mod.rs and manifest.rs.               *)

OptDescription == Descriptions \cup {NoValue}

Permission ==
  [identifier: Identifiers, description: OptDescription, body: Bodies]

PermissionSet ==
  [identifier: Identifiers, description: Descriptions,
   permissions: Seq(Identifiers)]

DefaultPermission ==
  [description: OptDescription, permissions: Seq(Identifiers)]

PermissionFile ==
  [default: DefaultPermission \cup {NoValue},
   set: Seq(PermissionSet),
   permission: Seq(Permission)]

(* Manifest::new is called with a Vec of well-formed permission files.     *)
ASSUME InputFilesAssumption == InputFiles \subseteq Seq(PermissionFile)

(* A BTreeMap<String, V>: a function from some identifiers to V.           *)
IsMapOf(m, V) ==
  /\ m = [id \in DOMAIN m |-> m[id]]
  /\ DOMAIN m \subseteq Identifiers
  /\ \A id \in DOMAIN m : m[id] \in V

EmptyMap == [id \in {} |-> NoValue]

-----------------------------------------------------------------------------
(* The loop body.                                                          *)

DefaultDescription == "Default plugin permissions."

(* Mutant: `unwrap_or_default()` in place of the literal fallback.        *)
DefaultSetEmptyFallback(d) ==
  [identifier  |-> "default",
   description |-> IF d.description = NoValue THEN "" ELSE d.description,
   permissions |-> d.permissions]

(* The PermissionSet materialised from a file's DefaultPermission.         *)
DefaultSet(d) ==
  [identifier  |-> "default",
   description |-> IF d.description = NoValue THEN DefaultDescription
                                               ELSE d.description,
   permissions |-> d.permissions]

(* Mutant: `get_or_insert` in place of `replace` (the first default      *)
(* wins).                                                                  *)
ReplaceDefaultFirstWins(current, d) ==
  IF d = NoValue \/ current # NoValue THEN current ELSE DefaultSet(d)

(* `if let Some(default) = ... { default_permission.replace(..) }`         *)
ReplaceDefault(current, d) ==
  IF d = NoValue THEN current ELSE DefaultSet(d)

(* Position of the last entry of s with the given identifier.             *)
LastIndex(s, id) ==
  CHOOSE k \in DOMAIN s :
    /\ s[k].identifier = id
    /\ \A k2 \in DOMAIN s : k2 > k => s[k2].identifier # id

IdsOf(s) == {s[k].identifier : k \in DOMAIN s}

(* Mutant: a collect that keeps the first value of a repeated key.        *)
PermissionTableFirstWins(ps) ==
  [id \in IdsOf(ps) |->
     ps[CHOOSE k \in DOMAIN ps :
          /\ ps[k].identifier = id
          /\ \A k2 \in DOMAIN ps : k2 < k => ps[k2].identifier # id]]

(* `.map(|p| (p.identifier.clone(), p)).collect::<BTreeMap<_, _>>()`:     *)
(* collecting keeps the last value of a repeated key.                      *)
PermissionTable(ps) == [id \in IdsOf(ps) |-> ps[LastIndex(ps, id)]]

(* The same for the sets, each re-materialised field by field.             *)
SetTable(ss) ==
  [id \in IdsOf(ss) |->
     LET set == ss[LastIndex(ss, id)]
     IN  [identifier  |-> set.identifier,
          description |-> set.description,
          permissions |-> set.permissions]]

(* Mutant: entries already present are kept (`entry().or_insert`).         *)
ExtendKeepExisting(m, t) ==
  [id \in DOMAIN m \cup DOMAIN t |-> IF id \in DOMAIN m THEN m[id] ELSE t[id]]

(* BTreeMap::extend: every entry of t is inserted, overwriting m.          *)
Extend(m, t) ==
  [id \in DOMAIN m \cup DOMAIN t |-> IF id \in DOMAIN t THEN t[id] ELSE m[id]]

(* The values DefaultSet produces.                                         *)
MaterialisedDefault ==
  [identifier: {"default"}, description: Descriptions \cup {DefaultDescription},
   permissions: Seq(Identifiers)]

(* None is never a materialised default set.                              *)
ASSUME NoValueNotDefault == NoValue \notin MaterialisedDefault

-----------------------------------------------------------------------------
Init ==
  /\ files \in InputFiles
  /\ next = 1
  /\ \E schema \in Schemas :
       manifest = [default_permission  |-> NoValue,
                   permissions         |-> EmptyMap,
                   permission_sets     |-> EmptyMap,
                   global_scope_schema |-> schema]

(* One iteration of `for permission_file in permission_files`.             *)
AggregateFile ==
  /\ next <= Len(files)
  /\ LET file == files[next]
     IN  manifest' =
           [manifest EXCEPT
              !.default_permission = ReplaceDefault(@, file.default),
              !.permissions        = Extend(@, PermissionTable(file.permission)),
              !.permission_sets    = Extend(@, SetTable(file.set))]
  /\ next' = next + 1
  /\ UNCHANGED files

Next == AggregateFile

Spec == Init /\ [][Next]_vars

-----------------------------------------------------------------------------
(* Properties.                                                             *)

TypeOK ==
  /\ files \in Seq(PermissionFile)
  /\ next \in 1..(Len(files) + 1)
  /\ manifest.default_permission \in MaterialisedDefault \cup {NoValue}
  /\ IsMapOf(manifest.permissions, Permission)
  /\ IsMapOf(manifest.permission_sets, PermissionSet)
  /\ manifest.global_scope_schema \in Schemas
  /\ DOMAIN manifest = {"default_permission", "permissions",
                        "permission_sets", "global_scope_schema"}

Processed == 1..(next - 1)

(* Declaration <<j2, k2>> comes after <<j, k>> in file order.              *)
After(j2, k2, j, k) == j2 > j \/ (j2 = j /\ k2 > k)

(* The manifest's permission table is exactly "last declaration wins"     *)
(* over the files consumed so far: every identifier declared is present,   *)
(* none other is, and each entry is, whole, the declaration of that        *)
(* identifier that no later one in the same or a later file overrides.     *)
(* Breaks if collecting or extending kept the first of two duplicates, or  *)
(* merged two declarations field by field.                                 *)
PermissionsLastWriteWins ==
  /\ DOMAIN manifest.permissions =
       UNION {IdsOf(files[j].permission) : j \in Processed}
  /\ \A id \in DOMAIN manifest.permissions :
       \E j \in Processed : \E k \in DOMAIN files[j].permission :
         /\ files[j].permission[k] = manifest.permissions[id]
         /\ files[j].permission[k].identifier = id
         /\ \A j2 \in Processed : \A k2 \in DOMAIN files[j2].permission :
              After(j2, k2, j, k) => files[j2].permission[k2].identifier # id

(* The same "last declaration wins" for the permission-set table.          *)
SetsLastWriteWins ==
  /\ DOMAIN manifest.permission_sets =
       UNION {IdsOf(files[j].set) : j \in Processed}
  /\ \A id \in DOMAIN manifest.permission_sets :
       \E j \in Processed : \E k \in DOMAIN files[j].set :
         /\ files[j].set[k] = manifest.permission_sets[id]
         /\ files[j].set[k].identifier = id
         /\ \A j2 \in Processed : \A k2 \in DOMAIN files[j2].set :
              After(j2, k2, j, k) => files[j2].set[k2].identifier # id

(* The default permission is the one of the last consumed file that has a *)
(* `default`, with identifier "default" and the literal fallback           *)
(* description when it has none; it is None only while no consumed file    *)
(* declared one.                                                           *)
DefaultLastWins ==
  IF \A j \in Processed : files[j].default = NoValue
  THEN manifest.default_permission = NoValue
  ELSE \E j \in Processed :
         /\ files[j].default # NoValue
         /\ \A j2 \in Processed : j2 > j => files[j2].default = NoValue
         /\ manifest.default_permission.identifier = "default"
         /\ manifest.default_permission.permissions =
              files[j].default.permissions
         /\ manifest.default_permission.description =
              IF files[j].default.description = NoValue
              THEN "Default plugin permissions."
              ELSE files[j].default.description

(* spec.md, section 6: the set identifier "default" is reserved for the   *)
(* synthesised default-permission set, so no declared set takes it.        *)
ReservedDefaultIdentifier ==
  "default" \notin DOMAIN manifest.permission_sets

=============================================================================
