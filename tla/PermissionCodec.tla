---------------------------- MODULE PermissionCodec ----------------------------
(***************************************************************************)
(* The command access list and scope of a Permission (core/tauri-utils/   *)
(* src/acl/mod.rs) on their two ways out of a permission file: serde      *)
(* serialization and deserialization (Commands' lists `#[serde(default)]`, *)
(* Scopes' lists skipped when None and the whole scope skipped when       *)
(* Scopes::is_empty), and the build-time ToTokens literals of Commands and *)
(* Scopes.  The runtime then decides commands on the embedded copy with   *)
(* the deny-wins rule of the spec (the decision is made outside src/).    *)
(*                                                                         *)
(* Identifier, description, version and platforms are copied verbatim by  *)
(* both ways and are left out.  Scope values are opaque model values.     *)
(***************************************************************************)
EXTENDS Naturals, Sequences

CONSTANTS
  CommandIds,      \* command identifiers
  ScopeValues,     \* opaque scope entries
  MaxLen,          \* bound on the length of a list
  None             \* Option::None

ASSUME CodecAssumption == MaxLen \in Nat /\ None \notin Seq(ScopeValues)

Lists(S) == UNION {[1..n -> S] : n \in 0..MaxLen}
Range(s) == {s[k] : k \in DOMAIN s}

Commands == [allow : Lists(CommandIds), deny : Lists(CommandIds)]
Scopes == [allow : Lists(ScopeValues) \cup {None}, deny : Lists(ScopeValues) \cup {None}]

VARIABLES
  perm,            \* the Permission's [commands, scope] as parsed
  wire,            \* its serialized form: present keys -> values
  decoded,         \* the Permission deserialized from `wire`
  embedded,        \* the Permission the generated code constructs
  decisions,       \* command -> decision the runtime made on `embedded`
  pc               \* "serialize", "deserialize", "embed" or "run"

vars == <<perm, wire, decoded, embedded, decisions, pc>>

-----------------------------------------------------------------------------
(* Mutant: `allow` and `deny` counted empty when they are empty lists.    *)
IsEmptyByLength(s) ==
  /\ s.allow \in {None, <<>>}
  /\ s.deny \in {None, <<>>}

(* Scopes::is_empty: both lists absent (Some(vec![]) is not empty).        *)
IsEmpty(s) == s.allow = None /\ s.deny = None

(* `#[serde(skip_serializing_if = "Option::is_none")]` on each list.       *)
SerializeScope(s) ==
  [f \in {g \in {"allow", "deny"} : s[g] # None} |-> s[f]]

(* serde: commands always written; scope skipped when is_empty.           *)
Serialize(p) ==
  [f \in {"commands"} \cup (IF IsEmpty(p.scope) THEN {} ELSE {"scope"}) |->
     IF f = "commands" THEN p.commands ELSE SerializeScope(p.scope)]

(* A missing Option field reads as None; a missing scope is Scopes::default. *)
DeserializeScope(w) ==
  [f \in {"allow", "deny"} |-> IF f \in DOMAIN w THEN w[f] ELSE None]

Deserialize(w) ==
  [commands |-> w.commands,
   scope    |-> IF "scope" \in DOMAIN w THEN DeserializeScope(w.scope)
                ELSE [allow |-> None, deny |-> None]]

(* Mutant: a copy-paste slip, `let deny = vec_lit(&self.allow, ..)`.       *)
CommandsTokensCopyPaste(c) == [allow |-> c.allow, deny |-> c.allow]

(* Commands::to_tokens: both lists as `vec![..]` literals.                 *)
CommandsTokens(c) == [allow |-> c.allow, deny |-> c.deny]

(* Scopes::to_tokens: each `opt_vec_lit`, None kept as None.               *)
ScopesTokens(s) == [allow |-> s.allow, deny |-> s.deny]

(* The spec's decision for a command: deny wins, then allow; a command   *)
(* in neither list is left to the capability resolver.                     *)
Decide(c, cmds) ==
  IF c \in Range(cmds.deny) THEN "deny"
  ELSE IF c \in Range(cmds.allow) THEN "allow"
  ELSE "unmentioned"

-----------------------------------------------------------------------------
Init ==
  /\ perm \in [commands : Commands, scope : Scopes]
  /\ wire = None /\ decoded = None /\ embedded = None
  /\ decisions = [c \in CommandIds |-> None]
  /\ pc = "serialize"

SerializePermission ==
  /\ pc = "serialize"
  /\ wire' = Serialize(perm)
  /\ pc' = "deserialize"
  /\ UNCHANGED <<perm, decoded, embedded, decisions>>

DeserializePermission ==
  /\ pc = "deserialize"
  /\ decoded' = Deserialize(wire)
  /\ pc' = "embed"
  /\ UNCHANGED <<perm, wire, embedded, decisions>>

(* Permission::to_tokens of the deserialized permission.                   *)
Embed ==
  /\ pc = "embed"
  /\ embedded' = [commands |-> CommandsTokens(decoded.commands),
                  scope    |-> ScopesTokens(decoded.scope)]
  /\ pc' = "run"
  /\ UNCHANGED <<perm, wire, decoded, decisions>>

(* The runtime decides an invoked command on the embedded permission.     *)
DecideCommand ==
  /\ pc = "run"
  /\ \E c \in CommandIds : decisions[c] = None /\
       decisions' = [decisions EXCEPT ![c] = Decide(c, embedded.commands)]
  /\ UNCHANGED <<perm, wire, decoded, embedded, pc>>

Next == SerializePermission \/ DeserializePermission \/ Embed \/ DecideCommand

Spec == Init /\ [][Next]_vars

-----------------------------------------------------------------------------
(* Properties.                                                             *)

(* Serializing, deserializing and embedding a permission gives back its   *)
(* command lists and its scope exactly: an absent list stays absent, and  *)
(* a present but empty one (Some(vec![])) is neither dropped nor turned   *)
(* into None by the is_empty skip.                                         *)
PermissionPreserved ==
  /\ decoded # None => decoded = perm
  /\ embedded # None => embedded = perm


=============================================================================
