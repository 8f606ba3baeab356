------------------------ MODULE PermissionCodecProofs ------------------------
(* Proofs about a permission's commands and scope on their way through    *)
(* serde and ToTokens (PermissionCodec), for every value of the constants. *)
EXTENDS PermissionCodec, TLAPS

USE CodecAssumption

Permission == [commands : Commands, scope : Scopes]

Decision == {None, "deny", "allow", "unmentioned"}

(* The inductive invariant: each stage's output is the permission, and    *)
(* every decision made is the spec's decision on the authored lists.      *)
IInv ==
  /\ perm \in Permission
  /\ pc \in {"serialize", "deserialize", "embed", "run"}
  /\ decisions \in [CommandIds -> Decision]
  /\ pc \in {"serialize", "deserialize"} => decoded = None
  /\ pc # "run" => embedded = None
  /\ pc \in {"deserialize", "embed", "run"} => wire = Serialize(perm)
  /\ pc \in {"embed", "run"} => decoded = perm
  /\ pc = "run" => embedded = perm
  /\ \A c \in CommandIds :
       decisions[c] \in {None, Decide(c, perm.commands)}

-----------------------------------------------------------------------------
(* The codecs.                                                             *)

(* Deserializing what serde wrote gives the permission back: a scope     *)
(* skipped by is_empty reads back as Scopes::default, and a list skipped *)
(* because it was None reads back as None.                                 *)
LEMMA RoundTrip ==
  ASSUME NEW p \in Permission
  PROVE  Deserialize(Serialize(p)) = p
<1>1. Serialize(p).commands = p.commands
  BY DEF Serialize
<1>2. CASE IsEmpty(p.scope)
  <2>1. "scope" \notin DOMAIN Serialize(p)
    BY <1>2 DEF Serialize
  <2>2. p.scope = [allow |-> None, deny |-> None]
    BY <1>2 DEF IsEmpty, Permission, Scopes
  <2>. QED
    BY <1>1, <2>1, <2>2 DEF Deserialize, Permission
<1>3. CASE ~IsEmpty(p.scope)
  <2>1. "scope" \in DOMAIN Serialize(p) /\ Serialize(p).scope = SerializeScope(p.scope)
    BY <1>3 DEF Serialize
  <2>2. DeserializeScope(SerializeScope(p.scope)) = p.scope
    BY DEF DeserializeScope, SerializeScope, Permission, Scopes
  <2>. QED
    BY <1>1, <2>1, <2>2 DEF Deserialize, Permission
<1>. QED
  BY <1>2, <1>3

(* Permission::to_tokens constructs the permission it was given.          *)
LEMMA TokensRoundTrip ==
  ASSUME NEW p \in Permission
  PROVE  [commands |-> CommandsTokens(p.commands),
          scope    |-> ScopesTokens(p.scope)] = p
BY DEF CommandsTokens, ScopesTokens, Permission, Commands, Scopes

-----------------------------------------------------------------------------
(* The invariant.                                                          *)

LEMMA InitIInv == Init => IInv
BY DEF Init, IInv, Permission, Decision

LEMMA NextIInv == IInv /\ [Next]_vars => IInv'
<1> SUFFICES ASSUME IInv, [Next]_vars PROVE IInv'
  OBVIOUS
<1>1. CASE SerializePermission
  BY <1>1 DEF SerializePermission, IInv
<1>2. CASE DeserializePermission
  BY <1>2, RoundTrip DEF DeserializePermission, IInv
<1>3. CASE Embed
  BY <1>3, TokensRoundTrip DEF Embed, IInv
<1>4. CASE DecideCommand
  <2>1. PICK c \in CommandIds :
          /\ decisions[c] = None
          /\ decisions' = [decisions EXCEPT ![c] = Decide(c, embedded.commands)]
    BY <1>4 DEF DecideCommand
  <2>2. embedded = perm /\ pc = "run"
    BY <1>4 DEF DecideCommand, IInv
  <2>3. Decide(c, perm.commands) \in Decision
    BY DEF Decide, Decision
  <2>. QED
    BY <1>4, <2>1, <2>2, <2>3 DEF DecideCommand, IInv
<1>5. CASE UNCHANGED vars
  BY <1>5 DEF vars, IInv
<1>. QED
  BY <1>1, <1>2, <1>3, <1>4, <1>5 DEF Next

-----------------------------------------------------------------------------
(* The properties.                                                         *)

(* Serialization, deserialization and embedding keep the command lists   *)
(* and the scope of a permission exactly (PermissionPreserved), for lists *)
(* of any length and any command and scope values.                         *)
THEOREM PermissionPreservedHolds == Spec => []PermissionPreserved
<1>1. IInv => PermissionPreserved
  BY DEF IInv, PermissionPreserved
<1>. QED
  BY <1>1, InitIInv, NextIInv, PTL DEF Spec


=============================================================================
