------------------------ MODULE MacroAndPluginNewProofs ------------------------
(* Proofs about the mobile entry point macro (MobileEntryPoint): what it *)
(* emits, for values of any length over any characters; and about        *)
(* `tauri plugin new` (PluginNew, taken as the instance PN over the state *)
(* of PluginNewBase): `plugin init` runs in the directory created.        *)
EXTENDS MobileEntryPoint, PluginNewBase, TLAPS

(* The ident get_env_var returns for the k-th variable.                   *)
IdentOf(k) == IF env[Vars[k]] # NoValue THEN Replaced(k, env[Vars[k]]) ELSE <<>>

(* The inductive invariant: the idents so far are what get_env_var       *)
(* returned for the first variables, each an identifier or empty; the     *)
(* error slot is set exactly when one of them is unset, names an unset    *)
(* one, and is CARGO_PKG_NAME once that one was read unset; the output is *)
(* the panic of the next variable, or is built from idents and slot.      *)
EIInv ==
  /\ env \in [Range(Vars) -> Values \cup {NoValue}]
  /\ idents \in Seq(Seq(Chars)) /\ Len(idents) \in 0..2
  /\ \A k \in 1..Len(idents) : idents[k] = IdentOf(k) /\ ~Unusable(k)
  /\ error = NoValue <=> \A k \in 1..Len(idents) : env[Vars[k]] # NoValue
  /\ error # NoValue => \E k \in 1..Len(idents) : error = Vars[k] /\ env[error] = NoValue
  /\ Len(idents) = 2 /\ env[Vars[2]] = NoValue => error = Vars[2]
  /\ output # NoValue =>
       \/ /\ Len(idents) < 2 /\ Unusable(Len(idents) + 1)
          /\ output = [panic |-> Vars[Len(idents) + 1]]
       \/ /\ Len(idents) = 2
          /\ output = IF error # NoValue THEN [error |-> error]
                      ELSE [domain |-> idents[1], app_name |-> idents[2]]

(* The parts of the macro's assumption the proofs use.  Facts relating  *)
(* string literals to Chars are kept to Zenon steps, which the SMT        *)
(* encoding of Seq(Chars) does not accept next to them.                    *)
LEMMA AssumptionParts ==
  /\ MaxLen \in Nat
  /\ "_" \in Chars
  /\ NoValue \notin Values
  /\ NoValue \notin Range(Vars)
BY EntryPointAssumption, Zenon

(* The two variables read, in order.                                      *)
LEMMA VarsFacts ==
  /\ Vars[1] = "TAURI_ANDROID_PACKAGE_PREFIX" /\ Vars[2] = "CARGO_PKG_NAME"
  /\ Len(Vars) = 2 /\ Vars[1] # Vars[2]
  /\ Range(Vars) = {Vars[1], Vars[2]}
BY DEF Vars, Range

(* Every value of a variable is a sequence of characters.               *)
LEMMA ValuesAreSeqs ==
  ASSUME MaxLen \in Nat
  PROVE  Values \subseteq Seq(Chars)
<1> SUFFICES ASSUME NEW v \in Values PROVE v \in Seq(Chars)
  OBVIOUS
<1>1. PICK n \in 0..MaxLen : v \in [1..n -> Chars]
  BY DEF Values
<1>. QED
  BY <1>1

(* Replacing every a by b in a sequence over S, b in S, gives a sequence *)
(* over S without a.                                                      *)
LEMMA ReplaceInSeq ==
  ASSUME NEW S, NEW v \in Seq(S), NEW a, NEW b \in S, a # b
  PROVE  LET w == [k \in DOMAIN v |-> IF v[k] = a THEN b ELSE v[k]]
         IN  w \in Seq(S) /\ \A k \in DOMAIN w : w[k] # a
OBVIOUS

(* `r.replace('-', "_")` keeps the length and the characters' set, and  *)
(* leaves no '-'.                                                          *)
LEMMA UnderscoredFacts ==
  ASSUME NEW v \in Seq(Chars), "_" \in Chars
  PROVE  /\ Underscored(v) \in Seq(Chars)
         /\ \A k \in DOMAIN Underscored(v) : Underscored(v)[k] # "-"
<1>1. "-" # "_"
  OBVIOUS
<1>. QED
  BY <1>1, ReplaceInSeq, Zenon DEF Underscored

(* The k-th ident, when its variable is set, is a sequence of characters. *)
LEMMA ReplacedSeq ==
  ASSUME NEW k \in 1..2, NEW v \in Values
  PROVE  Replaced(k, v) \in Seq(Chars)
<1>1. MaxLen \in Nat /\ "_" \in Chars
  BY AssumptionParts
<1>2. v \in Seq(Chars)
  BY <1>1, ValuesAreSeqs
<1>3. Underscored(v) \in Seq(Chars)
  BY <1>1, <1>2, UnderscoredFacts, Zenon
<1>. QED
  BY <1>2, <1>3 DEF Replaced

LEMMA EInitIInv == Init => EIInv
<1> SUFFICES ASSUME Init PROVE EIInv
  OBVIOUS
<1>1. idents = <<>> /\ error = NoValue /\ output = NoValue
  BY DEF Init
<1>2. <<>> \in Seq(Seq(Chars))
  OBVIOUS
<1>. QED
  BY <1>1, <1>2 DEF Init, EIInv

LEMMA ENextIInv ==
  EIInv /\ [Next]_vars => EIInv'
<1> SUFFICES ASSUME EIInv, [Next]_vars PROVE EIInv'
  OBVIOUS
<1>0. /\ NoValue \notin Values /\ NoValue \notin Range(Vars)
  BY AssumptionParts
<1>1. CASE GetEnvVar
  <2> DEFINE i == Len(idents) + 1
             val == env[Vars[i]]
  <2>1. i \in 1..2 /\ Len(idents) \in 0..1 /\ env' = env /\ output = NoValue
    <3>1. Len(idents) < Len(Vars) /\ output = NoValue /\ env' = env
      BY <1>1 DEF GetEnvVar
    <3>2. Len(idents) \in 0..2
      BY Zenon DEF EIInv
    <3>. QED
      BY <3>1, <3>2, VarsFacts DEF i
  <2>2. val \in Values \cup {NoValue}
    BY <2>1, VarsFacts DEF EIInv, i, val
  <2>3. \A k \in 1..2 : IdentOf(k)' = IdentOf(k) /\ (Unusable(k)' <=> Unusable(k))
    BY <2>1 DEF IdentOf, Unusable
  <2>4. CASE val # NoValue /\ IsIdent(Replaced(i, val))
    <3>1. idents' = Append(idents, Replaced(i, val)) /\ error' = error /\ output' = output
      BY <1>1, <2>4 DEF GetEnvVar, i, val
    <3>2. Replaced(i, val) \in Seq(Chars)
      BY <2>1, <2>2, <2>4, ReplacedSeq DEF i, val
    <3>3. Replaced(i, val) = IdentOf(i) /\ ~Unusable(i)
      BY <2>4 DEF IdentOf, Unusable, i, val
    <3>4. idents' \in Seq(Seq(Chars)) /\ Len(idents') = i
      BY <3>1, <3>2 DEF EIInv, i
    <3>5. \A k \in 1..i : idents'[k] = IdentOf(k)' /\ ~Unusable(k)'
      BY <2>1, <2>3, <3>1, <3>3 DEF EIInv, i
    <3>6. error' = NoValue <=> \A k \in 1..i : env'[Vars[k]] # NoValue
      BY <2>1, <2>4, <3>1 DEF EIInv, i, val
    <3>7. Len(idents') = 2 /\ env'[Vars[2]] = NoValue => error' = Vars[2]
      BY <2>1, <2>4, <3>4 DEF i, val
    <3>. QED
      BY <2>1, <3>1, <3>4, <3>5, <3>6, <3>7 DEF EIInv, i
  <2>5. CASE val # NoValue /\ ~IsIdent(Replaced(i, val))
    <3>1. output' = [panic |-> Vars[i]] /\ idents' = idents /\ error' = error
      BY <1>1, <2>5 DEF GetEnvVar, i, val
    <3>2. Unusable(i)
      BY <2>5 DEF Unusable, i, val
    <3>. QED
      BY <2>1, <2>3, <3>1, <3>2 DEF EIInv, i
  <2>6. CASE val = NoValue
    <3>1. idents' = Append(idents, <<>>) /\ error' = Vars[i] /\ output' = output
      BY <1>1, <2>6 DEF GetEnvVar, ErrorSlot, i, val
    <3>2. <<>> = IdentOf(i) /\ ~Unusable(i) /\ <<>> \in Seq(Chars)
      BY <2>6 DEF IdentOf, Unusable, i, val
    <3>3. error' # NoValue /\ env[error'] = NoValue
      BY <1>0, <2>1, <2>6, <3>1, VarsFacts DEF i, val
    <3>4. idents' \in Seq(Seq(Chars)) /\ Len(idents') = i
      BY <3>1, <3>2 DEF EIInv, i
    <3>5. \A k \in 1..i : idents'[k] = IdentOf(k)' /\ ~Unusable(k)'
      BY <2>1, <2>3, <3>1, <3>2 DEF EIInv, i
    <3>. QED
      BY <2>1, <2>6, <3>1, <3>3, <3>4, <3>5, VarsFacts DEF EIInv, i, val
  <2>. QED
    BY <2>4, <2>5, <2>6 DEF i, val
<1>2. CASE Emit
  <2>1. Len(idents) = 2 /\ UNCHANGED <<env, idents, error>>
    BY <1>2, VarsFacts DEF Emit
  <2>2. output' = IF error # NoValue THEN [error |-> error]
                  ELSE [domain |-> idents[1], app_name |-> idents[2]]
    BY <1>2 DEF Emit
  <2>3. \A k \in 1..2 : IdentOf(k)' = IdentOf(k) /\ (Unusable(k)' <=> Unusable(k))
    BY <2>1 DEF IdentOf, Unusable
  <2>. QED
    BY <2>1, <2>2, <2>3 DEF EIInv
<1>3. CASE UNCHANGED vars
  BY <1>3 DEF vars, EIInv, IdentOf, Unusable
<1>. QED
  BY <1>1, <1>2, <1>3 DEF Next

(* The macro panics naming the first variable whose replaced value is   *)
(* not an identifier, since format_ident! panics inside get_env_var;     *)
(* otherwise it emits the entry point exactly when both variables are    *)
(* set, and one error naming a missing variable, CARGO_PKG_NAME whenever *)
(* that one is missing since `error.replace` overwrites the slot          *)
(* (EntryPointOutcome), for values of any length over any characters.    *)
THEOREM EntryPointOutcomeHolds == Spec => []EntryPointOutcome
<1>1. EIInv => EntryPointOutcome
  <2> SUFFICES ASSUME EIInv, output # NoValue PROVE EntryPointOutcome
    BY DEF EntryPointOutcome
  <2>0. Len(idents) \in 0..2
    BY Zenon DEF EIInv
  <2>1. CASE /\ Len(idents) < 2 /\ Unusable(Len(idents) + 1)
             /\ output = [panic |-> Vars[Len(idents) + 1]]
    <3>1. \A k \in 1..Len(idents) : ~Unusable(k)
      BY DEF EIInv
    <3>2. Unusable(1) \/ Unusable(2)
      BY <2>0, <2>1
    <3>3. (IF Unusable(1) THEN Vars[1] ELSE Vars[2]) = Vars[Len(idents) + 1]
      BY <2>0, <2>1, <3>1
    <3>4. output = [panic |-> IF Unusable(1) THEN Vars[1] ELSE Vars[2]]
      BY <2>1, <3>3
    <3>. QED
      BY <3>2, <3>4 DEF EntryPointOutcome
  <2>2. CASE /\ Len(idents) = 2
             /\ output = IF error # NoValue THEN [error |-> error]
                         ELSE [domain |-> idents[1], app_name |-> idents[2]]
    <3>1. ~Unusable(1) /\ ~Unusable(2)
      BY <2>2 DEF EIInv
    <3>2. CASE \A n \in Range(Vars) : env[n] # NoValue
      <4>1. error = NoValue
        BY <2>2, <3>2, VarsFacts DEF EIInv
      <4>2. output = [domain |-> env[Vars[1]], app_name |-> Underscored(env[Vars[2]])]
        BY <2>2, <3>2, <4>1, VarsFacts DEF EIInv, IdentOf, Replaced
      <4>. QED
        BY <3>1, <3>2, <4>2 DEF EntryPointOutcome
    <3>3. CASE ~\A n \in Range(Vars) : env[n] # NoValue
      <4>1. error # NoValue
        BY <2>2, <3>3, VarsFacts DEF EIInv
      <4>2. output = [error |-> error] /\ env[error] = NoValue
        BY <2>2, <4>1 DEF EIInv
      <4>3. env[Vars[2]] = NoValue => error = Vars[2]
        BY <2>2 DEF EIInv
      <4>. QED
        BY <3>1, <3>3, <4>2, <4>3 DEF EntryPointOutcome
    <3>. QED
      BY <3>2, <3>3
  <2>. QED
    BY <2>1, <2>2 DEF EIInv
<1>. QED
  BY <1>1, EInitIInv, ENextIInv, PTL DEF Spec

-----------------------------------------------------------------------------
(* `tauri plugin new`.  PluginNew's assumptions are an instance's, so the *)
(* lemmas take them as hypotheses; TLC evaluates them on plugin_new.      *)

PN == INSTANCE PluginNew

(* The inductive invariant: once the directory is created, `directory`  *)
(* is set and names, joined with the cwd, a created path; init is given *)
(* exactly that `directory`.                                               *)
IInv ==
  /\ name \in Names
  /\ directory \in Dirs \cup {None}
  /\ pc \in {"cwd", "create", "init", "done", "err"}
  /\ pc \in {"create", "init", "done"} => cwd \in Cwds
  /\ pc \in {"init", "done"} => directory # None /\ Join[cwd, directory] \in created
  /\ pc = "done" => initDir = directory

LEMMA InitIInv == PN!Init => IInv
BY DEF PN!Init, IInv

LEMMA NextIInv ==
  ASSUME PN!PluginNewAssumption, PN!PathAssumption, IInv, [PN!Next]_(PN!vars)
  PROVE  IInv'
<1>0. /\ Default \in [Names -> Dirs] /\ None \notin Dirs
      /\ Join \in [Cwds \X Dirs -> Dirs]
      /\ \A c \in Cwds, d \in Dirs : Join[c, Join[c, d]] = Join[c, d]
  BY DEF PN!PluginNewAssumption, PN!PathAssumption
<1>1. CASE PN!CurrentDir
  BY <1>1 DEF PN!CurrentDir, IInv
<1>2. CASE PN!CurrentDirFails
  BY <1>2 DEF PN!CurrentDirFails, IInv
<1>3. CASE PN!CreateDir
  <2>1. cwd \in Cwds /\ pc = "create"
    BY <1>3 DEF PN!CreateDir, IInv
  <2>2. CASE directory = None
    <3> DEFINE t == Join[cwd, Default[name]]
    <3>1. t \in Dirs /\ Join[cwd, t] = t
      BY <1>0, <2>1 DEF IInv
    <3>. QED
      BY <1>0, <1>3, <2>1, <2>2, <3>1 DEF PN!CreateDir, IInv, t
  <2>3. CASE directory # None
    BY <1>0, <1>3, <2>1, <2>3 DEF PN!CreateDir, IInv
  <2>. QED
    BY <2>2, <2>3
<1>4. CASE PN!CreateDirFails
  BY <1>4 DEF PN!CreateDirFails, IInv
<1>5. CASE PN!StartInit
  BY <1>5 DEF PN!StartInit, IInv
<1>6. CASE UNCHANGED PN!vars
  BY <1>6 DEF PN!vars, IInv
<1>. QED
  BY <1>1, <1>2, <1>3, <1>4, <1>5, <1>6 DEF PN!Next

(* From<Options> never unwraps a None `directory`, and `plugin init`    *)
(* always runs in a directory create_dir_all made (InitInCreatedDir),    *)
(* for a given or a default directory, under every cwd.                   *)
THEOREM InitInCreatedDirHolds ==
  ASSUME PN!PluginNewAssumption, PN!PathAssumption
  PROVE  PN!Spec => []InitInCreatedDir
<1>1. IInv => InitInCreatedDir
  BY DEF IInv, InitInCreatedDir
<1>2. IInv /\ [PN!Next]_(PN!vars) => IInv'
  BY NextIInv
<1>. QED
  BY <1>1, <1>2, InitIInv, PTL DEF PN!Spec

=============================================================================
