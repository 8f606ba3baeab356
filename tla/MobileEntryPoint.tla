--------------------------- MODULE MobileEntryPoint ---------------------------
(***************************************************************************)
(* The `#[tauri::mobile_entry_point]` macro (core/tauri-macros/src/       *)
(* mobile.rs): read TAURI_ANDROID_PACKAGE_PREFIX and CARGO_PKG_NAME with  *)
(* get_env_var, the second with '-' replaced by '_', both writing a       *)
(* missing variable's compile error into one `error` slot with `replace`; *)
(* then emit that error, or the generated entry point using both idents.  *)
(* format_ident! panics on a replaced value that is not an identifier,    *)
(* which ends the macro before anything is emitted.                       *)
(*                                                                         *)
(* A value is a sequence of characters from a small alphabet; an unset    *)
(* variable is NoValue.  One step is one get_env_var call or the emission. *)
(***************************************************************************)
EXTENDS Naturals, Sequences

CONSTANTS
  Chars,           \* characters of the variables' values, "-" and "_" among them
  IdentStart,      \* the characters an identifier may start with
  IdentContinue,   \* the characters an identifier may contain
  MaxLen,          \* bound on the length of a value
  NoValue          \* the variable is not set

(* A set variable may hold any string, the empty one included.            *)
Values == UNION {[1..n -> Chars] : n \in 0..MaxLen}

Range(s) == {s[k] : k \in DOMAIN s}

Vars == <<"TAURI_ANDROID_PACKAGE_PREFIX", "CARGO_PKG_NAME">>

(* An unset variable (`Err` of std::env::var) is neither a value nor a    *)
(* variable's name.                                                        *)
ASSUME EntryPointAssumption ==
  /\ MaxLen \in Nat /\ {"-", "_"} \subseteq Chars
  /\ NoValue \notin Values \cup Range(Vars)

(* Rust identifiers: `_` starts one, every start character may continue   *)
(* one, and `-` is in none.                                                *)
ASSUME IdentAssumption ==
  /\ "_" \in IdentStart /\ IdentStart \subseteq IdentContinue
  /\ IdentContinue \subseteq Chars /\ "-" \notin IdentContinue

VARIABLES
  env,             \* variable name -> value or NoValue
  idents,          \* the idents get_env_var returned so far, in order
  error,           \* the error slot: NoValue or the variable it names
  output           \* NoValue, [error |-> var], [panic |-> var] or [domain, app_name]

vars == <<env, idents, error, output>>

-----------------------------------------------------------------------------
(* The replacers: `|r| r` and `|r| r.replace('-', "_")`.                   *)
Underscored(v) == [k \in DOMAIN v |-> IF v[k] = "-" THEN "_" ELSE v[k]]
Replaced(k, v) == IF k = 1 THEN v ELSE Underscored(v)

(* What format_ident!("{}", ..) accepts (Ident::new): a non-empty string  *)
(* whose first character starts and every character continues an         *)
(* identifier; on anything else it panics.                                 *)
IsIdent(s) ==
  /\ Len(s) > 0 /\ s[1] \in IdentStart
  /\ \A k \in DOMAIN s : s[k] \in IdentContinue

(* Mutant: a missing variable yields `quote!()` without setting `error`.  *)
ErrorSlotIgnored(varName, slot) == slot

(* Mutant: `error.get_or_insert(..)`, the first error kept.               *)
ErrorSlotFirst(varName, slot) == IF slot = NoValue THEN varName ELSE slot

(* `error.replace(..)`: the later error overwrites an earlier one.         *)
ErrorSlot(varName, slot) == varName

-----------------------------------------------------------------------------
Init ==
  /\ env \in [Range(Vars) -> Values \cup {NoValue}]
  /\ idents = <<>> /\ error = NoValue /\ output = NoValue

(* get_env_var for the next variable: its replaced value as an ident, a   *)
(* panic when that is not an identifier, or an empty token stream and the *)
(* error slot written.                                                     *)
GetEnvVar ==
  /\ Len(idents) < Len(Vars) /\ output = NoValue
  /\ LET k == Len(idents) + 1
         v == env[Vars[k]] IN
       CASE v # NoValue /\ IsIdent(Replaced(k, v)) ->
              idents' = Append(idents, Replaced(k, v)) /\ UNCHANGED <<error, output>>
         [] v # NoValue /\ ~IsIdent(Replaced(k, v)) ->
              output' = [panic |-> Vars[k]] /\ UNCHANGED <<idents, error>>
         [] v = NoValue ->
              /\ idents' = Append(idents, <<>>) /\ error' = ErrorSlot(Vars[k], error)
              /\ UNCHANGED output
  /\ UNCHANGED env

(* `if let Some(e) = error { quote!(#e) } else { quote!(..) }`             *)
Emit ==
  /\ Len(idents) = Len(Vars) /\ output = NoValue
  /\ output' = IF error # NoValue THEN [error |-> error]
               ELSE [domain |-> idents[1], app_name |-> idents[2]]
  /\ UNCHANGED <<env, idents, error>>

Next == GetEnvVar \/ Emit

Spec == Init /\ [][Next]_vars

-----------------------------------------------------------------------------
(* Properties.                                                             *)

(* Variable k is set to a value that, replaced, is not an identifier.   *)
Unusable(k) == env[Vars[k]] # NoValue /\ ~IsIdent(Replaced(k, env[Vars[k]]))

(* The macro panics, naming the first variable read whose replaced value *)
(* is not an identifier, even when the other one is missing; otherwise   *)
(* it emits the entry point exactly when both variables are set, with    *)
(* the prefix as given and the package name with every '-' turned into   *)
(* '_'; otherwise one compile error, naming a missing variable, and,     *)
(* since the slot is overwritten, CARGO_PKG_NAME whenever that one is    *)
(* missing, so a missing prefix then goes unreported.                     *)
EntryPointOutcome ==
  output # NoValue =>
    IF Unusable(1) \/ Unusable(2)
    THEN output = [panic |-> IF Unusable(1) THEN Vars[1] ELSE Vars[2]]
    ELSE IF \A n \in Range(Vars) : env[n] # NoValue
    THEN output = [domain |-> env[Vars[1]], app_name |-> Underscored(env[Vars[2]])]
    ELSE /\ DOMAIN output = {"error"}
         /\ env[output.error] = NoValue
         /\ env[Vars[2]] = NoValue => output.error = Vars[2]

=============================================================================
