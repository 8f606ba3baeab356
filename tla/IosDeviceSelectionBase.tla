------------------------ MODULE IosDeviceSelectionBase ------------------------
(***************************************************************************)
(* What device_prompt (tooling/cli/src/mobile/ios/mod.rs) works on, shared *)
(* by the step-by-step model IosDeviceSelection and the specification     *)
(* IosDevicePrompt: the listings, the target and the matcher's scores,    *)
(* the simulators started and the result, and what each of the two       *)
(* prompt functions may return for a listing.                             *)
(***************************************************************************)
EXTENDS Integers, Sequences

CONSTANTS
  Devices,         \* connected device names
  Simulators,      \* simulator names
  Targets,         \* the `target` argument when present
  Scores,          \* values best_match(..).map_or(0, score) may take
  MinMatchScore,   \* MIN_DEVICE_MATCH_SCORE
  MaxListLen,      \* bound on the length of a listed sequence
  NoValue          \* Option::None

ASSUME SelectionAssumption ==
  /\ Scores \subseteq Int /\ 0 \in Scores /\ MinMatchScore \in Int
  /\ MaxListLen \in Nat
  /\ NoValue \notin Targets

VARIABLES
  connectedOk,     \* list_devices succeeded
  connected,       \* the devices it returned
  simulatorsOk,    \* list_simulators succeeded
  simulators,      \* the simulators it returned
  target,          \* the target argument
  score,           \* name -> score of best_match(target, name)
  started,         \* simulators started by start_detached
  result           \* NoValue, the Ok device, or Err


Names == Devices \cup Simulators

Lists(S) == UNION {[1..n -> S] : n \in 0..MaxListLen}

Range(s) == {s[k] : k \in DOMAIN s}

Err == [kind |-> "err"]

-----------------------------------------------------------------------------
(* Iterator::rev                                                           *)
Reversed(s) == [k \in 1..Len(s) |-> s[Len(s) - k + 1]]

(* The highest score of a non-empty list.                                  *)
TopScore(s) == CHOOSE x \in {score[s[k]] : k \in DOMAIN s} :
                 \A k \in DOMAIN s : score[s[k]] <= x

(* Iterator::max_by_key returns the last of several maximal elements.     *)
MaxByScore(s) ==
  s[CHOOSE k \in DOMAIN s :
      /\ score[s[k]] = TopScore(s)
      /\ \A k2 \in DOMAIN s : k2 > k => score[s[k2]] < TopScore(s)]

(* Mutants: the `.rev()` dropped, and the chain replaced by `.next()`.     *)
BestNoRev(s) == MaxByScore(s)
BestFirstListed(s) == s[1]

(* `list.into_iter().rev().map(..score..).max_by_key(score)`              *)
Best(s) == MaxByScore(Reversed(s))

(* `if score > MIN_DEVICE_MATCH_SCORE`                                     *)
Accepts(x) == x > MinMatchScore

(* What one of the two prompt functions may return for a list: a device  *)
(* of it, or Fail for any of its errors.  With several devices and no     *)
(* target the user may pick any of them, or the prompt may fail.          *)
Fail == "fail"

(* Fail and None are markers of the model, never a device's name or an   *)
(* Ok(device): `Option::None` is not `Some(..)`, and an `Err` is not Ok.    *)
ASSUME OutcomeAssumption ==
  /\ Fail \notin Names
  /\ NoValue \notin Names \cup [kind : {"device", "simulator"}, name : Names]

Outcomes(listed, list) ==
  IF ~listed \/ list = <<>> THEN {Fail}
  ELSE IF target # NoValue
       THEN IF Accepts(score[Best(list)]) THEN {Best(list)} ELSE {Fail}
  ELSE IF Len(list) > 1 THEN Range(list) \cup {Fail}
  ELSE {list[1]}

Selection == [kind: {"device", "simulator"}, name: Names]

=============================================================================
