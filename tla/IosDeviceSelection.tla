-------------------------- MODULE IosDeviceSelection --------------------------
(***************************************************************************)
(* device_prompt, connected_device_prompt and simulator_prompt            *)
(* (tooling/cli/src/mobile/ios/mod.rs): choose the iOS device to run on.  *)
(*                                                                         *)
(* The connected devices are tried first; any error there (listing fails, *)
(* no device, no device matching the target, the prompt fails) falls back *)
(* to the simulators, whose chosen one is then started.  With a target    *)
(* name, each device is scored by the fuzzy matcher, the list is reversed *)
(* and `max_by_key` takes the last maximum, and the device is accepted    *)
(* only if its score is above MinMatchScore.  Without a target the user   *)
(* picks from a prompt when there is more than one device.                *)
(*                                                                         *)
(* The lists, the target, the matcher's scores and the user's answers are *)
(* inputs chosen in Init or by the step that reads them.                  *)
(***************************************************************************)
EXTENDS IosDeviceSelectionBase

VARIABLES
  pc,              \* "connected", "simulator", "start" or "done"
  chosen           \* the simulator chosen, before it is started

vars == <<connectedOk, connected, simulatorsOk, simulators, target, score, pc, chosen, started, result>>

-----------------------------------------------------------------------------
Init ==
  /\ connectedOk \in BOOLEAN /\ connected \in Lists(Devices)
  /\ simulatorsOk \in BOOLEAN /\ simulators \in Lists(Simulators)
  /\ target \in Targets \cup {NoValue}
  /\ score \in [Names -> Scores]
  /\ target = NoValue => score = [n \in Names |-> 0]
  /\ pc = "connected"
  /\ chosen = NoValue
  /\ started = {}
  /\ result = NoValue

(* connected_device_prompt returns Ok: device_prompt returns it.           *)
ConnectedChosen ==
  /\ pc = "connected"
  /\ \E d \in Outcomes(connectedOk, connected) \ {Fail} :
       result' = [kind |-> "device", name |-> d]
  /\ pc' = "done"
  /\ UNCHANGED <<connectedOk, connected, simulatorsOk, simulators, target, score, chosen, started>>

(* Mutant: the fallback taken whatever connected_device_prompt returned.  *)
ConnectedFailedUnguarded ==
  /\ pc = "connected"
  /\ pc' = "simulator"
  /\ UNCHANGED <<connectedOk, connected, simulatorsOk, simulators, target, score, chosen, started, result>>

(* connected_device_prompt fails: `if let Ok(..) .. else` falls back.      *)
ConnectedFailed ==
  /\ pc = "connected"
  /\ Fail \in Outcomes(connectedOk, connected)
  /\ pc' = "simulator"
  /\ UNCHANGED <<connectedOk, connected, simulatorsOk, simulators, target, score, chosen, started, result>>

(* Mutant: the simulator prompt copied from the device prompt, still     *)
(* selecting from the connected list.                                      *)
SimulatorChosenFromDevices ==
  /\ pc = "simulator"
  /\ \E s \in Outcomes(connectedOk, connected) \ {Fail} : chosen' = s
  /\ pc' = "start"
  /\ UNCHANGED <<connectedOk, connected, simulatorsOk, simulators, target,
                 score, started, result>>

(* simulator_prompt returns a simulator.                                   *)
SimulatorChosen ==
  /\ pc = "simulator"
  /\ \E s \in Outcomes(simulatorsOk, simulators) \ {Fail} : chosen' = s
  /\ pc' = "start"
  /\ UNCHANGED <<connectedOk, connected, simulatorsOk, simulators, target, score, started, result>>

(* simulator_prompt fails: its `?` returns the error.                      *)
SimulatorFailed ==
  /\ pc = "simulator"
  /\ Fail \in Outcomes(simulatorsOk, simulators)
  /\ pc' = "done" /\ result' = Err
  /\ UNCHANGED <<connectedOk, connected, simulatorsOk, simulators, target, score, chosen, started>>

(* `simulator.start_detached(env)?` then `Ok(simulator.into())`.           *)
StartSimulator ==
  /\ pc = "start"
  /\ started' = started \cup {chosen}
  /\ result' = [kind |-> "simulator", name |-> chosen]
  /\ pc' = "done"
  /\ UNCHANGED <<connectedOk, connected, simulatorsOk, simulators, target, score, chosen>>

(* start_detached fails: its `?` returns the error.                        *)
StartFails ==
  /\ pc = "start"
  /\ pc' = "done" /\ result' = Err
  /\ UNCHANGED <<connectedOk, connected, simulatorsOk, simulators, target, score, chosen, started>>

Next ==
  \/ ConnectedChosen \/ ConnectedFailed
  \/ SimulatorChosen \/ SimulatorFailed
  \/ StartSimulator \/ StartFails

Spec == Init /\ [][Next]_vars

(* The refinement mapping to the specification of device_prompt is the  *)
(* identity on the listings, the scores, the started simulators and the *)
(* result; the prompt's pc and the chosen simulator are hidden.          *)
Prompt == INSTANCE IosDevicePrompt

-----------------------------------------------------------------------------
(* Properties.                                                             *)

TypeOK ==
  /\ connectedOk \in BOOLEAN /\ connected \in Lists(Devices)
  /\ simulatorsOk \in BOOLEAN /\ simulators \in Lists(Simulators)
  /\ target \in Targets \cup {NoValue}
  /\ score \in [Names -> Scores]
  /\ pc \in {"connected", "simulator", "start", "done"}
  /\ chosen \in Simulators \cup {NoValue}
  /\ started \subseteq Simulators
  /\ result \in Selection \cup {NoValue, Err}

(* Reference: the first element of a list with the highest score.        *)
FirstBest(s) ==
  s[CHOOSE k \in DOMAIN s :
      /\ score[s[k]] = TopScore(s)
      /\ \A k2 \in DOMAIN s : k2 < k => score[s[k2]] < TopScore(s)]

(* With a target, the connected device returned and the simulator chosen *)
(* are the first in listing order among those with the best score: the    *)
(* reversal before `max_by_key` (which keeps the last maximum) turns its  *)
(* tie-break into "first listed wins".                                    *)
FirstBestSelected ==
  target # NoValue =>
    /\ result \in Selection /\ result.kind = "device" =>
         result.name = FirstBest(connected)
    /\ chosen # NoValue => chosen = FirstBest(simulators)

(* device_prompt prefers a connected device: when a target is given and  *)
(* some listed connected device scores above the threshold, it returns a *)
(* connected device and starts no simulator.                               *)
ConnectedPreferred ==
  /\ pc = "done"
  /\ target # NoValue
  /\ connectedOk
  /\ \E k \in DOMAIN connected : score[connected[k]] > MinMatchScore
  => result \in Selection /\ result.kind = "device" /\ started = {}

(* device_prompt implements its specification (PromptSpec): it returns a *)
(* connected device the prompt may pick; a simulator, then started alone, *)
(* only after connected_device_prompt may have failed; or an error, with *)
(* nothing started; and the steps before that change nothing observable. *)
PromptSpec == Prompt!Spec

=============================================================================
