--------------------------- MODULE IosDevicePrompt ---------------------------
(***************************************************************************)
(* What device_prompt (tooling/cli/src/mobile/ios/mod.rs) promises, as one *)
(* step from the listings to the result: a device the connected prompt    *)
(* may return; or, only when that prompt may fail, a simulator the        *)
(* simulator prompt may return, started and nothing else started; or an  *)
(* error, with nothing started.  Which prompt ran, the simulator chosen   *)
(* before it is started, and the order of the calls are hidden.           *)
(***************************************************************************)
EXTENDS IosDeviceSelectionBase

vars == <<connectedOk, connected, simulatorsOk, simulators, target, score, started, result>>

Inputs == <<connectedOk, connected, simulatorsOk, simulators, target, score>>

Init ==
  /\ connectedOk \in BOOLEAN /\ connected \in Lists(Devices)
  /\ simulatorsOk \in BOOLEAN /\ simulators \in Lists(Simulators)
  /\ target \in Targets \cup {NoValue}
  /\ score \in [Names -> Scores]
  /\ target = NoValue => score = [n \in Names |-> 0]
  /\ started = {}
  /\ result = NoValue

(* Ok with a connected device.                                             *)
ReturnDevice ==
  /\ result = NoValue
  /\ \E d \in Outcomes(connectedOk, connected) \ {Fail} :
       result' = [kind |-> "device", name |-> d]
  /\ UNCHANGED <<Inputs, started>>

(* The connected prompt may fail: Ok with a simulator, the one started.   *)
ReturnSimulator ==
  /\ result = NoValue
  /\ Fail \in Outcomes(connectedOk, connected)
  /\ \E s \in Outcomes(simulatorsOk, simulators) \ {Fail} :
       /\ result' = [kind |-> "simulator", name |-> s]
       /\ started' = {s}
  /\ UNCHANGED Inputs

(* The connected prompt may fail: Err, with no simulator started.         *)
ReturnErr ==
  /\ result = NoValue
  /\ Fail \in Outcomes(connectedOk, connected)
  /\ result' = Err
  /\ UNCHANGED <<Inputs, started>>

Next == ReturnDevice \/ ReturnSimulator \/ ReturnErr

Spec == Init /\ [][Next]_vars

=============================================================================
