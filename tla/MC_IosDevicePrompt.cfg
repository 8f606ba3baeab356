CONSTANTS
  NoValue = NoValue
  Devices <- MCDevices
  Simulators <- MCSimulators
  Targets <- MCTargets
  Scores <- MCScores
  MinMatchScore = 1
  MaxListLen = 2
SPECIFICATION Spec
PROPERTIES PromptSpec
\* device_prompt returns once a device is chosen or an error is returned:
\* the final states have no successor.
CHECK_DEADLOCK FALSE
