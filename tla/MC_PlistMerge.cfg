CONSTANTS
  NonDict = NonDict
  Unreadable = Unreadable
  NoValue = NoValue
  Paths <- MCPaths
  Dest <- MCDest
  Keys <- MCKeys
  Values <- MCValues
  Sources <- MCSources
SPECIFICATION Spec
INVARIANTS TypeOK MergedSoFar MergeOutcome
\* merge_plist returns once the loop and the write are done: the final
\* states have no successor.
CHECK_DEADLOCK FALSE
