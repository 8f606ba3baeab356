CONSTANTS
  None = None
  Cwds <- MCCwds
  Dirs <- MCDirs
  Names <- MCNames
  Default <- MCDefault
  Join <- MCJoin
SPECIFICATION Spec
INVARIANTS InitInCreatedDir
\* The command ends in init, an error or a panic.
CHECK_DEADLOCK FALSE
