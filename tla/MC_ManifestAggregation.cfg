CONSTANTS
  NoValue = NoValue
  Identifiers <- MCIdentifiers
  Descriptions <- MCDescriptions
  Bodies <- MCBodies
  Schemas <- MCSchemas
  InputFiles <- MCInputFiles
SPECIFICATION Spec
INVARIANTS
  TypeOK
  PermissionsLastWriteWins
  SetsLastWriteWins
  DefaultLastWins
\* The manifest is returned once every file is consumed: no further step.
CHECK_DEADLOCK FALSE
