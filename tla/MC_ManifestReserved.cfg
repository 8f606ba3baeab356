CONSTANTS
  NoValue = NoValue
  Identifiers <- MCIdentifiers
  Descriptions <- MCDescriptions
  Bodies <- MCBodies
  Schemas <- MCSchemas
  InputFiles <- MCInputFiles
SPECIFICATION Spec
INVARIANTS
  ReservedDefaultIdentifier
CHECK_DEADLOCK FALSE
