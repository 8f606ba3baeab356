CONSTANTS
  None = None
  CommandIds = {c1, c2}
  ScopeValues = {v1}
  MaxLen = 1
SPECIFICATION Spec
INVARIANTS PermissionPreserved
\* Once every command was decided the runtime has nothing left to do.
CHECK_DEADLOCK FALSE
