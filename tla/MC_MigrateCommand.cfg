CONSTANTS
  Plugins = {"fs", "shell", "http"}
  MaxPlugins = 3
SPECIFICATION Spec
INVARIANTS MigrationPrefix
\* The command returns Ok or Err and stops.
CHECK_DEADLOCK FALSE
