CONSTANTS
  NoValue = NoValue
  Chars = {"a", "1", "-", "_"}
  IdentStart = {"a", "_"}
  IdentContinue = {"a", "1", "_"}
  MaxLen = 2
SPECIFICATION Spec
INVARIANTS EntryPointOutcome
\* The macro returns its token stream, or panics, and stops.
CHECK_DEADLOCK FALSE
