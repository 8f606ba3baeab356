CONSTANTS
  Absent = Absent
  Texts <- MCTexts
  Urls <- MCUrls
  BadHosts = {"["}
  BadPaths = {"/("}
  MatcherErrors <- MCMatcherErrors
  Globs <- MCGlobs
  MaxPatterns = 2
SPECIFICATION Spec
INVARIANTS TypeOK FailClosed
\* A build aborted by a malformed pattern, or a start-up panic, stops there.
CHECK_DEADLOCK FALSE
