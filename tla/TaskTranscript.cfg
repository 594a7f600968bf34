SPECIFICATION TranscriptSpec
CONSTANTS
  Backend = {"codex", "claude", "opencode"}
  Capacity = 1
  MaxLines <- MCMaxLines
  MaxFailures = 1
INVARIANT SessionIsTold
PROPERTIES EndedRunsAreClosed SessionsEndWhole
CHECK_DEADLOCK FALSE
