SPECIFICATION CommandSpec
CONSTANTS
  Wired = {"scan", "match", "organize"}
  NormalizedToList = TRUE
INVARIANT OrganizeWorks
CHECK_DEADLOCK FALSE
