SPECIFICATION Spec
CONSTANTS
    MaxEdits = 1
    MaxCloses = 1
    MaxRoleChanges = 0
    TokenFaults = FALSE
    ServerFaults = FALSE
INVARIANT SavedMeansDurable
CHECK_DEADLOCK FALSE
