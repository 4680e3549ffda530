SPECIFICATION FairSpec
CONSTANTS
    MaxEdits = 3
    MaxCloses = 2
    MaxRoleChanges = 2
    TokenFaults = TRUE
    ServerFaults = TRUE
INVARIANTS SavedMeansSentIsDurable NoEditIsForgotten
PROPERTIES EditsLeaveTheClient SavingEnds
CHECK_DEADLOCK FALSE
