CONSTANTS
    MaxLearned = 2
    MaxCrashes = 1
    InitialFiles <- MCNoFile
SPECIFICATION PersistenceSpec
INVARIANT SavedStateSurvives
