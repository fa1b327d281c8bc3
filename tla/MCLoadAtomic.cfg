CONSTANTS
    MaxLearned = 2
    MaxCrashes = 1
    InitialFiles <- MCForeignFile
SPECIFICATION PersistenceSpec
INVARIANT RecordConsistent
