CONSTANTS
    MaxLearned = 3
    MaxCrashes = 2
    InitialFiles <- MCOwnFiles
SPECIFICATION PersistenceSpec
INVARIANTS MemoryNotBehindDisk RecordConsistent
