--------------------- MODULE LearnerPersistenceProofs ----------------------
(***************************************************************************)
(* Proofs about save_learned_parameters and load_learned_parameters across *)
(* process lifetimes, for every bound on learning and crashes and every    *)
(* initial file: a running learner is never behind the record on disk.     *)
(* That property is inductive once the state is known to be well typed:    *)
(* a load takes the file's progress, learning only advances, a save        *)
(* either tears the file or writes the current progress, and a process     *)
(* that is down claims nothing.                                            *)
(***************************************************************************)
EXTENDS LearnerPersistence, TLAPS

USE PersistenceAssumption

\* What load_learned_parameters returns is a pair of progress values.
LEMMA LoadType ==
    ASSUME NEW f \in Files
    PROVE  /\ LoadLearnedParameters(f)[1] \in Progress
           /\ LoadLearnedParameters(f)[2] \in Progress
           /\ f.kind = "complete" => LoadLearnedParameters(f)[1] = f.v
BY DEF Files, LoadLearnedParameters, Progress

\* Every persistence step keeps the state well typed.
LEMMA TypeStep ==
    ASSUME PersistenceTypeOK, [PersistenceNext]_persistence_vars
    PROVE  PersistenceTypeOK'
<1>1. CASE Start
    BY <1>1, LoadType DEF Start, PersistenceTypeOK
<1>2. CASE Learn
    BY <1>2 DEF Learn, PersistenceTypeOK, Progress
<1>3. CASE SaveOpen
    BY <1>3 DEF SaveOpen, PersistenceTypeOK, Torn, Files
<1>4. CASE SaveDump
    BY <1>4 DEF SaveDump, PersistenceTypeOK, Files
<1>5. CASE Exit
    BY <1>5 DEF Exit, PersistenceTypeOK
<1>6. CASE Crash
    BY <1>6 DEF Crash, PersistenceTypeOK
<1>7. CASE UNCHANGED persistence_vars
    BY <1>7 DEF persistence_vars, PersistenceTypeOK
<1>8. QED
    BY <1>1, <1>2, <1>3, <1>4, <1>5, <1>6, <1>7 DEF PersistenceNext

\* The persistence state is well typed in every reachable state.
THEOREM PersistenceTypeCorrect == PersistenceSpec => []PersistenceTypeOK
<1>1. PersistenceInit => PersistenceTypeOK
    BY DEF PersistenceInit, PersistenceTypeOK, Progress
<1>2. QED
    BY <1>1, TypeStep, PTL DEF PersistenceSpec

\* A running learner is never behind the record it last loaded or wrote,
\* whatever starts, saves, clean exits and crashes came before.
THEOREM MemoryNotBehindDiskCorrect == PersistenceSpec => []MemoryNotBehindDisk
<1> DEFINE Inv == PersistenceTypeOK /\ MemoryNotBehindDisk
<1>1. PersistenceInit => Inv
    BY DEF Inv, PersistenceInit, PersistenceTypeOK, MemoryNotBehindDisk, Progress
<1>2. Inv /\ [PersistenceNext]_persistence_vars => Inv'
    <2> SUFFICES ASSUME PersistenceTypeOK, MemoryNotBehindDisk,
                        [PersistenceNext]_persistence_vars
                 PROVE  PersistenceTypeOK' /\ MemoryNotBehindDisk'
        BY DEF Inv
    <2>1. PersistenceTypeOK'
        BY TypeStep
    <2> SUFFICES MemoryNotBehindDisk'
        BY <2>1
    <2>2. CASE Start
        <3>1. file \in Files
            BY DEF PersistenceTypeOK
        <3>2. file.kind = "complete" => maps' = file.v
            BY <2>2, <3>1, LoadType DEF Start
        <3>3. QED
            BY <2>2, <3>1, <3>2 DEF Start, MemoryNotBehindDisk, Files, Progress
    <2>3. CASE Learn
        BY <2>3 DEF Learn, PersistenceTypeOK, MemoryNotBehindDisk, Progress,
                   Files
    <2>4. CASE SaveOpen
        BY <2>4 DEF SaveOpen, MemoryNotBehindDisk, Torn
    <2>5. CASE SaveDump
        BY <2>5 DEF SaveDump, PersistenceTypeOK, MemoryNotBehindDisk, Progress
    <2>6. CASE Exit \/ Crash
        BY <2>6 DEF Exit, Crash, MemoryNotBehindDisk
    <2>7. CASE UNCHANGED persistence_vars
        BY <2>7 DEF persistence_vars, MemoryNotBehindDisk
    <2>8. QED
        BY <2>1, <2>2, <2>3, <2>4, <2>5, <2>6, <2>7 DEF PersistenceNext
<1>3. QED
    BY <1>1, <1>2, PTL DEF PersistenceSpec, Inv

\* The files this code writes: save_learned_parameters always writes the
\* "metadata" key, so only an outside record can lack it.
OwnFile(f) == f.kind # "no_metadata"

\* When the first start finds no record without "metadata" (no file, a torn
\* one, or one this code wrote), the learned maps and the counters in
\* memory always come from the same record, across any loads, saves and
\* crashes.  The load_atomic run shows that the hypothesis is needed: a
\* foreign record leaves the maps restored and the counters reset.
THEOREM RecordConsistentCorrect ==
    ASSUME \A f \in InitialFiles : OwnFile(f)
    PROVE  PersistenceSpec => []RecordConsistent
<1> DEFINE Inv == PersistenceTypeOK /\ RecordConsistent /\ OwnFile(file)
<1>1. PersistenceInit => Inv
    BY DEF Inv, PersistenceInit, PersistenceTypeOK, RecordConsistent, Progress
<1>2. Inv /\ [PersistenceNext]_persistence_vars => Inv'
    <2> SUFFICES ASSUME PersistenceTypeOK, RecordConsistent, OwnFile(file),
                        [PersistenceNext]_persistence_vars
                 PROVE  PersistenceTypeOK' /\ RecordConsistent' /\ OwnFile(file')
        BY DEF Inv
    <2>1. PersistenceTypeOK'
        BY TypeStep
    <2> SUFFICES RecordConsistent' /\ OwnFile(file')
        BY <2>1
    <2>2. CASE Start
        BY <2>2 DEF Start, LoadLearnedParameters, RecordConsistent, OwnFile
    <2>3. CASE Learn
        BY <2>3 DEF Learn, RecordConsistent, OwnFile
    <2>4. CASE SaveOpen
        BY <2>4 DEF SaveOpen, RecordConsistent, OwnFile, Torn
    <2>5. CASE SaveDump
        BY <2>5 DEF SaveDump, RecordConsistent, OwnFile
    <2>6. CASE Exit \/ Crash
        BY <2>6 DEF Exit, Crash, RecordConsistent, OwnFile
    <2>7. CASE UNCHANGED persistence_vars
        BY <2>7 DEF persistence_vars, RecordConsistent, OwnFile
    <2>8. QED
        BY <2>2, <2>3, <2>4, <2>5, <2>6, <2>7 DEF PersistenceNext
<1>3. QED
    BY <1>1, <1>2, PTL DEF PersistenceSpec, Inv
=============================================================================
