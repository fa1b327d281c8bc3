------------------------- MODULE LearnerPersistence -------------------------
(***************************************************************************)
(* save_learned_parameters and load_learned_parameters of                  *)
(* src/src/edge_ai/incremental_learner.py across process lifetimes.         *)
(*                                                                         *)
(* The learned record is abstracted to how far it got: maps is the         *)
(* progress of feature_weights, anomaly_thresholds and pattern_clusters,   *)
(* counters that of update_count and total_samples; one learning step     *)
(* advances both.  The file is absent, torn (invalid JSON), a complete     *)
(* record, or a valid record without "metadata" (one this code does not    *)
(* write, but may find on disk).  A save is synchronous, so no other task  *)
(* runs inside it; only the death of the process can come between          *)
(* open(filepath, 'w'), which truncates, and the end of json.dump.         *)
(***************************************************************************)
EXTENDS Naturals

CONSTANTS
    MaxLearned,     \* bound on learning steps of the whole history
    MaxCrashes,     \* bound on the process deaths
    InitialFiles    \* what the parameters file may hold at the first start

Progress == 0..MaxLearned

Files == [kind : {"absent", "torn"}, v : {0}]
         \cup [kind : {"complete", "no_metadata"}, v : Progress]

Absent == [kind |-> "absent", v |-> 0]
Torn == [kind |-> "torn", v |-> 0]

ASSUME PersistenceAssumption ==
    /\ MaxLearned \in Nat /\ MaxCrashes \in Nat
    /\ InitialFiles \subseteq Files /\ InitialFiles # {}

VARIABLES
    status,         \* "down", "running", or "saving" (inside a save)
    maps,           \* progress of the learned maps in memory
    counters,       \* progress of the counters in memory
    file,           \* the content of learned_params.json
    last_saved,     \* progress written by the last completed save
    crashes         \* process deaths so far

persistence_vars == <<status, maps, counters, file, last_saved, crashes>>

PersistenceTypeOK ==
    /\ status \in {"down", "running", "saving"}
    /\ maps \in Progress /\ counters \in Progress
    /\ file \in Files
    /\ last_saved \in Progress
    /\ crashes \in 0..MaxCrashes

\* Before the first start.
PersistenceInit ==
    /\ status = "down"
    /\ maps = 0 /\ counters = 0
    /\ file \in InitialFiles
    /\ last_saved = 0
    /\ crashes = 0

\* Mutant: a start that never finds the file and always starts fresh.
LoadNothing(f) == <<0, 0>>

\* Mutant: a load that does not restore the counters from "metadata".
LoadNoMetadata(f) ==
    CASE f.kind \in {"complete", "no_metadata"} -> <<f.v, 0>>
      [] OTHER -> <<0, 0>>

\* A new process: a fresh IncrementalLearner, then start() calls
\* load_learned_parameters if the file exists.  json.load of a torn file
\* raises before any field is assigned; a record without "metadata"
\* raises KeyError after the three maps were assigned; either way the
\* exception is caught and load returns False.  The result is the pair
\* <<maps, counters>> the learner holds afterwards.
LoadLearnedParameters(f) ==
    CASE f.kind = "complete"    -> <<f.v, f.v>>
      [] f.kind = "no_metadata" -> <<f.v, 0>>
      [] OTHER                  -> <<0, 0>>

Start ==
    /\ status = "down"
    /\ status' = "running"
    /\ maps' = LoadLearnedParameters(file)[1]
    /\ counters' = LoadLearnedParameters(file)[2]
    /\ UNCHANGED <<file, last_saved, crashes>>

\* An update pass advances the learned maps and the counters together.
Learn ==
    /\ status = "running"
    /\ maps < MaxLearned /\ counters < MaxLearned
    /\ maps' = maps + 1 /\ counters' = counters + 1
    /\ UNCHANGED <<status, file, last_saved, crashes>>

\* save_learned_parameters (from _periodic_save or stop()): open(.., 'w')
\* truncates the file ...
SaveOpen ==
    /\ status = "running"
    /\ status' = "saving"
    /\ file' = Torn
    /\ UNCHANGED <<maps, counters, last_saved, crashes>>

\* ... and json.dump writes the whole record.
SaveDump ==
    /\ status = "saving"
    /\ status' = "running"
    /\ file' = [kind |-> "complete", v |-> maps]
    /\ last_saved' = maps
    /\ UNCHANGED <<maps, counters, crashes>>

\* The process ends after stop(), whose last step saved the learner.
Exit ==
    /\ status = "running"
    /\ file = [kind |-> "complete", v |-> maps]
    /\ status' = "down"
    /\ UNCHANGED <<maps, counters, file, last_saved, crashes>>

\* The process dies: power loss, kill, out of memory; a save in progress
\* leaves the file torn.
Crash ==
    /\ status \in {"running", "saving"}
    /\ crashes < MaxCrashes
    /\ status' = "down"
    /\ crashes' = crashes + 1
    /\ UNCHANGED <<maps, counters, file, last_saved>>

PersistenceNext == Start \/ Learn \/ SaveOpen \/ SaveDump \/ Exit \/ Crash

PersistenceSpec == PersistenceInit /\ [][PersistenceNext]_persistence_vars

-----------------------------------------------------------------------------
\* A running learner is never behind the record it last wrote or loaded:
\* whatever saves, exits and crashes came before, the file never holds
\* progress the learner in memory has not reached.
MemoryNotBehindDisk ==
    status # "down" /\ file.kind = "complete" => file.v <= maps

\* The in-memory record is one record: the learned maps and the counters
\* saved with them come from the same state (spec.md 3: persisted and
\* restored as one atomic record).
RecordConsistent == maps = counters

\* What a completed save wrote survives the death of the process (spec.md
\* 4.3: save writes the record atomically).
SavedStateSurvives == status = "running" => maps >= last_saved
=============================================================================
