--------------------------- MODULE AbstractLearner ---------------------------
(***************************************************************************)
(* What IncrementalLearner promises its callers, without the mechanics of  *)
(* an update pass: add_experience keeps the newest memory_size             *)
(* experiences; once that buffer holds update_threshold of them (and at    *)
(* least two) every add runs exactly one update pass; a pass only adds to  *)
(* what was learned (weights, bands and clusters are never forgotten) and  *)
(* only learns about sensors whose experiences the buffer holds.           *)
(***************************************************************************)
EXTENDS Naturals, Sequences

CONSTANTS Sensors, MemorySize, UpdateThreshold, MaxLen, MaxSamples

VARIABLES
    buffer,         \* the experiences kept, oldest first
    samples,        \* experiences added so far
    passes,         \* update passes run so far (completed or raising)
    weighted,       \* keys that have a feature weight
    banded,         \* keys that have an anomaly band
    clustered       \* sensors that have pattern clusters

abstract_vars == <<buffer, samples, passes, weighted, banded, clustered>>

Item == [sensor_id : Sensors, len : 1..MaxLen]
FeatureKey == Sensors \X (1..MaxLen)

\* The newest MemorySize entries of q.
Newest(q) ==
    IF Len(q) > MemorySize THEN SubSeq(q, Len(q) - MemorySize + 1, Len(q)) ELSE q

\* A buffer of this size makes add_experience run a pass.
PassDue(q) == Len(q) >= UpdateThreshold /\ Len(q) >= 2

\* The sensors that have an experience in q.
Present(q) == {q[i].sensor_id : i \in 1..Len(q)}

\* From S to S2 something may be learned, about the sensors of q only.
LearnsFrom(S, S2, q) ==
    /\ S \subseteq S2
    /\ \A k \in S2 \ S : k[1] \in Present(q)

AbstractInit ==
    /\ buffer = <<>>
    /\ samples = 0
    /\ passes = 0
    /\ weighted = {} /\ banded = {}
    /\ clustered = {}

Add(e) ==
    /\ samples < MaxSamples
    /\ buffer' = Newest(Append(buffer, e))
    /\ samples' = samples + 1
    /\ IF PassDue(buffer')
       THEN /\ passes' = passes + 1
            /\ weighted' \subseteq FeatureKey /\ LearnsFrom(weighted, weighted', buffer')
            /\ banded' \subseteq FeatureKey /\ LearnsFrom(banded, banded', buffer')
            /\ clustered \subseteq clustered'
            /\ clustered' \subseteq clustered \cup Present(buffer')
       ELSE UNCHANGED <<passes, weighted, banded, clustered>>

AbstractNext ==
    \/ \E e \in Item : Add(e)
    \/ samples = MaxSamples /\ UNCHANGED abstract_vars

AbstractSpec == AbstractInit /\ [][AbstractNext]_abstract_vars
=============================================================================
