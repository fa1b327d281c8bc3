-------------------------- MODULE LearningPipeline --------------------------
(***************************************************************************)
(* The learning path of EdgeAISystem (src/src/edge_ai/edge_ai_system.py):  *)
(* every reading a sensor produces is passed to the _on_sensor_data        *)
(* callback, which runs the preprocessor and feeds the resulting feature   *)
(* vector to the learner.  The callback contains no await, so under        *)
(* asyncio one reading's whole callback is one atomic step; the sensors'   *)
(* loops interleave between readings.  detect_anomaly only reads the       *)
(* learned bands and prints, so it changes no state.                       *)
(***************************************************************************)
EXTENDS IncrementalLearner

CONSTANTS
    SensorType,     \* SensorType[s]: the type of sensor s
    WindowSize      \* window_size of the system's SensorPreprocessor

VARIABLE feature_windows

Pre == INSTANCE SensorPreprocessor

ASSUME PipelineAssumption ==
    /\ \A s \in Sensors : SensorType[s] \in Pre!SensorTypes
    /\ WindowSize \in Nat \ {0}
    /\ \A s \in Sensors, n \in 0..WindowSize :
        Pre!FeatureLength(SensorType[s], n) \in 1..MaxLen

vars == <<learner_vars, feature_windows>>

TypeOK == LearnerTypeOK /\ Pre!PreTypeOK

Init == LearnerInit /\ Pre!PreInit

\* _on_sensor_data(reading) for a reading of sensor s: process_reading,
\* then (the features are never None for the simulated sensors)
\* detect_anomaly, which changes nothing, then add_experience.
OnSensorData(s) ==
    /\ Pre!ProcessReading(s)
    /\ AddExperience(s, Pre!ProducedLength(s))

\* The model's bound on readings is reached: the loops would go on.
Bounded == total_samples = MaxSamples /\ UNCHANGED vars

Next == (\E s \in Sensors : OnSensorData(s)) \/ Bounded

Spec == Init /\ [][Next]_vars

-----------------------------------------------------------------------------
\* Within the experience buffer a sensor's feature vectors never get
\* shorter from older to newer.  The learner's skip-heterogeneous-groups
\* policy relies on it (spec.md 9): a group that has become homogeneous at
\* its full-window length stays so as the FIFO buffer rolls.
BufferLengthsMonotone ==
    \A i, j \in 1..Len(experience_buffer) :
        /\ i < j
        /\ experience_buffer[i].sensor_id = experience_buffer[j].sensor_id
        => experience_buffer[i].len <= experience_buffer[j].len

\* No buffered feature vector is longer than the one its sensor's window
\* would produce now: windows only fill, and a fuller window never gives a
\* shorter vector.
LengthsBelowWindow ==
    \A i \in 1..Len(experience_buffer) :
        LET s == experience_buffer[i].sensor_id
        IN  experience_buffer[i].len <= Pre!FeatureLength(SensorType[s], feature_windows[s])

\* The inductive strengthening of BufferLengthsMonotone: the newest vector
\* of a sensor is at least as long as every older one because every older
\* one is bounded by the window the newest was produced from.
PipelineInv == TypeOK /\ LengthsBelowWindow /\ BufferLengthsMonotone

=============================================================================
