----------------------- MODULE LearningPipelineProofs -----------------------
(***************************************************************************)
(* Proofs about the learning path of EdgeAISystem (_on_sensor_data:        *)
(* process_reading, then add_experience), for every set of sensors, every  *)
(* window and buffer size and every number of readings: the pipeline is    *)
(* well typed, within the experience buffer a sensor's feature vectors    *)
(* never get shorter from older to newer, and the composed pipeline keeps  *)
(* the learner's pass cadence and implements AbstractLearner.              *)
(*                                                                         *)
(* BufferLengthsMonotone alone is not inductive: whether the vector a      *)
(* reading adds is at least as long as the sensor's older ones depends on  *)
(* the window they came from.  PipelineInv adds LengthsBelowWindow, which  *)
(* bounds every buffered vector by what the sensor's window produces now;  *)
(* it rests on two facts, that a window only fills and that every          *)
(* extractor's output length grows with the window's fill.                 *)
(***************************************************************************)
EXTENDS LearningPipeline, IncrementalLearnerProofs

USE LearnerAssumption, PipelineAssumption

\* Every extractor of process_reading gives a vector at least as long from
\* a fuller window.
LEMMA FeatureLengthMonotone ==
    ASSUME NEW t, NEW n \in Nat, NEW m \in Nat, n <= m
    PROVE  Pre!FeatureLength(t, n) <= Pre!FeatureLength(t, m)
BY DEF Pre!FeatureLength, Pre!TemperatureLength, Pre!MotionLength,
       Pre!AccelerometerLength, Pre!CameraLength, Pre!GenericLength

\* process_reading keeps every window within window_size and never empties
\* one: the deque drops its oldest value only when it is full.
LEMMA WindowsFill ==
    ASSUME Pre!PreTypeOK, NEW s \in Sensors, Pre!ProcessReading(s)
    PROVE  /\ Pre!PreTypeOK'
           /\ \A x \in Sensors : feature_windows[x] <= feature_windows'[x]
BY DEF Pre!PreTypeOK, Pre!ProcessReading

\* deque(maxlen=memory_size).append either keeps every entry or drops the
\* oldest one: the entries of the new buffer are those of the appended
\* sequence from an offset d of 0 or 1 on.
LEMMA EvictShift ==
    ASSUME NEW q \in Seq(Experience), NEW e \in Experience
    PROVE  \E d \in {0, 1} :
               /\ Len(Evict(Append(q, e))) + d = Len(q) + 1
               /\ \A i \in 1..Len(Evict(Append(q, e))) :
                      Evict(Append(q, e))[i] = Append(q, e)[i + d]
<1>1. Append(q, e) \in Seq(Experience) /\ Len(Append(q, e)) = Len(q) + 1
    BY AppendProperties
<1>2. CASE Len(q) + 1 > MemorySize
    <2>1. /\ Tail(Append(q, e)) \in Seq(Experience)
          /\ Len(Tail(Append(q, e))) = Len(Append(q, e)) - 1
          /\ \A i \in 1..Len(Tail(Append(q, e))) :
                 Tail(Append(q, e))[i] = Append(q, e)[i + 1]
        BY <1>1, HeadTailProperties
    <2>2. Evict(Append(q, e)) = Tail(Append(q, e))
        BY <1>1, <1>2 DEF Evict
    <2>3. QED
        BY <1>1, <2>1, <2>2
<1>3. CASE ~(Len(q) + 1 > MemorySize)
    <2>1. Evict(Append(q, e)) = Append(q, e)
        BY <1>1, <1>3 DEF Evict
    <2>2. QED
        BY <1>1, <2>1
<1>4. QED
    BY <1>2, <1>3

\* The pipeline starts well typed with an empty buffer.
LEMMA InitPipelineInv == Init => PipelineInv
BY DEF Init, LearnerInit, Pre!PreInit, PipelineInv, TypeOK, LearnerTypeOK,
       Pre!PreTypeOK, NoClusters, LengthsBelowWindow, BufferLengthsMonotone

\* One reading's callback keeps the strengthening.
LEMMA OnSensorDataInv ==
    ASSUME PipelineInv, NEW s \in Sensors, OnSensorData(s)
    PROVE  PipelineInv'
<1> DEFINE buf == experience_buffer
           L == Pre!FeatureLength(SensorType[s], feature_windows'[s])
           e == [sensor_id |-> s, len |-> L]
           r == Append(buf, e)
           Bound(x, len) == len <= Pre!FeatureLength(SensorType[x], feature_windows'[x])
<1> USE DEF buf, L, e
<1>1. /\ Pre!PreTypeOK'
      /\ \A x \in Sensors : feature_windows[x] <= feature_windows'[x]
    BY WindowsFill DEF OnSensorData, PipelineInv, TypeOK
<1>2. /\ buf \in Seq(Experience)
      /\ \A x \in Sensors : feature_windows[x] \in 0..WindowSize
      /\ \A x \in Sensors : feature_windows'[x] \in 0..WindowSize
    BY <1>1 DEF PipelineInv, TypeOK, LearnerTypeOK, Pre!PreTypeOK
<1>3. L \in 1..MaxLen /\ e \in Experience
    BY <1>2 DEF Experience
<1>4. AddExperience(s, L)
    BY DEF OnSensorData, Pre!ProducedLength
<1>5. TypeOK'
    BY <1>1, <1>3, <1>4, AddExperienceType DEF PipelineInv, TypeOK
<1>6. experience_buffer' = Evict(r)
    BY <1>4 DEF AddExperience
<1>7. /\ r \in Seq(Experience) /\ Len(r) = Len(buf) + 1
      /\ \A k \in 1..Len(buf) : r[k] = buf[k]
      /\ r[Len(buf) + 1] = e
    BY <1>2, <1>3, AppendProperties
\* Every older vector is bounded by its sensor's window after the reading.
<1>8. \A k \in 1..Len(buf) : Bound(buf[k].sensor_id, buf[k].len)
    <2> TAKE k \in 1..Len(buf)
    <2>1. buf[k] \in Experience
        BY <1>2, ElementOfSeq
    <2> DEFINE x == buf[k].sensor_id
    <2> USE DEF x
    <2>2. x \in Sensors /\ buf[k].len \in Nat
        BY <2>1 DEF Experience
    <2>3. buf[k].len <= Pre!FeatureLength(SensorType[x], feature_windows[x])
        BY DEF PipelineInv, LengthsBelowWindow
    <2>4. Pre!FeatureLength(SensorType[x], feature_windows[x])
              <= Pre!FeatureLength(SensorType[x], feature_windows'[x])
        BY <1>1, <1>2, <2>2, FeatureLengthMonotone
    <2>5. /\ Pre!FeatureLength(SensorType[x], feature_windows[x]) \in 1..MaxLen
          /\ Pre!FeatureLength(SensorType[x], feature_windows'[x]) \in 1..MaxLen
        <3>1. feature_windows[x] \in 0..WindowSize /\ feature_windows'[x] \in 0..WindowSize
            BY <1>2, <2>2
        <3>2. \A n \in 0..WindowSize : Pre!FeatureLength(SensorType[x], n) \in 1..MaxLen
            BY <2>2, PipelineAssumption
        <3>3. QED
            BY <3>1, <3>2
    <2>6. QED
        BY <2>2, <2>3, <2>4, <2>5 DEF Bound
<1>9. \A k \in 1..Len(r) : Bound(r[k].sensor_id, r[k].len)
    <2> TAKE k \in 1..Len(r)
    <2>1. CASE k \in 1..Len(buf)
        BY <1>7, <1>8, <2>1
    <2>2. CASE k = Len(buf) + 1
        BY <1>3, <1>7, <2>2 DEF Bound
    <2>3. QED
        BY <1>7, <2>1, <2>2
<1>10. \A i, j \in 1..Len(r) :
           i < j /\ r[i].sensor_id = r[j].sensor_id => r[i].len <= r[j].len
    <2> TAKE i, j \in 1..Len(r)
    <2> HAVE i < j /\ r[i].sensor_id = r[j].sensor_id
    <2>1. CASE j <= Len(buf)
        BY <1>7, <2>1 DEF PipelineInv, BufferLengthsMonotone
    <2>2. CASE j = Len(buf) + 1
        <3>1. r[i] = buf[i] /\ r[j] = e /\ i \in 1..Len(buf)
            BY <1>7, <2>2
        <3>2. buf[i].sensor_id = s
            BY <3>1
        <3>3. Bound(s, buf[i].len)
            BY <1>8, <3>1, <3>2
        <3>4. QED
            BY <3>1, <3>3 DEF Bound
    <2>3. QED
        BY <1>7, <2>1, <2>2
<1>11. PICK d \in {0, 1} :
           /\ Len(Evict(r)) + d = Len(r)
           /\ \A i \in 1..Len(Evict(r)) : Evict(r)[i] = r[i + d]
    <2>1. \E dd \in {0, 1} :
              /\ Len(Evict(Append(buf, e))) + dd = Len(buf) + 1
              /\ \A i \in 1..Len(Evict(Append(buf, e))) :
                     Evict(Append(buf, e))[i] = Append(buf, e)[i + dd]
        BY <1>2, <1>3, EvictShift
    <2>2. QED
        BY <1>7, <2>1 DEF r
<1>15. Evict(r) \in Seq(Experience)
    BY <1>2, <1>3, EvictAppendType DEF r, PipelineInv, TypeOK, LearnerTypeOK
<1>12. LengthsBelowWindow'
    <2> SUFFICES ASSUME NEW k \in 1..Len(Evict(r))
                 PROVE  Bound(Evict(r)[k].sensor_id, Evict(r)[k].len)
        BY <1>6 DEF LengthsBelowWindow, Bound
    <2>1. k + d \in 1..Len(r) /\ Evict(r)[k] = r[k + d]
        BY <1>7, <1>11, <1>15
    <2>2. QED
        BY <1>9, <2>1
<1>13. BufferLengthsMonotone'
    <2> SUFFICES ASSUME NEW i \in 1..Len(Evict(r)), NEW j \in 1..Len(Evict(r)),
                        i < j, Evict(r)[i].sensor_id = Evict(r)[j].sensor_id
                 PROVE  Evict(r)[i].len <= Evict(r)[j].len
        BY <1>6 DEF BufferLengthsMonotone
    <2>0. Len(Evict(r)) \in Nat /\ Len(r) \in Nat
        BY <1>7, <1>15
    <2>1. /\ i + d \in 1..Len(r) /\ j + d \in 1..Len(r) /\ i + d < j + d
          /\ Evict(r)[i] = r[i + d] /\ Evict(r)[j] = r[j + d]
        <3>1. i + d \in 1..Len(r) /\ j + d \in 1..Len(r) /\ i + d < j + d
            BY <1>11, <2>0
        <3>2. Evict(r)[i] = r[i + d] /\ Evict(r)[j] = r[j + d]
            BY <1>11
        <3>3. QED
            BY <3>1, <3>2
    <2>2. QED
        BY <1>10, <2>1
<1>14. QED
    BY <1>5, <1>12, <1>13 DEF PipelineInv

\* Every step of the pipeline keeps the strengthening.
LEMMA PipelineInvStep ==
    ASSUME PipelineInv, [Next]_vars
    PROVE  PipelineInv'
<1>1. CASE \E s \in Sensors : OnSensorData(s)
    BY <1>1, OnSensorDataInv
<1>2. CASE Bounded \/ UNCHANGED vars
    <2>1. UNCHANGED <<learner_vars, feature_windows>>
        BY <1>2 DEF Bounded, vars
    <2>2. QED
        BY <2>1 DEF learner_vars, PipelineInv, TypeOK, LearnerTypeOK,
                    Pre!PreTypeOK, LengthsBelowWindow, BufferLengthsMonotone
<1>3. QED
    BY <1>1, <1>2 DEF Next

\* Whatever the interleaving of the sensors' readings, the pipeline's
\* state is well typed: the learner's, and every preprocessor window
\* within window_size.
THEOREM PipelineTypeCorrect == Spec => []TypeOK
<1>1. PipelineInv => TypeOK
    BY DEF PipelineInv
<1>2. QED
    BY <1>1, InitPipelineInv, PipelineInvStep, PTL DEF Spec

\* Within the experience buffer a sensor's feature vectors never get
\* shorter from older to newer, whatever the interleaving of the sensors'
\* readings and the window and buffer sizes: the fact the learner's
\* skip-heterogeneous-groups policy relies on.
THEOREM BufferLengthsMonotoneCorrect == Spec => []BufferLengthsMonotone
<1>1. PipelineInv => BufferLengthsMonotone
    BY DEF PipelineInv
<1>2. QED
    BY <1>1, InitPipelineInv, PipelineInvStep, PTL DEF Spec

\* Every state the sensors' readings reach, in any interleaving and for
\* any window and buffer size, satisfies PipelineInv: the state is well
\* typed, every preprocessor window stays within window_size and every
\* sensor's vectors in the experience buffer keep non-decreasing lengths.
THEOREM PipelineInvCorrect == Spec => []PipelineInv
BY InitPipelineInv, PipelineInvStep, PTL DEF Spec

-----------------------------------------------------------------------------
(* The composed pipeline and the learner's contract.                       *)

\* One reading's callback is an add_experience of a vector whose length
\* the learner accepts: the one process_reading's filled window gives.
LEMMA OnSensorDataAdds ==
    ASSUME TypeOK, NEW s \in Sensors, OnSensorData(s)
    PROVE  \E L \in 1..MaxLen : AddExperience(s, L)
<1>1. Pre!PreTypeOK'
    BY WindowsFill DEF OnSensorData, TypeOK
<1>2. feature_windows'[s] \in 0..WindowSize
    BY <1>1 DEF Pre!PreTypeOK
<1>3. QED
    BY <1>2 DEF OnSensorData, Pre!ProducedLength

\* The pipeline, sensors and preprocessor included, implements the
\* AbstractLearner contract under the refinement mapping AL: every
\* reading's callback is an abstract Add of the vector process_reading
\* produced, and the model's bound on readings is a stutter.
THEOREM PipelineRefinement == Spec => ImplementsAbstractLearner
<1>1. Init => AL!AbstractInit
    BY DEF Init, LearnerInit, AL!AbstractInit, NoClusters
<1>2. TypeOK /\ [Next]_vars => [AL!AbstractNext]_AL!abstract_vars
    <2> SUFFICES ASSUME TypeOK, [Next]_vars
                 PROVE  [AL!AbstractNext]_AL!abstract_vars
        OBVIOUS
    <2>1. CASE \E s \in Sensors : OnSensorData(s)
        <3>1. PICK s \in Sensors : OnSensorData(s)
            BY <2>1
        <3>2. PICK L \in 1..MaxLen : AddExperience(s, L)
            BY <3>1, OnSensorDataAdds
        <3>3. AL!Add([sensor_id |-> s, len |-> L])
            BY <3>2, AddExperienceRefines DEF TypeOK
        <3>4. [sensor_id |-> s, len |-> L] \in AL!Item
            BY DEF AL!Item
        <3>5. QED
            BY <3>3, <3>4 DEF AL!AbstractNext
    <2>2. CASE Bounded \/ UNCHANGED vars
        BY <2>2 DEF Bounded, vars, learner_vars, AL!abstract_vars
    <2>3. QED
        BY <2>1, <2>2 DEF Next
<1>3. QED
    BY <1>1, <1>2, PipelineTypeCorrect, PTL
       DEF Spec, ImplementsAbstractLearner, AL!AbstractSpec

\* Every step of the pipeline keeps the learner's count of passes.
LEMMA PipelineUpdateCountStep ==
    ASSUME TypeOK, UpdateCountInv, [Next]_vars
    PROVE  UpdateCountInv'
<1>1. CASE \E s \in Sensors : OnSensorData(s)
    <2>1. PICK s \in Sensors : OnSensorData(s)
        BY <1>1
    <2>2. PICK L \in 1..MaxLen : AddExperience(s, L)
        BY <2>1, OnSensorDataAdds
    <2>3. QED
        BY <2>2, AddExperienceCount
<1>2. CASE Bounded \/ UNCHANGED vars
    BY <1>2 DEF Bounded, vars, learner_vars, UpdateCountInv, LearnerTypeOK,
                BufferFill, UpdateCountFormula
<1>3. QED
    BY <1>1, <1>2 DEF Next

\* However the sensors' readings interleave, update_count +
\* failed_updates equals the adds made once the buffer held
\* max(update_threshold, 2) experiences: the cadence of _incremental_update
\* holds in the running system, not only for a learner fed directly.
THEOREM PipelineUpdateCadence == Spec => []UpdateCountFormula
<1>1. Init => UpdateCountInv
    BY DEF Init, LearnerInit, UpdateCountInv, LearnerTypeOK, NoClusters,
           BufferFill, UpdateCountFormula, PassesAfter, Widest
<1>2. UpdateCountInv => UpdateCountFormula
    BY DEF UpdateCountInv
<1>3. QED
    BY <1>1, <1>2, PipelineUpdateCountStep, PipelineTypeCorrect, PTL DEF Spec
=============================================================================
