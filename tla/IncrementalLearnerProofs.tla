---------------------- MODULE IncrementalLearnerProofs ----------------------
(***************************************************************************)
(* Proofs about the IncrementalLearner: type correctness of every learner  *)
(* step, and the cadence of update passes (UpdateCountFormula) for every   *)
(* value of the constants.                                                 *)
(***************************************************************************)
EXTENDS IncrementalLearner, SequenceTheorems, TLAPS

USE LearnerAssumption

-----------------------------------------------------------------------------
(* Lemmas on the operators an update pass is built from.                   *)

\* Every entry of a buffer carries a sensor and a length.
LEMMA BufferEntry ==
    ASSUME NEW b \in Seq(Experience), NEW i \in 1..Len(b)
    PROVE  b[i].sensor_id \in Sensors /\ b[i].len \in 1..MaxLen
<1>1. b[i] \in Experience
    BY ElementOfSeq
<1>2. QED
    BY <1>1 DEF Experience

\* The sensors present in a buffer are sensors.
LEMMA GroupedSensorsType ==
    ASSUME NEW b \in Seq(Experience)
    PROVE  GroupedSensors(b) \subseteq Sensors
BY BufferEntry DEF GroupedSensors

\* A sensor present in the buffer has a group length that is a length.
LEMMA GroupLenType ==
    ASSUME NEW b \in Seq(Experience), NEW s \in GroupedSensors(b)
    PROVE  GroupLen(b, s) \in 1..MaxLen
<1>1. SensorGroup(b, s) # {}
    BY DEF GroupedSensors, SensorGroup
<1>2. (CHOOSE i \in SensorGroup(b, s) : TRUE) \in 1..Len(b)
    BY <1>1 DEF SensorGroup
<1>3. QED
    BY <1>2, BufferEntry DEF GroupLen

\* The keys learned from sensors of the buffer are keys.
LEMMA LearnedKeysType ==
    ASSUME NEW b \in Seq(Experience), NEW S \in SUBSET GroupedSensors(b)
    PROVE  LearnedKeys(b, S) \subseteq Key
<1>1. GroupedSensors(b) \subseteq Sensors
    BY GroupedSensorsType
<1>2. \A s \in S : GroupLen(b, s) \in 1..MaxLen
    BY GroupLenType
<1>3. QED
    BY <1>1, <1>2 DEF LearnedKeys, FeatureKeys, Key

\* The centroids a pass starts from are a sequence of dimensions.
LEMMA CentroidsType ==
    ASSUME NEW b \in Seq(Experience), NEW s \in GroupedSensors(b),
           pattern_clusters \in [Sensors -> Seq(1..MaxLen)]
    PROVE  Centroids(b, s) \in Seq(1..MaxLen)
<1>1. s \in Sensors
    BY GroupedSensorsType
<1>2. GroupLen(b, s) \in 1..MaxLen
    BY GroupLenType
<1>3. [j \in 1..MaxClusters |-> GroupLen(b, s)] \in Seq(1..MaxLen)
    BY <1>2, IsASeq
<1>4. QED
    BY <1>1, <1>3 DEF Centroids

\* Re-centring keeps a sequence of dimensions.
LEMMA RecentredType ==
    ASSUME NEW b \in Seq(Experience), NEW s \in GroupedSensors(b), NEW moved,
           pattern_clusters \in [Sensors -> Seq(1..MaxLen)]
    PROVE  Recentred(b, s, moved) \in Seq(1..MaxLen)
<1> DEFINE c == Centroids(b, s)
           L == GroupLen(b, s)
<1>1. c \in Seq(1..MaxLen) /\ L \in 1..MaxLen
    BY CentroidsType, GroupLenType
<1>2. \A j \in 1..Len(c) : (IF <<s, j>> \in moved THEN Widest(c[j], L) ELSE c[j]) \in 1..MaxLen
    BY <1>1 DEF Widest
<1>3. QED
    BY <1>1, <1>2, IsASeq DEF Recentred

\* The buffer after an append and an eviction.
LEMMA EvictAppendType ==
    ASSUME NEW q \in Seq(Experience), Len(q) <= MemorySize,
           NEW e \in Experience
    PROVE  /\ Evict(Append(q, e)) \in Seq(Experience)
           /\ Len(Evict(Append(q, e))) <= MemorySize
           /\ Len(Evict(Append(q, e))) = IF Len(q) + 1 > MemorySize THEN Len(q) ELSE Len(q) + 1
<1>1. Append(q, e) \in Seq(Experience) /\ Len(Append(q, e)) = Len(q) + 1
    BY AppendProperties
<1>2. CASE Len(q) + 1 > MemorySize
    <2>1. Append(q, e) # <<>>
        BY <1>1
    <2>2. Tail(Append(q, e)) \in Seq(Experience) /\ Len(Tail(Append(q, e))) = Len(q)
        BY <1>1, <2>1, HeadTailProperties
    <2>3. QED
        BY <1>1, <1>2, <2>2 DEF Evict
<1>3. CASE ~(Len(q) + 1 > MemorySize)
    BY <1>1, <1>3 DEF Evict
<1>4. QED
    BY <1>2, <1>3

-----------------------------------------------------------------------------
(* Type correctness.                                                       *)

\* A step of an update pass over a well-typed buffer keeps the learned
\* state well typed.
LEMMA IncrementalUpdateType ==
    ASSUME LearnerTypeOK, NEW b \in Seq(Experience), IncrementalUpdate(b)
    PROVE  /\ feature_weights' \subseteq Key
           /\ anomaly_thresholds' \subseteq Key
           /\ pattern_clusters' \in [Sensors -> Seq(1..MaxLen)]
           /\ update_count' \in Nat
           /\ failed_updates' \in Nat
<1>1. CASE Len(b) < 2
    BY <1>1 DEF IncrementalUpdate, LearnerTypeOK
<1>2. CASE ~(Len(b) < 2)
    <2>1. UpdateFeatureWeights(b) /\ UpdateAnomalyThresholds(b) /\ UpdatePatternClusters(b)
        BY <1>2 DEF IncrementalUpdate
    <2>2. feature_weights' \subseteq Key
        <3>1. PICK inf \in SUBSET Eligible(b, 2) :
                  feature_weights' = feature_weights \cup LearnedKeys(b, inf)
            BY <2>1 DEF UpdateFeatureWeights
        <3>2. inf \subseteq GroupedSensors(b)
            BY DEF Eligible
        <3>3. QED
            BY <3>1, <3>2, LearnedKeysType DEF LearnerTypeOK
    <2>3. anomaly_thresholds' \subseteq Key
        <3>1. Eligible(b, ThresholdMinSamples) \subseteq GroupedSensors(b)
            BY DEF Eligible
        <3>2. QED
            BY <2>1, <3>1, LearnedKeysType DEF UpdateAnomalyThresholds, LearnerTypeOK
    <2>4. pattern_clusters' \in [Sensors -> Seq(1..MaxLen)]
        <3>1. PICK moved \in SUBSET Reshapable(b) :
                  pattern_clusters' =
                      [s \in Sensors |-> IF s \in Reached(b) THEN Recentred(b, s, moved)
                                                             ELSE pattern_clusters[s]]
            BY <2>1 DEF UpdatePatternClusters
        <3>2. Reached(b) \subseteq GroupedSensors(b)
            BY DEF Reached, ClusterSensors, Eligible
        <3>3. \A s \in Reached(b) : Recentred(b, s, moved) \in Seq(1..MaxLen)
            BY <3>2, RecentredType DEF LearnerTypeOK
        <3>4. QED
            BY <3>1, <3>3 DEF LearnerTypeOK
    <2>5. update_count' \in Nat /\ failed_updates' \in Nat
        BY <1>2 DEF IncrementalUpdate, LearnerTypeOK
    <2>6. QED
        BY <2>2, <2>3, <2>4, <2>5
<1>3. QED
    BY <1>1, <1>2

\* add_experience keeps the learner well typed.
LEMMA AddExperienceType ==
    ASSUME LearnerTypeOK, NEW s \in Sensors, NEW L \in 1..MaxLen, AddExperience(s, L)
    PROVE  LearnerTypeOK'
<1> DEFINE e == [sensor_id |-> s, len |-> L]
           b == Evict(Append(experience_buffer, e))
<1>1. e \in Experience
    BY DEF Experience
<1>2. b \in Seq(Experience) /\ Len(b) <= MemorySize
    BY <1>1, EvictAppendType DEF LearnerTypeOK
<1>3. experience_buffer' = b /\ total_samples' = total_samples + 1
      /\ total_samples < MaxSamples
    BY DEF AddExperience
<1>4. /\ feature_weights' \subseteq Key
      /\ anomaly_thresholds' \subseteq Key
      /\ pattern_clusters' \in [Sensors -> Seq(1..MaxLen)]
      /\ update_count' \in Nat
      /\ failed_updates' \in Nat
    <2>1. CASE Len(b) >= UpdateThreshold
        <3>1. IncrementalUpdate(b)
            BY <2>1 DEF AddExperience
        <3>2. QED
            BY <1>2, <3>1, IncrementalUpdateType
    <2>2. CASE ~(Len(b) >= UpdateThreshold)
        BY <2>2 DEF AddExperience, LearnerTypeOK
    <2>3. QED
        BY <2>1, <2>2
<1>5. QED
    BY <1>2, <1>3, <1>4 DEF LearnerTypeOK

\* The learner's state is well typed in every reachable state.
THEOREM LearnerTypeCorrect == LearnerSpec => []LearnerTypeOK
<1>1. LearnerInit => LearnerTypeOK
    BY DEF LearnerInit, LearnerTypeOK, NoClusters
<1>2. LearnerTypeOK /\ [LearnerNext]_learner_vars => LearnerTypeOK'
    <2> SUFFICES ASSUME LearnerTypeOK, [LearnerNext]_learner_vars
                 PROVE  LearnerTypeOK'
        OBVIOUS
    <2>1. CASE \E s \in Sensors, L \in 1..MaxLen : AddExperience(s, L)
        BY <2>1, AddExperienceType
    <2>2. CASE total_samples = MaxSamples /\ UNCHANGED learner_vars
        BY <2>2 DEF LearnerTypeOK, learner_vars
    <2>3. CASE UNCHANGED learner_vars
        BY <2>3 DEF LearnerTypeOK, learner_vars
    <2>4. QED
        BY <2>1, <2>2, <2>3 DEF LearnerNext
<1>3. QED
    BY <1>1, <1>2, PTL DEF LearnerSpec

-----------------------------------------------------------------------------
(* The cadence of update passes.                                           *)

\* A pass over a buffer of at least two entries ends in exactly one of
\* update_count += 1 and a raised ValueError; a shorter one returns early.
LEMMA IncrementalUpdateCount ==
    ASSUME LearnerTypeOK, NEW b \in Seq(Experience), IncrementalUpdate(b)
    PROVE  update_count' + failed_updates' =
               IF Len(b) < 2 THEN update_count + failed_updates
                             ELSE update_count + failed_updates + 1
<1>1. CASE Len(b) < 2
    BY <1>1 DEF IncrementalUpdate
<1>2. CASE ~(Len(b) < 2)
    <2>1. \/ update_count' = update_count + 1 /\ failed_updates' = failed_updates
          \/ failed_updates' = failed_updates + 1 /\ update_count' = update_count
        BY <1>2 DEF IncrementalUpdate
    <2>2. QED
        BY <1>2, <2>1 DEF LearnerTypeOK
<1>3. QED
    BY <1>1, <1>2

\* add_experience preserves the strengthened cadence invariant.
LEMMA AddExperienceCount ==
    ASSUME UpdateCountInv, NEW s \in Sensors, NEW L \in 1..MaxLen, AddExperience(s, L)
    PROVE  UpdateCountInv'
<1> DEFINE e == [sensor_id |-> s, len |-> L]
           b == Evict(Append(experience_buffer, e))
           t == total_samples
           first == Widest(UpdateThreshold, 2)
<1>1. LearnerTypeOK'
    BY AddExperienceType DEF UpdateCountInv
<1>2. e \in Experience
    BY DEF Experience
<1>3. /\ b \in Seq(Experience)
      /\ Len(b) = IF t + 1 <= MemorySize THEN t + 1 ELSE MemorySize
    <2>1. /\ experience_buffer \in Seq(Experience)
          /\ Len(experience_buffer) <= MemorySize
          /\ Len(experience_buffer) = IF t <= MemorySize THEN t ELSE MemorySize
          /\ t \in Nat
        BY DEF UpdateCountInv, LearnerTypeOK, BufferFill
    <2>2. /\ b \in Seq(Experience)
          /\ Len(b) = IF Len(experience_buffer) + 1 > MemorySize
                      THEN Len(experience_buffer) ELSE Len(experience_buffer) + 1
        BY <1>2, <2>1, EvictAppendType
    <2>3. QED
        BY <2>1, <2>2
<1>4. experience_buffer' = b /\ total_samples' = t + 1
    BY DEF AddExperience
<1>5. BufferFill'
    BY <1>3, <1>4 DEF BufferFill
<1>6. update_count' + failed_updates' =
          IF Len(b) >= UpdateThreshold /\ ~(Len(b) < 2)
          THEN update_count + failed_updates + 1
          ELSE update_count + failed_updates
    <2>1. CASE Len(b) >= UpdateThreshold
        <3>1. IncrementalUpdate(b)
            BY <2>1 DEF AddExperience
        <3>2. QED
            BY <1>3, <2>1, <3>1, IncrementalUpdateCount DEF UpdateCountInv
    <2>2. CASE ~(Len(b) >= UpdateThreshold)
        BY <2>2 DEF AddExperience
    <2>3. QED
        BY <2>1, <2>2
<1>7. PassesAfter(t + 1) =
          IF Len(b) >= UpdateThreshold /\ ~(Len(b) < 2)
          THEN PassesAfter(t) + 1
          ELSE PassesAfter(t)
    BY <1>3 DEF UpdateCountInv, LearnerTypeOK, PassesAfter, Widest
<1>8. UpdateCountFormula'
    BY <1>4, <1>6, <1>7 DEF UpdateCountInv, UpdateCountFormula
<1>9. QED
    BY <1>1, <1>5, <1>8 DEF UpdateCountInv

\* In every reachable state the buffer holds min(total_samples,
\* memory_size) experiences and the passes run so far are exactly the adds
\* made once it held max(update_threshold, 2): the fill level of the deque
\* is what decides, add by add, whether a pass runs.
THEOREM UpdateCountInvCorrect == LearnerSpec => []UpdateCountInv
<1>1. LearnerInit => UpdateCountInv
    BY DEF LearnerInit, UpdateCountInv, LearnerTypeOK, NoClusters, BufferFill,
           UpdateCountFormula, PassesAfter, Widest
<1>2. UpdateCountInv /\ [LearnerNext]_learner_vars => UpdateCountInv'
    <2> SUFFICES ASSUME UpdateCountInv, [LearnerNext]_learner_vars
                 PROVE  UpdateCountInv'
        OBVIOUS
    <2>1. CASE \E s \in Sensors, L \in 1..MaxLen : AddExperience(s, L)
        BY <2>1, AddExperienceCount
    <2>2. CASE UNCHANGED learner_vars
        BY <2>2 DEF UpdateCountInv, LearnerTypeOK, BufferFill, UpdateCountFormula,
                    learner_vars
    <2>3. QED
        BY <2>1, <2>2 DEF LearnerNext
<1>3. QED
    BY <1>1, <1>2, PTL DEF LearnerSpec

\* Every add_experience once the buffer holds update_threshold (and at
\* least two) experiences runs exactly one update pass, and none runs
\* before: update_count + failed_updates = PassesAfter(total_samples).
THEOREM UpdateCadenceCorrect == LearnerSpec => []UpdateCountFormula
<1>1. UpdateCountInv => UpdateCountFormula
    BY DEF UpdateCountInv
<1>2. QED
    BY <1>1, UpdateCountInvCorrect, PTL

-----------------------------------------------------------------------------
(* The learner implements AbstractLearner.                                 *)

\* deque(maxlen=memory_size).append keeps the newest memory_size entries.
LEMMA EvictIsNewest ==
    ASSUME NEW q \in Seq(Experience), Len(q) <= MemorySize,
           NEW e \in Experience
    PROVE  Evict(Append(q, e)) = AL!Newest(Append(q, e))
<1> DEFINE r == Append(q, e)
<1>1. r \in Seq(Experience) /\ Len(r) = Len(q) + 1
    BY AppendProperties
<1>2. CASE Len(r) > MemorySize
    <2>1. Len(r) - MemorySize + 1 = 2
        BY <1>1, <1>2
    <2>2. Tail(r) = SubSeq(r, 2, Len(r))
        BY <1>1, TailIsSubSeq
    <2>3. QED
        BY <1>2, <2>1, <2>2 DEF Evict, AL!Newest
<1>3. CASE ~(Len(r) > MemorySize)
    BY <1>3 DEF Evict, AL!Newest
<1>4. QED
    BY <1>2, <1>3

\* The keys learned from some sensors of a buffer belong to those sensors.
LEMMA LearnedKeysOwner ==
    ASSUME NEW b \in Seq(Experience), NEW S \in SUBSET GroupedSensors(b)
    PROVE  \A k \in LearnedKeys(b, S) : k[1] \in GroupedSensors(b)
BY DEF LearnedKeys, FeatureKeys

\* The centroids of a sensor the cluster loop finishes are never empty.
LEMMA RecentredNonEmpty ==
    ASSUME NEW b \in Seq(Experience), NEW s \in GroupedSensors(b), NEW moved,
           pattern_clusters \in [Sensors -> Seq(1..MaxLen)]
    PROVE  Recentred(b, s, moved) # NoClusters
<1>1. Centroids(b, s) \in Seq(1..MaxLen)
    BY CentroidsType
<1>2. Len(Centroids(b, s)) >= 1
    <2>1. CASE pattern_clusters[s] = NoClusters
        BY <2>1 DEF Centroids
    <2>2. CASE pattern_clusters[s] # NoClusters
        <3>1. s \in Sensors
            BY GroupedSensorsType
        <3>2. pattern_clusters[s] \in Seq(1..MaxLen)
            BY <3>1
        <3>3. QED
            BY <2>2, <3>2, EmptySeq DEF Centroids, NoClusters
    <2>3. QED
        BY <2>1, <2>2
<1>3. DOMAIN Recentred(b, s, moved) = 1..Len(Centroids(b, s))
    BY DEF Recentred
<1>4. QED
    BY <1>2, <1>3 DEF NoClusters

\* An update pass over a buffer of at least two entries is an abstract
\* pass: it counts once and only learns, about the buffer's sensors.
LEMMA IncrementalUpdateLearns ==
    ASSUME LearnerTypeOK, NEW b \in Seq(Experience), Len(b) >= 2,
           IncrementalUpdate(b)
    PROVE  /\ update_count' + failed_updates' = update_count + failed_updates + 1
           /\ feature_weights' \subseteq AL!FeatureKey
           /\ AL!LearnsFrom(feature_weights, feature_weights', b)
           /\ anomaly_thresholds' \subseteq AL!FeatureKey
           /\ AL!LearnsFrom(anomaly_thresholds, anomaly_thresholds', b)
           /\ {s \in Sensors : pattern_clusters[s] # NoClusters}
                \subseteq {s \in Sensors : pattern_clusters'[s] # NoClusters}
           /\ {s \in Sensors : pattern_clusters'[s] # NoClusters}
                \subseteq {s \in Sensors : pattern_clusters[s] # NoClusters}
                          \cup AL!Present(b)
<1>1. UpdateFeatureWeights(b) /\ UpdateAnomalyThresholds(b) /\ UpdatePatternClusters(b)
    BY DEF IncrementalUpdate
<1>2. update_count' + failed_updates' = update_count + failed_updates + 1
    BY IncrementalUpdateCount
<1>3. AL!Present(b) = GroupedSensors(b)
    BY DEF AL!Present, GroupedSensors
<1>4. /\ feature_weights' \subseteq AL!FeatureKey
      /\ AL!LearnsFrom(feature_weights, feature_weights', b)
    <2>1. PICK inf \in SUBSET Eligible(b, 2) :
              feature_weights' = feature_weights \cup LearnedKeys(b, inf)
        BY <1>1 DEF UpdateFeatureWeights
    <2>2. inf \subseteq GroupedSensors(b)
        BY DEF Eligible
    <2>3. QED
        BY <1>3, <2>1, <2>2, LearnedKeysType, LearnedKeysOwner
           DEF LearnerTypeOK, Key, AL!FeatureKey, AL!LearnsFrom
<1>5. /\ anomaly_thresholds' \subseteq AL!FeatureKey
      /\ AL!LearnsFrom(anomaly_thresholds, anomaly_thresholds', b)
    <2>1. Eligible(b, ThresholdMinSamples) \subseteq GroupedSensors(b)
        BY DEF Eligible
    <2>2. QED
        BY <1>1, <1>3, <2>1, LearnedKeysType, LearnedKeysOwner
           DEF UpdateAnomalyThresholds, LearnerTypeOK, Key, AL!FeatureKey, AL!LearnsFrom
<1>6. PICK moved \in SUBSET Reshapable(b) :
          pattern_clusters' =
              [s \in Sensors |-> IF s \in Reached(b) THEN Recentred(b, s, moved)
                                                     ELSE pattern_clusters[s]]
    BY <1>1 DEF UpdatePatternClusters
<1>7. Reached(b) \subseteq GroupedSensors(b)
    BY DEF Reached, ClusterSensors, Eligible
<1>8. \A s \in Reached(b) : Recentred(b, s, moved) # NoClusters
    BY <1>7, RecentredNonEmpty DEF LearnerTypeOK
<1>9. QED
    BY <1>2, <1>3, <1>4, <1>5, <1>6, <1>7, <1>8

\* add_experience is an abstract Add of the same experience.
LEMMA AddExperienceRefines ==
    ASSUME LearnerTypeOK, NEW s \in Sensors, NEW L \in 1..MaxLen, AddExperience(s, L)
    PROVE  AL!Add([sensor_id |-> s, len |-> L])
<1> DEFINE e == [sensor_id |-> s, len |-> L]
           b == Evict(Append(experience_buffer, e))
<1>1. e \in Experience
    BY DEF Experience
<1>2. b \in Seq(Experience) /\ b = AL!Newest(Append(experience_buffer, e))
    BY <1>1, EvictAppendType, EvictIsNewest DEF LearnerTypeOK
<1>3. /\ total_samples < MaxSamples
      /\ experience_buffer' = b
      /\ total_samples' = total_samples + 1
    BY DEF AddExperience
<1>4. AL!PassDue(b) <=> Len(b) >= UpdateThreshold /\ Len(b) >= 2
    BY DEF AL!PassDue
<1>5. CASE Len(b) >= UpdateThreshold /\ Len(b) >= 2
    <2>1. IncrementalUpdate(b)
        BY <1>5 DEF AddExperience
    <2>2. QED
        BY <1>2, <1>3, <1>4, <1>5, <2>1, IncrementalUpdateLearns DEF AL!Add
<1>6. CASE ~(Len(b) >= UpdateThreshold /\ Len(b) >= 2)
    <2>1. UNCHANGED <<feature_weights, anomaly_thresholds, pattern_clusters,
                      update_count, failed_updates>>
        <3>1. CASE Len(b) >= UpdateThreshold
            <4>1. IncrementalUpdate(b)
                BY <3>1 DEF AddExperience
            <4>2. QED
                BY <1>6, <3>1, <4>1 DEF IncrementalUpdate
        <3>2. CASE ~(Len(b) >= UpdateThreshold)
            BY <3>2 DEF AddExperience
        <3>3. QED
            BY <3>1, <3>2
    <2>2. QED
        BY <1>2, <1>3, <1>4, <1>6, <2>1 DEF AL!Add
<1>7. QED
    BY <1>5, <1>6

\* Every behaviour of the learner is a behaviour of AbstractLearner under
\* the refinement mapping AL: the buffer is the newest memory_size
\* experiences, passes are counted once per add from the threshold on,
\* and a pass, completed or raised, only learns.
THEOREM LearnerRefinement == LearnerSpec => ImplementsAbstractLearner
<1>1. LearnerInit => AL!AbstractInit
    BY DEF LearnerInit, AL!AbstractInit, NoClusters
<1>2. LearnerTypeOK /\ [LearnerNext]_learner_vars => [AL!AbstractNext]_AL!abstract_vars
    <2> SUFFICES ASSUME LearnerTypeOK, [LearnerNext]_learner_vars
                 PROVE  [AL!AbstractNext]_AL!abstract_vars
        OBVIOUS
    <2>1. CASE \E s \in Sensors, L \in 1..MaxLen : AddExperience(s, L)
        <3>1. PICK s \in Sensors, L \in 1..MaxLen : AddExperience(s, L)
            BY <2>1
        <3>2. AL!Add([sensor_id |-> s, len |-> L])
            BY <3>1, AddExperienceRefines
        <3>3. [sensor_id |-> s, len |-> L] \in AL!Item
            BY DEF AL!Item
        <3>4. QED
            BY <3>2, <3>3 DEF AL!AbstractNext
    <2>2. CASE UNCHANGED learner_vars
        BY <2>2 DEF learner_vars, AL!abstract_vars
    <2>3. CASE total_samples = MaxSamples /\ UNCHANGED learner_vars
        BY <2>3 DEF learner_vars, AL!abstract_vars
    <2>4. QED
        BY <2>1, <2>2, <2>3 DEF LearnerNext
<1>3. QED
    BY <1>1, <1>2, LearnerTypeCorrect, PTL
       DEF LearnerSpec, ImplementsAbstractLearner, AL!AbstractSpec
=============================================================================
