------------------------- MODULE IncrementalLearner -------------------------
(***************************************************************************)
(* IncrementalLearner of src/src/edge_ai/incremental_learner.py.           *)
(*                                                                         *)
(* An experience is abstracted to the sensor that produced it and the      *)
(* length of its feature vector: the grouping, the homogeneity test, the   *)
(* keys that get learned and the shape of every centroid depend on nothing *)
(* else.  The key f"{sensor_id}_{name}" is the pair <<sensor, i>> where i  *)
(* is the feature's index in the sensor's name list.  Learned VALUES (EMA  *)
(* weights, threshold bands, centroid coordinates) are abstracted to which *)
(* keys exist and to the dimension of each centroid; where a value decides *)
(* control (a zero variance sum, an empty set of close points) the model   *)
(* chooses nondeterministically.                                           *)
(***************************************************************************)
EXTENDS Naturals, Sequences, FiniteSets

CONSTANTS
    Sensors,             \* sensor ids that call add_experience
    MemorySize,          \* memory_size: maxlen of experience_buffer
    UpdateThreshold,     \* update_threshold
    MaxClusters,         \* max_clusters of _update_pattern_clusters (5)
    ThresholdMinSamples, \* group size _update_anomaly_thresholds needs (5)
    MaxLen,              \* longest feature vector a sensor produces
    MaxSamples           \* model bound on total_samples

ASSUME LearnerAssumption ==
    /\ Sensors # {}
    /\ MemorySize \in Nat \ {0}
    /\ UpdateThreshold \in Nat
    /\ MaxClusters \in Nat \ {0}
    /\ ThresholdMinSamples \in Nat
    /\ MaxLen \in Nat \ {0}
    /\ MaxSamples \in Nat

VARIABLES
    experience_buffer,   \* deque of experiences, oldest first
    feature_weights,     \* keys of self.feature_weights
    anomaly_thresholds,  \* keys of self.anomaly_thresholds
    pattern_clusters,    \* sensor -> dimensions of its centroids, <<>> if none
    update_count,
    total_samples,
    failed_updates       \* history: update passes that raised out of add_experience

learner_vars == <<experience_buffer, feature_weights, anomaly_thresholds,
                  pattern_clusters, update_count, total_samples, failed_updates>>

Experience == [sensor_id : Sensors, len : 1..MaxLen]
Key == Sensors \X (1..MaxLen)
NoClusters == <<>>

Widest(a, b) == IF a >= b THEN a ELSE b

LearnerTypeOK ==
    /\ experience_buffer \in Seq(Experience)
    /\ Len(experience_buffer) <= MemorySize
    /\ feature_weights \subseteq Key
    /\ anomaly_thresholds \subseteq Key
    /\ pattern_clusters \in [Sensors -> Seq(1..MaxLen)]
    /\ update_count \in Nat
    /\ total_samples \in 0..MaxSamples
    /\ failed_updates \in Nat

LearnerInit ==
    /\ experience_buffer = <<>>
    /\ feature_weights = {}
    /\ anomaly_thresholds = {}
    /\ pattern_clusters = [s \in Sensors |-> NoClusters]
    /\ update_count = 0
    /\ total_samples = 0
    /\ failed_updates = 0

-----------------------------------------------------------------------------
(* Grouping of the buffer, shared by the three update steps.               *)

\* sensor_groups[s]: the positions of s's experiences in buffer b.
SensorGroup(b, s) == {i \in 1..Len(b) : b[i].sensor_id = s}

\* The keys of sensor_groups, i.e. the sensors present in b.
GroupedSensors(b) == {b[i].sensor_id : i \in 1..Len(b)}

\* len(set(feature_lengths)) <= 1.
Homogeneous(b, s) == \A i, j \in SensorGroup(b, s) : b[i].len = b[j].len

\* len(experiences[0]["feature_names"]) of a homogeneous group.
GroupLen(b, s) == b[CHOOSE i \in SensorGroup(b, s) : TRUE].len

\* The sensors an update step processes: at least n experiences, all of
\* one length.
Eligible(b, n) ==
    {s \in GroupedSensors(b) : Cardinality(SensorGroup(b, s)) >= n /\ Homogeneous(b, s)}

\* key = f"{sensor_id}_{name}" for every name of an L-feature vector.
FeatureKeys(s, L) == {<<s, i>> : i \in 1..L}

LearnedKeys(b, S) == UNION {FeatureKeys(s, GroupLen(b, s)) : s \in S}

\* The iteration order of sensor_groups: order of first appearance in b.
FirstIndex(b, s) == CHOOSE i \in SensorGroup(b, s) : \A j \in SensorGroup(b, s) : i <= j

-----------------------------------------------------------------------------
(* _update_feature_weights: every eligible group whose variance sum is     *)
(* positive creates (or EMA-blends) the weights of its keys.  Whether the  *)
(* sum is positive depends on the abstracted values.                       *)
UpdateFeatureWeights(b) ==
    \E informative \in SUBSET Eligible(b, 2) :
        feature_weights' = feature_weights \cup LearnedKeys(b, informative)

\* _update_anomaly_thresholds: every eligible group sets (or EMA-blends)
\* the band of each of its keys.
UpdateAnomalyThresholds(b) ==
    anomaly_thresholds' = anomaly_thresholds \cup LearnedKeys(b, Eligible(b, ThresholdMinSamples))

(* _update_pattern_clusters.  A sensor with no centroids is seeded with    *)
(* MaxClusters rows of the current features_matrix.  Then every centroid   *)
(* of dimension d is subtracted from the (n x L) matrix: numpy broadcasts  *)
(* when d = L, d = 1 or L = 1 and raises ValueError otherwise, which       *)
(* aborts the loop over sensor_groups.  A centroid with close points is    *)
(* replaced by 0.7*centroid + 0.3*mean, whose dimension is the larger of d *)
(* and L; one without keeps its own.                                       *)
ClusterSensors(b) == Eligible(b, MaxClusters)

Centroids(b, s) ==
    IF pattern_clusters[s] = NoClusters
    THEN [j \in 1..MaxClusters |-> GroupLen(b, s)]
    ELSE pattern_clusters[s]

Broadcastable(d, L) == d = L \/ d = 1 \/ L = 1

Raises(b, s) ==
    \E j \in 1..Len(Centroids(b, s)) : ~Broadcastable(Centroids(b, s)[j], GroupLen(b, s))

Raising(b) == {s \in ClusterSensors(b) : Raises(b, s)}

\* The sensors the loop finishes before the first one that raises.
Reached(b) ==
    {s \in ClusterSensors(b) : \A f \in Raising(b) : FirstIndex(b, s) < FirstIndex(b, f)}

\* The centroids whose re-centring would change their dimension.
Reshapable(b) ==
    {p \in Reached(b) \X (1..MaxClusters) :
        /\ p[2] <= Len(Centroids(b, p[1]))
        /\ Centroids(b, p[1])[p[2]] # GroupLen(b, p[1])}

Recentred(b, s, moved) ==
    [j \in 1..Len(Centroids(b, s)) |->
        IF <<s, j>> \in moved
        THEN Widest(Centroids(b, s)[j], GroupLen(b, s))
        ELSE Centroids(b, s)[j]]

\* Mutant: the centroids of a sensor whose subtraction raises are dropped
\* (reset to be seeded again) instead of left as they were.
UpdatePatternClustersReset(b) ==
    \E moved \in SUBSET Reshapable(b) :
        pattern_clusters' =
            [s \in Sensors |-> IF s \in Reached(b) THEN Recentred(b, s, moved)
                              ELSE IF s \in Raising(b) THEN NoClusters
                              ELSE pattern_clusters[s]]

UpdatePatternClusters(b) ==
    \E moved \in SUBSET Reshapable(b) :
        pattern_clusters' =
            [s \in Sensors |-> IF s \in Reached(b) THEN Recentred(b, s, moved)
                                                   ELSE pattern_clusters[s]]

\* _incremental_update over the whole buffer b.  A ValueError leaves the
\* weights and thresholds already written and skips update_count += 1.
IncrementalUpdate(b) ==
    IF Len(b) < 2
    THEN UNCHANGED <<feature_weights, anomaly_thresholds, pattern_clusters,
                     update_count, failed_updates>>
    ELSE /\ UpdateFeatureWeights(b)
         /\ UpdateAnomalyThresholds(b)
         /\ UpdatePatternClusters(b)
         /\ IF Raising(b) = {}
            THEN /\ update_count' = update_count + 1
                 /\ UNCHANGED failed_updates
            ELSE /\ failed_updates' = failed_updates + 1
                 /\ UNCHANGED update_count

\* Mutant: the buffer created as deque() without maxlen.
EvictNever(q) == q

\* deque(maxlen=memory_size).append: the oldest entry is evicted.
Evict(q) == IF Len(q) > MemorySize THEN Tail(q) ELSE q

\* Mutant: the trigger written len(buffer) > update_threshold.
AddExperienceStrict(s, L) ==
    /\ total_samples < MaxSamples
    /\ LET b == Evict(Append(experience_buffer, [sensor_id |-> s, len |-> L]))
       IN /\ experience_buffer' = b
          /\ total_samples' = total_samples + 1
          /\ IF Len(b) > UpdateThreshold
             THEN IncrementalUpdate(b)
             ELSE UNCHANGED <<feature_weights, anomaly_thresholds, pattern_clusters,
                              update_count, failed_updates>>

\* add_experience of an L-feature vector from sensor s.
AddExperience(s, L) ==
    /\ total_samples < MaxSamples
    /\ LET b == Evict(Append(experience_buffer, [sensor_id |-> s, len |-> L]))
       IN /\ experience_buffer' = b
          /\ total_samples' = total_samples + 1
          /\ IF Len(b) >= UpdateThreshold
             THEN IncrementalUpdate(b)
             ELSE UNCHANGED <<feature_weights, anomaly_thresholds, pattern_clusters,
                              update_count, failed_updates>>

\* The learner alone, fed vectors of any length, until the model's bound.
LearnerNext ==
    \/ \E s \in Sensors, L \in 1..MaxLen : AddExperience(s, L)
    \/ total_samples = MaxSamples /\ UNCHANGED learner_vars

LearnerSpec == LearnerInit /\ [][LearnerNext]_learner_vars

-----------------------------------------------------------------------------
(* Properties.                                                             *)

\* The number of add_experience calls that ran an update pass after t
\* calls: the guard len(buffer) >= update_threshold never falls back once
\* met, since the deque never shrinks, and _incremental_update returns
\* early below two entries; a buffer smaller than the threshold never
\* triggers a pass at all.
PassesAfter(t) ==
    LET first == Widest(UpdateThreshold, 2)
    IN IF MemorySize >= first /\ t >= first THEN t - first + 1 ELSE 0

\* Every add_experience once the buffer holds update_threshold entries
\* runs exactly one full pass (completed or raised), and none before:
\* the cadence of add_experience/_incremental_update in closed form.
UpdateCountFormula == update_count + failed_updates = PassesAfter(total_samples)

\* The inductive strengthening of UpdateCountFormula: the deque holds
\* every experience until it is full, then exactly memory_size of them.
BufferFill == Len(experience_buffer) = IF total_samples <= MemorySize THEN total_samples ELSE MemorySize

UpdateCountInv == LearnerTypeOK /\ BufferFill /\ UpdateCountFormula

\* spec.md 4.3 and 8: crossing update_threshold triggers one pass, so 20
\* experiences with threshold 10 give two passes.  The code runs a pass on
\* every add once the buffer has reached the threshold.
UpdateCadence == update_count = total_samples \div Widest(UpdateThreshold, 1)

\* spec.md 3: a statistic over a group first discards the experiences whose
\* length differs from the group's majority length.  So a pass that sees
\* ThresholdMinSamples experiences of a sensor's majority length learns the
\* bands of those features.  The code skips the whole group instead.
CountOfLen(b, s, L) == Cardinality({i \in SensorGroup(b, s) : b[i].len = L})

MajorityLengthLearned ==
    [][ (update_count' # update_count \/ failed_updates' # failed_updates) =>
          \A s \in Sensors, L \in 1..MaxLen :
             LET b == experience_buffer'
             IN /\ 2 * CountOfLen(b, s, L) > Cardinality(SensorGroup(b, s))
                /\ CountOfLen(b, s, L) >= ThresholdMinSamples
                => FeatureKeys(s, L) \subseteq anomaly_thresholds'
      ]_learner_vars

\* spec.md 3 and 4.3: a sensor's pattern clusters are centroid vectors
\* compared by Euclidean distance, so all of them have one dimension.
CentroidDimsAgree ==
    \A s \in Sensors : \A j, k \in 1..Len(pattern_clusters[s]) :
        pattern_clusters[s][j] = pattern_clusters[s][k]

\* The learner implements AbstractLearner: the buffer is the abstract
\* buffer, every pass (completed or raised) is an abstract pass, and the
\* sensors with centroids are the clustered ones.  So add_experience keeps
\* the newest memory_size experiences, runs one pass per add from the
\* threshold on, and a pass (even one that raises half-way) never forgets
\* a weight, a band or a sensor's clusters and only learns about sensors
\* in the buffer.
AL == INSTANCE AbstractLearner WITH
        buffer <- experience_buffer,
        samples <- total_samples,
        passes <- update_count + failed_updates,
        weighted <- feature_weights,
        banded <- anomaly_thresholds,
        clustered <- {s \in Sensors : pattern_clusters[s] # NoClusters}

ImplementsAbstractLearner == AL!AbstractSpec

\* spec.md 3 and 7: heterogeneous groups are skipped, never erroring; no
\* update pass raises out of add_experience.
NoFailedUpdate == failed_updates = 0
=============================================================================
