# Formal model of the Edge AI sensor pipeline

This directory holds TLA+ models of the sensor-learning pipeline in
`src/src/edge_ai/`. It contains the model-checking configurations for TLC and the
TLAPS proofs of the learner's core invariants. `PROJECT.json` lists the
components, runs, mutants, the source lines each definition models, the
findings, the hazards and the theorems.

## 1. The system

| Part | Source | State | Operations |
|---|---|---|---|
| Sensors | `sensor_manager.py` 28-351 | `is_active`, per-class simulation state, callback list | `initialize`, `read`, `shutdown`, `_notify_callbacks` |
| SensorManager | `sensor_manager.py` 354-451 | `sensors`, `running`, `sensor_tasks`, `data_history` deques | `register_sensor`, `initialize_all`, `start_streaming` (one `_stream_sensor` loop per sensor), `stop_streaming`, `shutdown_all` |
| SensorPreprocessor | `sensor_preprocessor.py` | `feature_windows` (one deque of `window_size` per sensor) | `process_reading` (type dispatch to five extractors); `process_batch`, fusion, embedding (unused by the system) |
| IncrementalLearner | `incremental_learner.py` | `experience_buffer` (deque of `memory_size`), `feature_weights`, `anomaly_thresholds`, `pattern_clusters`, `update_count`, `total_samples` | `add_experience` → `_incremental_update` (weights, bands, clusters); `detect_anomaly`, `predict_pattern` (queries); `save/load_learned_parameters` |
| EdgeSLMInference | `edge_slm_inference.py` | `context_memory` (bounded list), model handle | `generate_insight` (model call or rule-based fallback), `continuous_monitoring` loop |
| EdgeAISystem | `edge_ai_system.py` | `running`, the components | `setup_sensors`, `_on_sensor_data` callback, `start` (streaming, monitoring, periodic save), `stop`, signal handling |

**How the parts interact.** Each sensor's `_stream_sensor` loop is an asyncio task.
It calls `read()`, which synchronously notifies the callbacks. The system's
`_on_sensor_data` callback preprocesses the reading, checks it for an anomaly
and adds it to the learner. When the buffer is full enough, that add runs an
update pass. None of this chain awaits, so under asyncio one reading's whole
path is a single atomic step. Sensor tasks interleave only at their
`asyncio.sleep`. The learner is shared by all sensors: a pass reads the
experiences of every sensor in the buffer.

**The hard behaviours.**

- *Interleaving.* Readings of several sensors interleave into one buffer. The
  order in which a sensor first appears in the buffer decides the iteration
  order of every pass.
- *Windows filling.* A sensor's feature vectors grow as its preprocessor window
  fills. The numbers of features are:

  | sensor | features |
  |---|---|
  | temperature | 1, then 2, then 6 |
  | motion | 1, then 3 |
  | accelerometer | 4, then 8 |
  | camera | always 6 |

  The learner skips any group whose lengths differ.
- *Partial failure.* `_update_pattern_clusters` subtracts a centroid from the
  feature matrix with numpy broadcasting. A centroid of another length either
  broadcasts silently (dimension 1 against L, or L against 1) or raises
  `ValueError`. A raise leaves this pass half applied: weights and bands were
  already written, and the clusters of earlier sensors are updated but those
  of later ones are not. `update_count` is not incremented, and
  `_notify_callbacks` swallows the exception.
- *Resource bounds.* The buffer is a bounded deque. Once it holds
  `update_threshold` entries it never shrinks, so every later add runs a pass.
- *Persistence.* `save_learned_parameters` opens the file with `'w'`
  (truncating it) before `json.dump` writes it, so a death of the process in
  between leaves a torn file. `load_learned_parameters` assigns the three
  maps before it reads `"metadata"`.
- *Life cycle.* `start()` awaits `initialize_all`, and a signal can run a
  `stop()` task at that await, or at any later one. Several `stop()`
  coroutines can be in flight at once: one per signal and main's own. The
  final save of `stop()` must come after the last reading, and every
  `gather` must return.

## 2. Modules

| Module | Models | Composes |
|---|---|---|
| `SensorPreprocessor` | `process_reading` | – |
| `IncrementalLearner` | `add_experience` and the whole update pass | – |
| `AbstractLearner` | what the learner promises: buffer, cadence, monotone learning | – |
| `LearningPipeline` | `EdgeAISystem._on_sensor_data` | `IncrementalLearner` (EXTENDS), `SensorPreprocessor` (INSTANCE) |
| `LearnerPersistence` | `save/load_learned_parameters` across process lifetimes and crashes | – |
| `SensorManager` | `initialize_all`, `start_streaming`, `_stream_sensor`, `stop_streaming`, `shutdown_all`, `is_active` | – |
| `EdgeAISystem` | `main()`, `start()`, `stop()`, the signal handler, `continuous_monitoring`, `_periodic_save` | `SensorManager` (EXTENDS) |
| `EdgeSLMInference` | `continuous_monitoring` → `run_inference`, `context_memory` | – |
| `MC*` | model values and small sets for TLC | – |
| `IncrementalLearnerProofs`, `EdgeAISystemProofs`, `LearnerPersistenceProofs`, `EdgeSLMInferenceProofs`, `LearningPipelineProofs` | TLAPS proofs | EXTENDS the module proved about |

### SensorPreprocessor

- **State.** A window is abstracted to its fill count, `feature_windows[s] ∈
  0..WindowSize`. A reading's features are abstracted to their number.
- **Lengths.** `FeatureLength(t, n)` gives each extractor's output length as
  a function of the window fill `n`.
- **Action.** `ProcessReading(s)` appends to the window of a windowed type;
  the deque keeps `WindowSize` entries.

### IncrementalLearner

**State.**

- An experience is `[sensor_id, len]`. Timestamp, label, reward and context
  never influence learning.
- A learned key `f"{sensor_id}_{name}"` is `<<sensor, index>>`. The weight
  and band maps are abstracted to their key sets, because which keys exist is
  what the code's branches depend on.
- `pattern_clusters[s]` is the sequence of centroid dimensions.
- `failed_updates` counts the passes that raised. It records an exception
  that `_notify_callbacks` swallows.

**Data-dependent choices.** `sum(variances) > 0` (the `informative` set) and
`len(close_points) > 0` (the `moved` set) are chosen nondeterministically.
Every initial centroid has the group's length.

**Actions.** `AddExperience(s, L)` is the whole `add_experience` call. It
appends, evicts the oldest entry when the deque is full, increments
`total_samples`, and, when `len >= update_threshold`, runs
`IncrementalUpdate`: the three passes in code order, with the raise in the
third. `Raising` is the set of sensors whose centroids cannot be broadcast;
`Reached` the sensors visited before the first raise; `update_count` grows
only if nothing raises.

### AbstractLearner and the refinement

`AbstractLearner` states what callers may rely on and leaves out how a pass
works. `Add(e)` keeps the newest `MemorySize` experiences. When the buffer is
due (`len ≥ update_threshold` and `≥ 2`) one pass runs. A pass only adds
weights, bands and clusters, and only for sensors present in the buffer.
`IncrementalLearner` implements it under

| abstract | concrete |
|---|---|
| `buffer` | `experience_buffer` |
| `samples` | `total_samples` |
| `passes` | `update_count + failed_updates` |
| `weighted`, `banded` | `feature_weights`, `anomaly_thresholds` |
| `clustered` | the sensors whose `pattern_clusters` entry exists |

A pass that raises still counts as a pass. It is run, and what it wrote
before the raise stays.

The composed `LearningPipeline` implements the same contract under the same
mapping. `pipeline_temp_motion` checks this, and `PipelineRefinement` proves
it.

### LearningPipeline

`OnSensorData(s)` is `ProcessReading(s) ∧ AddExperience(s, length produced)`.
`detect_anomaly` changes no state. Any sensor may take the next reading; in
asyncio that order is set by the sleep intervals, which the model leaves free.

### LearnerPersistence

The learned record is abstracted to progress counts: `maps` for the three
maps and `counters` for `update_count` and `total_samples`. The file is
absent, torn, complete, or a valid record without `"metadata"`.

- `Start` is a new process: `start()` calls `load_learned_parameters`
  (`LoadLearnedParameters`).
- `Learn` is one update pass.
- `SaveOpen` and `SaveDump` are the truncation and the write.
- `Exit` is a clean end after `stop()` saved.
- `Crash` is a process death at any point, bounded by `MaxCrashes`.

### SensorManager and EdgeAISystem

An asyncio task runs without interruption until it suspends. So each action
is what a task does between two suspension points:

- one `_stream_sensor` iteration (`LoopStep`: check the stop event, read,
  notify, append to the bounded history, sleep);
- an `initialize()` task of `initialize_all`'s gather (`InitTask`; the
  sensors in `FlakySensors` may raise);
- `start()` up to its await of `initialize_all` (`StartBegin`), and after it
  (`StartStreams`);
- the signal handler creating a `stop()` task (`Signal`), and that task's
  first step (`RunStop`);
- `stop()` split at its awaits: `StopBegin` (cancel the two tasks, set the
  stop event, snapshot `_active_tasks` for the gather), `StopJoin`,
  `ShutdownTask` (one `shutdown()` per sensor), `StopFinish` (the final save);
- main's own `stop()` in its `finally` (`MainStops`);
- one iteration of the monitoring task and of the periodic save
  (`MonitorTick`, `SaveTick`).

The learner is abstracted to `dirty`: it holds experiences the file does not.

### EdgeSLMInference

`MonitorIteration` is one iteration of `continuous_monitoring`. It ends in
one of three ways: the no-data message, a model answer stored in
`context_memory` and trimmed to the last `max_context` (`KeepLast`), or the
rule-based fallback (no model, or the call raised). A model call is
synchronous and blocks the event loop, so the iteration is one step. Answers
are abstracted to the tick that produced them.

## 3. Runs

All bounds are named constants of the `.cfg`. In the learner models,
`MaxSamples` caps `total_samples`, and a terminal `Bounded` stutter step marks
where the loops would continue. `MaxClusters = 5` and
`ThresholdMinSamples = 5` are the code's literals.

| Run | Instance | Checks | Result |
|---|---|---|---|
| pipeline_temp_motion | temp + motion, W=3, memory 7, threshold 3, 16 readings | `TypeOK`, `UpdateCountFormula`, `BufferLengthsMonotone`, `PipelineInv`, `ImplementsAbstractLearner` | pass |
| learner_any_length | learner alone, 2 sensors, any length 1..3, memory 5, threshold 2, 10 adds | `LearnerTypeOK`, `UpdateCountInv`, `ImplementsAbstractLearner` | pass |
| system_lifecycle | 2 sensors (one flaky), 2 signal stops, history 2 | `TypeOK`, `ExitQuiescent`, `SystemInv`, `StopCompletes`, `ExitAfterSignal`, `NoReadingAfterMainStop` | pass |
| inference_context | 2 sensors, max_context 3, 7 ticks | `InferenceTypeOK`, `ContextIsNewestAnswers` | pass |
| persistence | 3 learning steps, 2 crashes, any file this code writes | `MemoryNotBehindDisk`, `RecordConsistent` | pass |
| update_cadence | camera | `UpdateCadence` | violation (finding 1) |
| majority_length | temperature | `MajorityLengthLearned` | violation (finding 2) |
| centroid_dims | motion, W=6 | `CentroidDimsAgree` | violation (finding 3) |
| failed_update | temperature, W=7, memory 5 | `NoFailedUpdate` | violation (finding 4) |
| quiet_after_stop | 2 sensors, 1 signal stop | `QuietAfterStop` | violation (finding 5) |
| save_atomic | fresh install, 1 crash | `SavedStateSurvives` | violation (finding 6) |
| load_atomic | a record without `"metadata"` | `RecordConsistent` | violation (finding 7) |

**Why these bounds are enough.**

- The memory is smaller than the number of readings, so eviction happens. The
  windows are small enough that every length change occurs.
- In `learner_any_length` every length is allowed in every order, so passes
  raise. Ten adds are needed for a pass that raises *after* the buffer is full,
  which the refinement mutant (a raise that drops clusters) relies on.
- `system_lifecycle` has two signal stops and main's own. That gives three
  concurrent `stop()` coroutines, signals at every await of `start()`, and a
  sensor whose initialize may fail (its loop keeps retrying).
- `max_context 3` with 7 ticks trims the context several times.
- Two crashes allow one during a save and one after a restart.

**The properties.**

- `UpdateCountFormula`: passes equal the adds made once the buffer held
  `max(threshold, 2)` entries.
- `BufferLengthsMonotone`: within the buffer a sensor's vector lengths never
  decrease from older to newer.
- `PipelineInv`: the inductive invariant behind it (section 5).
- `ImplementsAbstractLearner`: the refinement above, checked for the learner
  alone and for the composed pipeline.
- `ExitQuiescent`: when `main()` returns, every loop has returned, every
  sensor is shut down, and the last save followed the last reading.
- `SystemInv`: the inductive invariant that explains it (section 5).
- `StopCompletes`, `ExitAfterSignal`: every `stop()` returns, and a signal
  during the run ends the process.
- `NoReadingAfterMainStop` (an action property): once main's `stop()` has
  begun, no step turns a saved learner (`dirty` false) into an unsaved one.
  This holds while signal stops, loops and the save task still interleave.
  A `stop_streaming` that forgot `self._stop_event.set()` breaks it.
- `ContextIsNewestAnswers`: `context_memory` is exactly the newest
  `min(n, max_context)` model answers, with no fallback text.
- `MemoryNotBehindDisk`: a running learner is never behind the file.
- `RecordConsistent`: maps and counters come from one record.

Every property of every passing run is broken by a mutant of the code it is
about, listed in `PROJECT.json`. Examples: a deque without `maxlen`, `>` for
`>=`, a history without a cap, `stop()` without the final save or without its
gather, a trim that keeps one too few, a load that skips the metadata.

**Fairness.** `EdgeAISystem` assumes weak fairness of every task step. The
event loop runs each ready task, and each `asyncio.sleep` expires, so a task
that can take a step keeps being able to until it does. No fairness is
assumed of `Signal`: no signal is ever forced. The learner, persistence and
inference models check only safety and assume no fairness.

## 4. Findings

1. **The pass cadence differs from the spec** (`incremental_learner.py:60`).
   Once the buffer is full, every add runs a pass. Spec §4.3 and §8 expect one
   pass per crossing of the threshold.
2. **Heterogeneous groups are skipped whole** (`incremental_learner.py:143`).
   A temperature sensor learns no band until its startup vectors are evicted.
   spec.md §3 states a majority rule. §4.3 and §9 describe the code's skip,
   so the spec disagrees with itself.
3. **Centroids of mixed dimensions** (`incremental_learner.py:207`). Motion
   centroids seeded at dimension 1 are broadcast to dimension 3, some of them
   only.
4. **A pass that raises on every call** (`incremental_learner.py:202`).
   Temperature centroids seeded at dimension 2 make every later pass raise
   `ValueError`. From then on `update_count` stops.
5. **A stop during initialization is undone** (`sensor_manager.py:382`). A
   signal while `initialize_all` awaits runs `stop()` to completion. Then
   `start()` resumes and starts streaming loops that run until main's own
   `stop()`. The returned `stop()` left loops running.
6. **A crash during a save loses the learned state**
   (`incremental_learner.py:286`). The truncate-then-write leaves a torn
   file; the next start learns from zero.
7. **A failed load leaves a half-restored record**
   (`incremental_learner.py:298`). A record without `"metadata"` restores the
   maps but not the counters, though `load` reports failure.

Also seen while modelling, not a run: `start_streaming` creates a loop for
every registered sensor, active or not (`sensor_manager.py:384`). A sensor
whose initialize failed retries `read()` every second until stop.

## 5. Proofs

`IncrementalLearnerProofs` proves these, for every value of the constants
allowed by `LearnerAssumption`:

- **`LearnerTypeCorrect`**: `LearnerSpec => []LearnerTypeOK`. This includes
  the buffer bound. It rests on lemmas about the helper operators.
- **`UpdateCountInvCorrect`**: `LearnerSpec => []UpdateCountInv`.
  `UpdateCountFormula` alone is not inductive. `UpdateCountInv` strengthens it
  with `BufferFill`: `Len(buffer) = min(total_samples, MemorySize)`.
- **`UpdateCadenceCorrect`**: `LearnerSpec => []UpdateCountFormula`. It
  follows from the theorem above.
- **`LearnerRefinement`**: `LearnerSpec => ImplementsAbstractLearner`. The
  proof shows that the initial state maps to the abstract initial state, and
  that every `AddExperience` is an abstract `Add`:
  - `EvictIsNewest`: eviction is `Newest`;
  - `IncrementalUpdateLearns`: a pass only adds keys, of present sensors;
  - `RecentredNonEmpty`: clusters never become empty.

`EdgeAISystemProofs` proves these, under `SystemAssumption` (main's `stop()`
is not a signal's) and `ManagerAssumption`:

- **`SystemTypeCorrect`**: `Spec => []TypeOK`.
- **`SystemInvCorrect`**: `Spec => []SystemInv`.
- **`ExitQuiescentCorrect`**: `Spec => []ExitQuiescent`, a consequence of the
  above. `ExitQuiescent` is not inductive. Its truth at exit depends on what happened long before: the
  gathers waited for the right tasks, and no task was created after main's
  `stop()` began. The strengthening `SystemInv` says:
  - every running loop is in `_active_tasks` (`TasksTracked`);
  - a joining `stop()` waits for every running loop (`JoinCoversLoops`);
  - no tasks exist before streaming starts;
  - main's `stop()` starts only after `start()` returned;
  - once that `stop()` is past the join, no loop runs;
  - while it shuts down, every active sensor is one it still has to shut down.

  One lemma per action shows `SystemInv` is preserved, with one step per
  conjunct. TLC checks `SystemInv` in `system_lifecycle`.
- **`NoReadingAfterMainStopCorrect`**: `Spec => NoReadingAfterMainStop`, the
  action property.
  - Its invariant is `MainStopEvent`, defined in the proofs module: once
    main's `stop()` has left `"idle"`, the stop event is set.
  - `MainStopEventStep` shows every step preserves it. `StartStreams` is the
    only action that clears the event, and `SystemInv`'s
    `MainStopAfterStart` shows main's `stop()` is still idle when it runs.
  - `NoReadingStep` shows each step satisfies the action formula when the
    invariant holds. With the event set, `ReadSucceeds` is false, so
    `LoopStep` leaves `dirty` alone. `StopFinish` and `SaveTick` only clear
    it.
  - PTL combines the two lemmas with `SystemInvCorrect`'s induction.

`LearnerPersistenceProofs` proves, under `PersistenceAssumption`:

- **`PersistenceTypeCorrect`**: `PersistenceSpec => []PersistenceTypeOK`.
- **`MemoryNotBehindDiskCorrect`**: `PersistenceSpec => []MemoryNotBehindDisk`.
  This holds for every bound and every file this code can find. With the type
  invariant it is inductive: a load takes the file's progress, learning
  advances, and a save either tears the file or writes the current progress.

- **`RecordConsistentCorrect`**: `PersistenceSpec => []RecordConsistent`,
  under the hypothesis that the first start finds no record without the
  `"metadata"` key. Every file this code writes has that key. The
  `load_atomic` run shows the hypothesis is needed: a foreign record leaves
  the maps restored and the counters reset (finding 7). The induction carries
  `OwnFile(file)`: every later file comes from this code.

`EdgeSLMInferenceProofs` proves, under `InferenceAssumption`:

- **`InferenceTypeCorrect`**: `InferenceSpec => []InferenceTypeOK`.
- **`ContextIsNewestAnswersCorrect`**: `InferenceSpec =>
  []ContextIsNewestAnswers`, for every `max_context_length`.
  - The inductive form `InferenceInv` says `context_memory =
    NewestAnswers(answers)`.
  - The key lemma, `KeepLastNewest`, says trimming an appended newest suffix
    gives the newest suffix of the appended answers.
  - `NewestAnswersForm` splits the suffix into the cases of a short and a
    full context.

`LearningPipelineProofs` proves, under `LearnerAssumption` and
`PipelineAssumption`:

- **`PipelineTypeCorrect`**: `Spec => []TypeOK`.
- **`PipelineRefinement`**: `Spec => ImplementsAbstractLearner`. The whole
  pipeline implements the abstract learner. `OnSensorDataAdds` shows that a
  callback is an `AddExperience` with a length in `1..MaxLen`. The learner's
  `AddExperienceRefines` then makes that add an abstract `Add`.
- **`PipelineUpdateCadence`**: `Spec => []UpdateCountFormula` for the running
  pipeline. `PipelineUpdateCountStep` carries `UpdateCountInv` through each
  callback with the learner's `AddExperienceCount`.
- **`PipelineInvCorrect`**: `Spec => []PipelineInv`, the invariant TLC checks
  in `pipeline_temp_motion`.
- **`BufferLengthsMonotoneCorrect`**: `Spec => []BufferLengthsMonotone`.
  - The property alone is not inductive: whether a new vector is at least as
    long as the sensor's older ones depends on the windows those came from.
  - `PipelineInv` adds `LengthsBelowWindow`: every buffered vector is at most
    as long as the one its sensor's window gives now.
  - The induction uses three lemmas:
    - `WindowsFill`: windows only fill;
    - `FeatureLengthMonotone`: every extractor's length grows with the fill;
    - `EvictShift`: eviction shifts the buffer by 0 or 1.

Each invariant and action property a passing run checks is proved for
every value of the constants the assumptions allow.

Only model-checked:

- the liveness properties `StopCompletes` and `ExitAfterSignal`. TLAPS cannot
  reason about fairness and ENABLED.

**Bands and clusters: not checked.** A natural property is that a sensor
has anomaly bands exactly when it has pattern clusters. The model does not
check it, because the configurations its runs use would say nothing
about the code:
- When `window_size <= max_clusters`, no pass can raise. The property then
  holds only because both size guards are 5.
- The system builds its preprocessor with `window_size=10`
  (`edge_ai_system.py:30`), against `max_clusters=5`. There, centroids can be
  seeded from vectors of a window that is still filling.
  - For a temperature sensor, five 2-feature vectors seed 2-dimensional
    centroids. The first pass over 6-feature vectors then raises
    (`failed_update`, finding 4).
  - A pass that raises stops clustering. So a sensor later in the buffer that
    becomes eligible in the same pass gets bands without clusters.
  - No run covers that case. Breaking the property needs two sensors eligible
    in the same raising pass.

The hazard at `edge_ai_system.py:97` is listed without a property for this
reason.

No module reached by a proof declares a RECURSIVE operator.

## 6. Not modelled

- The numeric values: weights, means, standard deviations, centroid
  coordinates.
- `detect_anomaly`, `predict_pattern` and `get_sensor_stats`. These are
  queries that change no state.
- `process_batch` (unused), fusion and temporal embedding.
- The text of the context, prompt and log files, and `export_sensor_log`.
- How long the synchronous model call blocks the event loop. That changes
  when steps happen, not which orders are possible.
- The per-class simulation state of the sensors. Only `is_active` and
  initialization failure are modelled.
- The ONNX/CoreML conversion scripts and the demo and test drivers. These are
  one-shot tools outside the running system.
