------------------------- MODULE SensorPreprocessor -------------------------
(***************************************************************************)
(* SensorPreprocessor of src/src/edge_ai/sensor_preprocessor.py.           *)
(*                                                                         *)
(* The preprocessor keeps one temporal window (a deque of maxlen           *)
(* window_size) per sensor id.  What the rest of the pipeline sees of a    *)
(* processed reading is its feature vector, and what the learner tells     *)
(* apart is that vector's LENGTH: it grows as the window fills.  A window  *)
(* is therefore abstracted to its fill count, and a reading's features to  *)
(* their number.  Feature names are indices into the type's name list; the *)
(* names of a shorter vector are always a prefix of those of a longer one  *)
(* of the same type.                                                       *)
(***************************************************************************)
EXTENDS Naturals

CONSTANTS
    Sensors,        \* sensor ids whose readings reach process_reading
    SensorType,     \* SensorType[s]: the SensorType enum value of sensor s
    WindowSize      \* window_size of SensorPreprocessor.__init__

\* The values of enum SensorType (sensor_manager.py, lines 18-26).
SensorTypes == {"temperature", "motion", "camera", "humidity",
                "light", "pressure", "accelerometer", "gps"}

\* The constants are constrained where the preprocessor is composed
\* (PipelineAssumption of LearningPipeline): every s in Sensors has
\* SensorType[s] \in SensorTypes, and WindowSize \in Nat \ {0}.

\* feature_windows[s]: how many values the window of sensor s holds.
VARIABLE feature_windows

\* The types whose extractor appends to the sensor's window.
Windowed == {"temperature", "motion", "accelerometer"}

\* _process_temperature: current value, a delta once two values are
\* buffered, mean/std/min/max once the window is full.
TemperatureLength(n) ==
    1 + (IF n >= 2 THEN 1 ELSE 0) + (IF n >= WindowSize THEN 4 ELSE 0)

\* _process_motion: current flag, then frequency and time since last
\* motion once the window is full.
MotionLength(n) == 1 + (IF n >= WindowSize THEN 2 ELSE 0)

\* _process_accelerometer: x, y, z, magnitude, then jerk and three axis
\* variances once three samples are buffered.
AccelerometerLength(n) == 4 + (IF n >= 3 THEN 4 ELSE 0)

\* _process_camera: three channel brightnesses, overall brightness,
\* contrast and edge density of the downsampled frame.
CameraLength == 6

\* _process_generic: the numeric value, or a 0.0 placeholder.
GenericLength == 1

\* process_reading: dispatch on the sensor type; n is len(window) after
\* the reading was appended.  Camera frames give six image features and
\* every other type the single generic value (_process_generic).
FeatureLength(t, n) ==
    CASE t = "temperature"   -> TemperatureLength(n)
      [] t = "motion"        -> MotionLength(n)
      [] t = "accelerometer" -> AccelerometerLength(n)
      [] t = "camera"        -> CameraLength
      [] OTHER               -> GenericLength

PreInit == feature_windows = [s \in Sensors |-> 0]

\* Mutant: a hand-rolled window that wraps to one entry when full.
ProcessReadingWrap(s) ==
    feature_windows' =
        IF SensorType[s] \in Windowed
        THEN [feature_windows EXCEPT ![s] = IF @ < WindowSize THEN @ + 1 ELSE 1]
        ELSE feature_windows

\* process_reading(reading) of sensor s: the windowed extractors append
\* the new value, the deque dropping its oldest once it holds WindowSize.
ProcessReading(s) ==
    feature_windows' =
        IF SensorType[s] \in Windowed
        THEN [feature_windows EXCEPT ![s] = IF @ < WindowSize THEN @ + 1 ELSE @]
        ELSE feature_windows

\* The length of the feature vector sensor s's reading produces in a step
\* that takes ProcessReading(s).
ProducedLength(s) == FeatureLength(SensorType[s], feature_windows'[s])

PreTypeOK == feature_windows \in [Sensors -> 0..WindowSize]
=============================================================================
