\* Temperature and motion sensors feeding one learner, window 3, a buffer
\* of 7 experiences, passes from the 3rd experience on.
CONSTANTS
    temp1 = temp1
    motion1 = motion1
    accel1 = accel1
    cam1 = cam1
    Sensors <- MCTempMotion
    SensorType <- MCSensorType
    WindowSize = 3
    MemorySize = 7
    UpdateThreshold = 3
    MaxClusters = 5
    ThresholdMinSamples = 5
    MaxLen = 8
    MaxSamples = 16
SPECIFICATION Spec
INVARIANT TypeOK
INVARIANT UpdateCountFormula
INVARIANT BufferLengthsMonotone
INVARIANT PipelineInv
PROPERTY ImplementsAbstractLearner
