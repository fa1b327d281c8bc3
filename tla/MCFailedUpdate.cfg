CONSTANTS
    temp1 = temp1
    motion1 = motion1
    accel1 = accel1
    cam1 = cam1
    Sensors <- MCTempOnly
    SensorType <- MCSensorType
    WindowSize = 7
    MemorySize = 5
    UpdateThreshold = 5
    MaxClusters = 5
    ThresholdMinSamples = 5
    MaxLen = 8
    MaxSamples = 12
SPECIFICATION Spec
INVARIANT NoFailedUpdate
