CONSTANTS
    temp1 = temp1
    motion1 = motion1
    accel1 = accel1
    cam1 = cam1
    Sensors <- MCMotionOnly
    SensorType <- MCSensorType
    WindowSize = 6
    MemorySize = 5
    UpdateThreshold = 5
    MaxClusters = 5
    ThresholdMinSamples = 5
    MaxLen = 8
    MaxSamples = 12
SPECIFICATION Spec
INVARIANT CentroidDimsAgree
