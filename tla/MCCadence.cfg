CONSTANTS
    temp1 = temp1
    motion1 = motion1
    accel1 = accel1
    cam1 = cam1
    Sensors <- MCCamOnly
    SensorType <- MCSensorType
    WindowSize = 3
    MemorySize = 3
    UpdateThreshold = 2
    MaxClusters = 5
    ThresholdMinSamples = 5
    MaxLen = 8
    MaxSamples = 6
SPECIFICATION Spec
INVARIANT UpdateCadence
