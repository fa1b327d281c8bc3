\* Two sensors, vectors of length 1..3 in any order, a buffer of 5 and
\* passes from the 2nd experience on; ten experiences, so that a sensor
\* clustered at one length can raise at another.
CONSTANTS
    s1 = s1
    s2 = s2
    Sensors <- MCSensors
    MemorySize = 5
    UpdateThreshold = 2
    MaxClusters = 5
    ThresholdMinSamples = 5
    MaxLen = 3
    MaxSamples = 10
SPECIFICATION LearnerSpec
INVARIANT LearnerTypeOK
INVARIANT UpdateCountInv
PROPERTY ImplementsAbstractLearner
