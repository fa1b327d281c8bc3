CONSTANTS
    sensor1 = sensor1
    sensor2 = sensor2
    sig1 = sig1
    sig2 = sig2
    Sensors <- MCSensors
    FlakySensors <- MCFlaky
    SignalStops <- MCSignals
    BufferSize = 2
SPECIFICATION Spec
INVARIANTS TypeOK ExitQuiescent SystemInv
PROPERTIES StopCompletes ExitAfterSignal NoReadingAfterMainStop
