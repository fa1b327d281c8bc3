CONSTANTS
    sensor1 = sensor1
    sensor2 = sensor2
    sig1 = sig1
    sig2 = sig2
    Sensors <- MCSensors
    FlakySensors <- MCNoFlaky
    SignalStops <- MCOneSignal
    BufferSize = 2
SPECIFICATION Spec
INVARIANT QuietAfterStop
