CONSTANTS
    sensor1 = sensor1
    sensor2 = sensor2
    Sensors <- MCSensors
    MaxContext = 3
    MaxTicks = 7
SPECIFICATION InferenceSpec
INVARIANTS InferenceTypeOK ContextIsNewestAnswers
