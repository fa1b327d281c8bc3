--------------------------- MODULE MCEdgeAISystem ---------------------------
(***************************************************************************)
(* Instances of EdgeAISystem for TLC: sensors and the signal handler's     *)
(* stop() tasks are model values.                                          *)
(***************************************************************************)
EXTENDS EdgeAISystem, TLC

CONSTANTS sensor1, sensor2, sig1, sig2

MCSensors == {sensor1, sensor2}
MCFlaky == {sensor2}
MCNoFlaky == {}
MCSignals == {sig1, sig2}
MCOneSignal == {sig1}
=============================================================================
