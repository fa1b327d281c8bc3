------------------------- MODULE MCEdgeSLMInference -------------------------
(***************************************************************************)
(* An instance of EdgeSLMInference for TLC.                                *)
(***************************************************************************)
EXTENDS EdgeSLMInference, TLC

CONSTANTS sensor1, sensor2

MCSensors == {sensor1, sensor2}
=============================================================================
