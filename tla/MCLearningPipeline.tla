------------------------- MODULE MCLearningPipeline -------------------------
(***************************************************************************)
(* Instances of LearningPipeline for TLC.  The sensors are model values;   *)
(* each run picks a set of them and the constants from its .cfg.           *)
(***************************************************************************)
EXTENDS LearningPipeline, TLC

CONSTANTS temp1, motion1, accel1, cam1

\* The sensor classes of sensor_manager.py with their SensorType.
MCSensorType ==
    (temp1 :> "temperature") @@ (motion1 :> "motion")
        @@ (accel1 :> "accelerometer") @@ (cam1 :> "camera")

MCTempMotion == {temp1, motion1}
MCAccelCam == {accel1, cam1}
MCTempOnly == {temp1}
MCMotionOnly == {motion1}
MCCamOnly == {cam1}
=============================================================================
