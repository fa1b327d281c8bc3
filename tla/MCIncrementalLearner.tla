------------------------ MODULE MCIncrementalLearner ------------------------
(***************************************************************************)
(* The learner alone for TLC, fed feature vectors of every length in any   *)
(* order, as add_experience accepts them from any caller.                  *)
(***************************************************************************)
EXTENDS IncrementalLearner, TLC

CONSTANTS s1, s2
MCSensors == {s1, s2}
=============================================================================
