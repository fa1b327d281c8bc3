------------------------ MODULE MCLearnerPersistence ------------------------
(***************************************************************************)
(* Instances of LearnerPersistence for TLC: which files the first start    *)
(* may find.                                                               *)
(***************************************************************************)
EXTENDS LearnerPersistence, TLC

\* Files this code leaves behind: none yet, a torn one, a complete record.
MCOwnFiles == {Absent, Torn} \cup [kind : {"complete"}, v : Progress]

\* A fresh installation.
MCNoFile == {Absent}

\* A valid record without "metadata", e.g. copied from another install.
MCForeignFile == [kind : {"no_metadata"}, v : 1..MaxLearned]
=============================================================================
