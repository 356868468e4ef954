---------------------------- MODULE MCDataManager ----------------------------
(***************************************************************************)
(* Instances of DataManager for TLC.  The configurations give all its      *)
(* constants; keys are integers and ordered, so no symmetry applies to     *)
(* them, and one payload beside the tombstone is enough (README.md).       *)
(***************************************************************************)
EXTENDS DataManager, TLC
==============================================================================
