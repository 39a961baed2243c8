--------------------------- MODULE MCPointLogStore ---------------------------
(* PointLogStore for model checking; its constants are in the .cfg files.   *)
EXTENDS PointLogStore
=============================================================================
