--------------------------- MODULE MCTrackLogger ---------------------------
(* Small strings for the model checker: a buffer holds the header and one
   point, or two points and a footer. *)
EXTENDS TrackLogger

MCStrLen == [header |-> 2, point |-> 2, footer |-> 1]
MCFaults == {"write", "sync", "append", "create"}
=============================================================================
