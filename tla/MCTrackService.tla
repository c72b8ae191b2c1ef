--------------------------- MODULE MCTrackService ---------------------------
(* The pauses keep their order: 5 s, 30 s, 5 min. *)
EXTENDS TrackService

MCRetryDelays == <<2, 3, 5>>
=============================================================================
