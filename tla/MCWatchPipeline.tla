--------------------------- MODULE MCWatchPipeline ---------------------------
(* Instances of WatchPipeline for TLC.                                      *)
EXTENDS WatchPipeline
=============================================================================
