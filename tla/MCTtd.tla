------------------------------- MODULE MCTtd --------------------------------
(* TtdRecording on small instances. *)
EXTENDS TtdRecording
=============================================================================
