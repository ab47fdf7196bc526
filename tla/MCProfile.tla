----------------------------- MODULE MCProfile ------------------------------
(* ProfileManager on small instances. *)
EXTENDS ProfileManager
=============================================================================
