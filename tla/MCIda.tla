------------------------------- MODULE MCIda --------------------------------
(* IdaSessionManager on a small instance. *)
EXTENDS IdaSessionManager, TLC

ClientSymmetry == Permutations(Clients)
=============================================================================
