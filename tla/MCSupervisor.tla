---------------------------- MODULE MCSupervisor ----------------------------
(* IdaSupervisor on a small instance. *)
EXTENDS IdaSupervisor

\* The first process may refuse to be killed, its successors do not.
First == {1}
=============================================================================
