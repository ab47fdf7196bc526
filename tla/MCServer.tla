------------------------------- MODULE MCServer -------------------------------
(* McpServer on a small instance: one event stream, one POST, one thread of  *)
(* the session manager.                                                      *)
EXTENDS McpServer
=============================================================================
