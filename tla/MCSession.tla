------------------------------ MODULE MCSession ------------------------------
(* SessionManager on small instances, against its abstract specification. *)
EXTENDS SessionRefinement, TLC

CallSymmetry == Permutations(Clients) \cup Permutations(Ops)
AllSymmetry == CallSymmetry \cup Permutations(Sessions)

\* Bound of the run with two sessions: one of the two has a worker.  The
\* other can be created, offered for reuse, closed and timed out, with its
\* startup thread pending.
OneWorker == \E s \in Sessions : startup[s] \in {"off", "lock"}
=============================================================================
