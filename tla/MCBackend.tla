----------------------------- MODULE MCBackend -----------------------------
\* DbgEngBackend with two sessions in one process and two close calls.
EXTENDS DbgEngBackend
=============================================================================
