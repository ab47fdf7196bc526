------------------------------ MODULE MCLaunch ------------------------------
\* ProcessLaunch with two concurrent launches, one of which may elevate.
EXTENDS ProcessLaunch
=============================================================================
