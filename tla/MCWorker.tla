------------------------------ MODULE MCWorker ------------------------------
\* WorkerProtocol with a create, two executes, a close and a kill, one event,
\* one line that is no frame and one failing operating system call.
EXTENDS WorkerProtocol
=============================================================================
