-------------------------- MODULE MCBackgroundJobs --------------------------
(* Two API processes on one host poll two jobs.                             *)
EXTENDS BackgroundJobs

\* Each process has a pid of its own.
OwnPid == [p \in Processes |-> p]
=============================================================================
