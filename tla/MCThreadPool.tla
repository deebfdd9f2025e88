---------------------------- MODULE MCThreadPool ----------------------------
(***************************************************************************)
(* ThreadPool for TLC.                                                     *)
(***************************************************************************)
EXTENDS ThreadPool

CONSTANT JobsOfMain

\* The other clients issue one job.
MCJobs == [c \in Clients |-> IF c = Main THEN JobsOfMain ELSE 1]
=============================================================================
