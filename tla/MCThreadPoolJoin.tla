-------------------------- MODULE MCThreadPoolJoin --------------------------
(***************************************************************************)
(* ThreadPoolMemory for TLC: one client with two jobs.                     *)
(***************************************************************************)
EXTENDS ThreadPoolMemory

MCJobs == [c \in Clients |-> 2]
=============================================================================
