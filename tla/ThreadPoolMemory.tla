-------------------------- MODULE ThreadPoolMemory --------------------------
(***************************************************************************)
(* Which results of the jobs a thread of the pool is certain to see: the   *)
(* happens-before order of C11 between the end of a job and the point      *)
(* where a thread is.                                                      *)
(*                                                                         *)
(* What a thread has seen is passed on by the mutex of a queue, from the   *)
(* thread that releases it to the one that takes it, by tpool->index, a    *)
(* sequentially consistent counter, and by ans->sem.  ans->counter is      *)
(* decremented with memory_order_relaxed and passes nothing.               *)
(***************************************************************************)
EXTENDS ThreadPool

VARIABLES
    seen,       \* tasks whose results a thread sees
    lockSeen,   \* what the last threads that held a mutex had seen
    indexSeen,  \* what the threads that went through pushTpool had seen
    semSeen     \* what the thread that posted ans->sem had seen

memVars == <<poolVars, seen, lockSeen, indexSeen, semSeen>>

MemInit ==
    /\ PoolInit
    /\ seen = [t \in Threads |-> {}]
    /\ lockSeen = [q \in Workers |-> {}]
    /\ indexSeen = {}
    /\ semSeen = [c \in Clients |-> {}]

\* What the step of PoolNext is, for the thread t.
Takes(t) == {q \in Workers : mutex[q] = None /\ mutex'[q] = t}
Releases(t) == {q \in Workers : mutex[q] = t /\ mutex'[q] = None}
TakesIndex(t) == pc[t] # "push" /\ pc'[t] = "push"
Runs(t) ==
    {x \in Tasks : /\ runs'[x] # runs[x]
                   /\ IF t \in Workers THEN item[t] = x ELSE issued'[t] # issued[t]}
Waits(t) == {c \in Clients : c = t /\ sem'[c] < sem[c]}

Learns(t) ==
    UNION {lockSeen[q] : q \in Takes(t)}
    \cup (IF TakesIndex(t) THEN indexSeen ELSE {})
    \cup Runs(t)
    \cup UNION {semSeen[c] : c \in Waits(t)}

PassOn ==
    /\ seen' = [t \in Threads |-> seen[t] \cup Learns(t)]
    /\ lockSeen' = [q \in Workers |->
                      lockSeen[q] \cup UNION {seen[t] : t \in {u \in Threads : q \in Releases(u)}}]
    /\ indexSeen' = indexSeen \cup UNION {seen[t] : t \in {u \in Threads : TakesIndex(u)}}
    /\ semSeen' = [c \in Clients |->
                     IF sem'[c] > sem[c]
                     THEN UNION {seen'[t] : t \in {u \in Threads : Runs(u) # {}}}
                     ELSE semSeen[c]]

MemNext == PoolNext /\ PassOn

MemSpec == MemInit /\ [][MemNext]_memVars

\* test_thread-pool.c:128-134 reads what every job has written as soon as
\* join_task_ans has returned, as the callers in the PHY do: the results of all
\* jobs of a batch are seen by the client that has joined it.
JoinSeesResults ==
    \A x \in Tasks : pc[x[1]] = "joined" => x \in seen[x[1]]
=============================================================================
