----------------------------- MODULE ThreadPool -----------------------------
(***************************************************************************)
(* The thread pool of the PHY (common/utils/threadPool/thread-pool.c,      *)
(* bounded_notified_fifo.h, task_ans.c).                                   *)
(*                                                                         *)
(* Every worker has a queue with a mutex and a condition variable.         *)
(* pushTpool tries the mutexes one after the other and takes the first     *)
(* that is free; a worker tries every queue, its own first, and sleeps on  *)
(* its own when it has found nothing.  A client issues a batch of jobs and *)
(* waits for them with a task_ans_t; when all have done so one of them     *)
(* calls abortTpool, which pushes a poison pill that the workers pass on.  *)
(*                                                                         *)
(* A critical section is two steps, one that takes the mutex and one that  *)
(* works and releases it, so that the trylock of another thread can fail.  *)
(* The ring buffer grows when it is full: a queue is an unbounded sequence.*)
(***************************************************************************)
EXTENDS Integers, Sequences, FiniteSets

CONSTANTS
    N,         \* tpool->len_thr (the pool without workers runs jobs inline)
    Clients,   \* threads that call pushTpool and join_task_ans
    Main,      \* the client that calls abortTpool
    Jobs,      \* for every client, the jobs in its batch
    Poison,    \* the task_t whose func and args are NULL
    None       \* no thread, no task

Workers == 0 .. N - 1
Threads == Workers \cup Clients
Tasks == UNION {{c} \X (1 .. Jobs[c]) : c \in Clients}
Items == Tasks \cup {Poison}

ASSUME PoolAssumption ==
    /\ N \in Nat \ {0}
    /\ Main \in Clients
    /\ Jobs \in [Clients -> Nat \ {0}]
    /\ Workers \cap Clients = {}
    /\ Poison \notin Tasks
    /\ None \notin Threads \cup Items

VARIABLES
    queue,     \* q_arr[w].r
    mutex,     \* q_arr[w].mtx: the thread that holds it, or None
    index,     \* tpool->index, modulo N
    pc,        \* where a thread is
    start,     \* pushTpool: the index it has taken
    at,        \* the loop variable i of pushTpool and worker_thread
    item,      \* the task_t a thread is pushing or has popped
    issued,    \* jobs a client has issued
    counter,   \* ans->counter
    sem,       \* ans->sem
    runs,      \* (history) how often a task was run
    alive      \* no assertion has ended the process

poolVars == <<queue, mutex, index, pc, start, at, item, issued, counter, sem, runs, alive>>

PoolInit ==
    /\ queue = [w \in Workers |-> <<>>]
    /\ mutex = [w \in Workers |-> None]
    /\ index = 0
    /\ pc = [t \in Threads |-> IF t \in Workers THEN "scan" ELSE "issue"]
    /\ start = [t \in Threads |-> 0]
    /\ at = [t \in Threads |-> IF t \in Workers THEN t ELSE 0]
    /\ item = [t \in Threads |-> None]
    /\ issued = [c \in Clients |-> 0]
    /\ counter = Jobs
    /\ sem = [c \in Clients |-> 0]
    /\ runs = [x \in Tasks |-> 0]
    /\ alive = TRUE

\* The queue a thread is at.
Target(t) == (start[t] + at[t]) % N

Goto(t, label) == pc' = [pc EXCEPT ![t] = label]

LockOf(q, t) ==
    /\ mutex[q] = None
    /\ mutex' = [mutex EXCEPT ![q] = t]

UnlockOf(q) == mutex' = [mutex EXCEPT ![q] = None]
-----------------------------------------------------------------------------
\* pushTpool(tpool, x), up to the loop
StartPush(t, x) ==
    /\ start' = [start EXCEPT ![t] = index]
    /\ index' = (index + 1) % N
    /\ at' = [at EXCEPT ![t] = 0]
    /\ item' = [item EXCEPT ![t] = x]
    /\ Goto(t, "push")

\* try_push_not_q up to the trylock
TryPush(t) ==
    /\ pc[t] = "push"
    /\ at[t] < N
    /\ \/ /\ LockOf(Target(t), t)
          /\ Goto(t, "store")
          /\ UNCHANGED at
       \/ /\ mutex[Target(t)] # None
          /\ at' = [at EXCEPT ![t] = @ + 1]
          /\ UNCHANGED <<mutex, pc>>
    /\ UNCHANGED <<queue, index, start, item, issued, counter, sem, runs, alive>>

\* push_not_q up to the lock, when every trylock has failed.  It asserts that
\* the task has a function: the poison has none.
PushAnyway(t) ==
    /\ pc[t] = "push"
    /\ at[t] = N
    /\ \/ /\ item[t] = Poison
          /\ alive' = FALSE
          /\ UNCHANGED <<mutex, pc>>
       \/ /\ item[t] # Poison
          /\ LockOf(Target(t), t)
          /\ Goto(t, "store")
          /\ UNCHANGED alive
    /\ UNCHANGED <<queue, index, start, at, item, issued, counter, sem, runs>>

\* The return of pushTpool.
Return(t) ==
    IF t \in Workers THEN "exited"
    ELSE IF item[t] = Poison THEN "joining"
    ELSE "issue"

\* (variant: the length after the push is compared with 1)
StoreSignalsIfMore(t) ==
    /\ pc[t] = "store"
    /\ queue' = [queue EXCEPT ![Target(t)] = Append(@, item[t])]
    /\ UnlockOf(Target(t))
    /\ Goto(t, IF queue[Target(t)] # <<>> THEN "signal" ELSE Return(t))
    /\ UNCHANGED <<index, start, at, item, issued, counter, sem, runs, alive>>

\* The rest of the critical section of try_push_not_q and push_not_q.
Store(t) ==
    /\ pc[t] = "store"
    /\ queue' = [queue EXCEPT ![Target(t)] = Append(@, item[t])]
    /\ UnlockOf(Target(t))
    /\ Goto(t, "signal")
    /\ UNCHANGED <<index, start, at, item, issued, counter, sem, runs, alive>>

\* condsignal, after the mutex was released.
Signal(t) ==
    /\ pc[t] = "signal"
    /\ pc' = IF pc[Target(t)] = "sleep"
             THEN [pc EXCEPT ![t] = Return(t), ![Target(t)] = "lock"]
             ELSE [pc EXCEPT ![t] = Return(t)]
    /\ item' = [item EXCEPT ![t] = None]
    /\ start' = [start EXCEPT ![t] = 0]
    /\ at' = [at EXCEPT ![t] = 0]
    /\ UNCHANGED <<queue, mutex, index, issued, counter, sem, runs, alive>>

Push(t) == TryPush(t) \/ PushAnyway(t) \/ Store(t) \/ Signal(t)
-----------------------------------------------------------------------------
\* worker_thread: the scan starts at the worker's own queue (PoolInit, PopFrom).
\* try_pop_not_q up to the trylock; after 2 * (N + w) - w tries, pop_not_q.
Scan(w) ==
    /\ pc[w] = "scan"
    /\ \/ /\ at[w] < 2 * (N + w)
          /\ LockOf(Target(w), w)
          /\ Goto(w, "peek")
          /\ UNCHANGED at
       \/ /\ at[w] < 2 * (N + w)
          /\ mutex[Target(w)] # None
          /\ at' = [at EXCEPT ![w] = @ + 1]
          /\ UNCHANGED <<mutex, pc>>
       \/ /\ at[w] = 2 * (N + w)
          /\ Goto(w, "lock")
          /\ UNCHANGED <<mutex, at>>
    /\ UNCHANGED <<queue, index, start, item, issued, counter, sem, runs, alive>>

\* The worker holds the mutex of q, whose queue is not empty.
PopFrom(q, w) ==
    /\ queue[q] # <<>>
    /\ item' = [item EXCEPT ![w] = Head(queue[q])]
    /\ queue' = [queue EXCEPT ![q] = Tail(@)]
    /\ UnlockOf(q)
    /\ at' = [at EXCEPT ![w] = w]
    /\ Goto(w, "run")

\* The rest of the critical section of try_pop_not_q.
Peek(w) ==
    /\ pc[w] = "peek"
    /\ \/ PopFrom(Target(w), w)
       \/ /\ queue[Target(w)] = <<>>
          /\ UnlockOf(Target(w))
          /\ at' = [at EXCEPT ![w] = @ + 1]
          /\ Goto(w, "scan")
          /\ UNCHANGED <<queue, item>>
    /\ UNCHANGED <<index, start, issued, counter, sem, runs, alive>>

\* pop_not_q: the mutex is taken before the loop and after every condwait,
Lock(w) ==
    /\ pc[w] = "lock"
    /\ LockOf(w, w)
    /\ Goto(w, "check")
    /\ UNCHANGED <<queue, index, start, at, item, issued, counter, sem, runs, alive>>

\* and condwait releases it and sleeps in one step.
Check(w) ==
    /\ pc[w] = "check"
    /\ \/ PopFrom(w, w)
       \/ /\ queue[w] = <<>>
          /\ UnlockOf(w)
          /\ Goto(w, "sleep")
          /\ UNCHANGED <<queue, item, at>>
    /\ UNCHANGED <<index, start, issued, counter, sem, runs, alive>>

\* pthread_cond_wait may return without a signal.
WakeUpByChance(w) ==
    /\ pc[w] = "sleep"
    /\ Goto(w, "lock")
    /\ UNCHANGED <<queue, mutex, index, start, at, item, issued, counter, sem, runs, alive>>
-----------------------------------------------------------------------------
\* (variant: every job that ends posts)
CompletedPostsAlways(c) ==
    /\ counter' = [counter EXCEPT ![c] = @ - 1]
    /\ sem' = [sem EXCEPT ![c] = @ + 1]

\* completed_task_ans, completed_many_task_ans for one job: whoever takes the
\* counter to zero posts.
Completed(c) ==
    /\ counter' = [counter EXCEPT ![c] = @ - 1]
    /\ sem' = IF counter[c] = 1 THEN [sem EXCEPT ![c] = @ + 1] ELSE sem

\* The function of a task runs and ends with completed_task_ans.
RunTask(w) ==
    /\ pc[w] = "run"
    /\ item[w] # Poison
    /\ runs' = [runs EXCEPT ![item[w]] = @ + 1]
    /\ Completed(item[w][1])
    /\ item' = [item EXCEPT ![w] = None]
    /\ Goto(w, "scan")
    /\ UNCHANGED <<queue, mutex, index, start, at, issued, alive>>

\* (variant: the pill is swallowed)
MeetPoisonAndLeave(w) ==
    /\ pc[w] = "run"
    /\ item[w] = Poison
    /\ item' = [item EXCEPT ![w] = None]
    /\ Goto(w, "exited")
    /\ UNCHANGED <<queue, mutex, index, start, at, issued, counter, sem, runs, alive>>

\* The worker pushes the pill again and leaves.
MeetPoison(w) ==
    /\ pc[w] = "run"
    /\ item[w] = Poison
    /\ StartPush(w, Poison)
    /\ UNCHANGED <<queue, mutex, issued, counter, sem, runs, alive>>

Work(w) ==
    \/ Scan(w) \/ Peek(w) \/ Lock(w) \/ Check(w)
    \/ RunTask(w) \/ MeetPoison(w)
    \/ Push(w)
-----------------------------------------------------------------------------
\* The functions of the PHY push their jobs, and run some inline.
IssueJob(c) ==
    /\ pc[c] = "issue"
    /\ issued[c] < Jobs[c]
    /\ issued' = [issued EXCEPT ![c] = @ + 1]
    /\ \/ /\ StartPush(c, <<c, issued[c] + 1>>)
          /\ UNCHANGED <<counter, sem, runs>>
       \/ /\ runs' = [runs EXCEPT ![<<c, issued[c] + 1>>] = @ + 1]
          /\ Completed(c)
          /\ UNCHANGED <<index, pc, start, at, item>>
    /\ UNCHANGED <<queue, mutex, alive>>

\* join_task_ans
Join(c) ==
    /\ pc[c] = "issue"
    /\ issued[c] = Jobs[c]
    /\ sem[c] > 0
    /\ sem' = [sem EXCEPT ![c] = @ - 1]
    /\ Goto(c, "joined")
    /\ UNCHANGED <<queue, mutex, index, start, at, item, issued, counter, runs, alive>>

\* term_gNB_Tpool joins the threads that use the pool, then calls abortTpool,
Abort ==
    /\ \A c \in Clients : pc[c] = "joined"
    /\ StartPush(Main, Poison)
    /\ UNCHANGED <<queue, mutex, issued, counter, sem, runs, alive>>

\* which waits for the workers and frees the queues.
JoinWorkers ==
    /\ pc[Main] = "joining"
    /\ \A w \in Workers : pc[w] = "exited"
    /\ Goto(Main, "returned")
    /\ UNCHANGED <<queue, mutex, index, start, at, item, issued, counter, sem, runs, alive>>

Use(c) == IssueJob(c) \/ Join(c) \/ Push(c)

PoolNext ==
    /\ alive
    /\ \/ \E w \in Workers : Work(w) \/ WakeUpByChance(w)
       \/ \E c \in Clients : Use(c)
       \/ Abort
       \/ JoinWorkers

PoolSpec == PoolInit /\ [][PoolNext]_poolVars

\* Every thread is scheduled.  A mutex need not be granted fairly, and no one is
\* bound to abort the pool or to wake up by chance.
FairPoolSpec ==
    /\ PoolSpec
    /\ \A w \in Workers : WF_poolVars(alive /\ Work(w))
    /\ \A c \in Clients : WF_poolVars(alive /\ Use(c)) /\ SF_poolVars(alive /\ PushAnyway(c))
    /\ WF_poolVars(alive /\ JoinWorkers)
-----------------------------------------------------------------------------
Labels ==
    {"scan", "peek", "lock", "check", "sleep", "run", "exited", "push", "store", "signal",
     "issue", "joined", "joining", "returned"}

PoolTypes ==
    /\ queue \in [Workers -> Seq(Items)]
    /\ mutex \in [Workers -> Threads \cup {None}]
    /\ index \in 0 .. N - 1
    /\ pc \in [Threads -> Labels]
    /\ start \in [Threads -> 0 .. N - 1]
    /\ at \in [Threads -> Nat]
    /\ item \in [Threads -> Items \cup {None}]
    /\ issued \in [Clients -> Nat]
    /\ counter \in [Clients -> Int]
    /\ sem \in [Clients -> Nat]
    /\ runs \in [Tasks -> Nat]
    /\ alive \in BOOLEAN

\* The variables have the types of the structs' members and the loops stay in
\* their bounds; no more jobs are issued or completed than the batch has, and
\* ans->sem is posted once.
PoolTypeOK ==
    /\ PoolTypes
    /\ \A t \in Threads : at[t] <= IF t \in Workers THEN 2 * (N + t) ELSE N
    /\ \A c \in Clients : /\ issued[c] <= Jobs[c]
                         /\ counter[c] \in 0 .. Jobs[c]
                         /\ sem[c] <= 1
    /\ \A x \in Tasks : runs[x] <= 1

\* push_not_q, pop_not_q, worker_thread: a worker never sleeps on a queue that
\* has something in it, unless its signal is about to come.
NoLostWakeup ==
    \A w \in Workers :
        pc[w] = "sleep" /\ queue[w] # <<>> =>
            \E t \in Threads : pc[t] = "signal" /\ Target(t) = w

\* How often x is in a queue.
Queued(x) == Cardinality(UNION {{w} \X {i \in DOMAIN queue[w] : queue[w][i] = x} : w \in Workers})

\* How many threads hold x, on its way into a queue or popped.
InHand(x) == Cardinality({t \in Threads : item[t] = x /\ pc[t] # "signal"})

\* pushTpool and worker_thread: between its issue and its end a job is in
\* exactly one queue or in the hands of one thread, whatever trylocks fail, and
\* the poison, once pushed, is never lost nor multiplied.
EveryItemIsInOnePlace ==
    /\ \A x \in Tasks :
          Queued(x) + InHand(x) + runs[x] = IF x[2] <= issued[x[1]] THEN 1 ELSE 0
    /\ Queued(Poison) + InHand(Poison) =
          IF item[Main] = Poison \/ pc[Main] \in {"joining", "returned"} THEN 1 ELSE 0

\* completed_task_ans and join_task_ans: join_task_ans returns when every job of
\* the batch has run, and not before.
JoinedAfterAllRan ==
    \A x \in Tasks : pc[x[1]] = "joined" => runs[x] = 1

\* pushTpool and worker_thread: every batch ends, whichever workers sleep and
\* whichever mutexes are taken.
EveryJoinReturns == <>(\A c \in Clients : pc[c] = "joined")

\* thread-pool.h: "Abort tpool, stop all threads and return".
AbortReturns == pc[Main] = "joining" ~> pc[Main] = "returned" \/ ~alive

\* The poison is in the queue of a worker that has left.
PoisonStranded ==
    \E w \in Workers : pc[w] = "exited" /\ \E i \in DOMAIN queue[w] : queue[w][i] = Poison

\* worker_thread and abortTpool: a shutdown that the assertion of push_not_q does
\* not end hangs in one way only, with the poison in the queue of a worker that has
\* left.  No poison is swallowed, overlooked by a worker that is awake, or passed
\* round for ever.
AbortReturnsUnlessStranded ==
    pc[Main] = "joining" ~> pc[Main] = "returned" \/ PoisonStranded \/ ~alive

\* The same without fairness: when no worker is awake, all have left or the poison
\* lies where a worker has left it.
HangsOnlyStranded ==
    pc[Main] = "joining" /\ (\A w \in Workers : pc[w] \in {"sleep", "exited"}) =>
        (\A w \in Workers : pc[w] = "exited") \/ PoisonStranded
=============================================================================
