------------------------ MODULE ThreadPoolJoin_proofs ------------------------
(***************************************************************************)
(* Jobs of the thread pool: each runs once, join_task_ans returns when all *)
(* of a batch have run, and a shutdown hangs in one way only; proof for    *)
(* any number of workers, clients and jobs.                                *)
(***************************************************************************)
EXTENDS ThreadPool_proofs, FiniteSetTheorems

\* The task a thread holds, on its way into a queue or popped.
Holds(t) == item[t] \in Items /\ pc[t] # "signal"

\* An issued job that has not run.
Waiting(x) == runs[x] = 0 /\ x[2] <= issued[x[1]]

\* The client that aborts the pool is pushing the poison or has pushed it.
PoisonIsOut == item[Main] = Poison \/ pc[Main] \in {"joining", "returned"}

\* What must be in some place, and what is.
Outstanding(x) == IF x = Poison THEN PoisonIsOut ELSE Waiting(x)
IsQueued(x) == \E w \in Workers : \E i \in 1 .. Len(queue[w]) : queue[w][i] = x
IsHeld(x) == \E t \in Threads : Holds(t) /\ item[t] = x

\* An item is in one queue at most, and once; in the hands of one thread at
\* most; not in both; in either when it is outstanding and only then.  A job
\* runs once.
QueuedOnce ==
    \A v, w \in Workers : \A i \in 1 .. Len(queue[v]), j \in 1 .. Len(queue[w]) :
        queue[v][i] = queue[w][j] => v = w /\ i = j
HeldOnce == \A t, u \in Threads : Holds(t) /\ Holds(u) /\ item[t] = item[u] => t = u
QueuedOrHeld ==
    \A t \in Threads, w \in Workers : \A i \in 1 .. Len(queue[w]) :
        Holds(t) => queue[w][i] # item[t]
QueuedWaits == \A w \in Workers : \A i \in 1 .. Len(queue[w]) : Outstanding(queue[w][i])
HeldWaits == \A t \in Threads : Holds(t) => Outstanding(item[t])
NothingLost == \A x \in Items : Outstanding(x) => IsQueued(x) \/ IsHeld(x)
RunsOnce == \A x \in Tasks : runs[x] # 0 => runs[x] = 1 /\ x[2] <= issued[x[1]]

OnePlaceInv ==
    /\ QueuedOnce /\ HeldOnce /\ QueuedOrHeld
    /\ QueuedWaits /\ HeldWaits /\ NothingLost
    /\ RunsOnce

\* A thread that neither pushes nor has popped holds nothing.
IdleHoldsNothing ==
    \A t \in Threads : pc[t] \notin {"run", "push", "store", "signal"} => item[t] = None

\* A task is a client and the number of a job in its batch.
LEMMA JobIsTask ==
    ASSUME NEW c \in Clients, NEW j \in 1 .. Jobs[c]
    PROVE  <<c, j>> \in Tasks
<1>1. <<c, j>> \in {c} \X (1 .. Jobs[c])
  OBVIOUS
<1> QED
  BY <1>1 DEF Tasks

\* And such a pair is all a task is.
LEMMA TaskIsJob ==
    ASSUME NEW x \in Tasks
    PROVE  /\ x[1] \in Clients
           /\ x[2] \in 1 .. Jobs[x[1]]
           /\ x = <<x[1], x[2]>>
<1>1. PICK c \in Clients : x \in {c} \X (1 .. Jobs[c])
  BY DEF Tasks
<1> QED
  BY <1>1

\* Only abortTpool lets the poison out, and no one takes it back.
LEMMA IdleStays ==
    ASSUME WakeupInv, IdleHoldsNothing, PoolNext
    PROVE  /\ IdleHoldsNothing'
           /\ ~Abort => (PoisonIsOut' <=> PoisonIsOut)
<1>1. /\ pc \in [Threads -> Labels] /\ item \in [Threads -> Items \cup {None}]
      /\ \A t \in Threads : Target(t) \in Workers
  BY TargetIsAQueue DEF WakeupInv, PoolTypes
<1>2. /\ Main \in Clients /\ Workers \cap Clients = {} /\ Threads = Workers \cup Clients
      /\ None # Poison /\ Poison \notin Tasks
  BY PoolAssumption DEF Threads, Items
<1>3. ASSUME NEW t \in Threads, Push(t)
      PROVE  /\ IdleHoldsNothing'
             /\ PoisonIsOut' <=> PoisonIsOut
  <2>1. CASE Signal(t)
    <3>1. /\ item' = [item EXCEPT ![t] = None]
          /\ pc'[t] = Return(t) \/ (pc'[t] = "lock" /\ t \in Workers)
          /\ \A u \in Threads : u # t => pc'[u] = pc[u] \/ (pc[u] = "sleep" /\ u \in Workers)
      <4> DEFINE q == Target(t)
      <4>1. /\ pc' = [pc EXCEPT ![t] = Return(t), ![q] = "lock"] \/ pc' = [pc EXCEPT ![t] = Return(t)]
            /\ item' = [item EXCEPT ![t] = None]
        BY <2>1 DEF Signal
      <4>2. q \in Workers
        BY <1>1
      <4> HIDE DEF q
      <4> QED
        BY <1>1, <1>2, <2>1, <4>1, <4>2 DEF Signal, q
    <3>2. IdleHoldsNothing'
      BY <1>1, <1>2, <3>1 DEF IdleHoldsNothing
    <3>3. t = Main => (PoisonIsOut' <=> PoisonIsOut)
      BY <1>1, <1>2, <2>1, <3>1 DEF PoisonIsOut, Return, Signal
    <3>4. t # Main => (PoisonIsOut' <=> PoisonIsOut)
      BY <1>1, <1>2, <3>1 DEF PoisonIsOut
    <3> QED
      BY <3>2, <3>3, <3>4
  <2>2. CASE TryPush(t) \/ PushAnyway(t) \/ Store(t)
    <3>1. /\ item' = item
          /\ pc[t] \in {"push", "store"} /\ pc'[t] \in {"push", "store", "signal"}
          /\ \A u \in Threads : u # t => pc'[u] = pc[u]
      BY <1>1, <2>2 DEF TryPush, PushAnyway, Store, Goto
    <3> QED
      BY <1>2, <3>1 DEF IdleHoldsNothing, PoisonIsOut
  <2> QED
    BY <1>3, <2>1, <2>2 DEF Push
<1>4. ASSUME NEW w \in Workers, Work(w) \/ WakeUpByChance(w), ~Push(w)
      PROVE  /\ IdleHoldsNothing'
             /\ PoisonIsOut' <=> PoisonIsOut
  <2>1. w \in Threads /\ w # Main
    BY <1>2
  <2>2. \A u \in Threads : u # w => pc'[u] = pc[u] /\ item'[u] = item[u]
    BY <1>1, <1>4, <2>1 DEF Work, Scan, Peek, Lock, Check, RunTask, MeetPoison, WakeUpByChance,
                            PopFrom, StartPush, Goto
  <2>3. \/ pc'[w] \in {"run", "push", "store", "signal"}
        \/ item'[w] = None
        \/ item'[w] = item[w] /\ pc[w] \notin {"run", "push", "store", "signal"}
    BY <1>1, <1>4, <2>1 DEF Work, Scan, Peek, Lock, Check, RunTask, MeetPoison, WakeUpByChance,
                            PopFrom, StartPush, Goto
  <2> QED
    BY <1>2, <2>1, <2>2, <2>3 DEF IdleHoldsNothing, PoisonIsOut
<1>5. ASSUME NEW c \in Clients, IssueJob(c)
      PROVE  /\ IdleHoldsNothing'
             /\ PoisonIsOut' <=> PoisonIsOut
  <2>1. CASE UNCHANGED <<index, pc, start, at, item>>
    BY <2>1 DEF IdleHoldsNothing, PoisonIsOut
  <2>2. CASE StartPush(c, <<c, issued[c] + 1>>)
    <3>1. <<c, issued[c] + 1>> \in Tasks
      <4>1. issued[c] + 1 \in 1 .. Jobs[c]
        <5>1. issued[c] < Jobs[c] /\ issued[c] \in Nat
          BY <1>5 DEF IssueJob, WakeupInv, PoolTypes
        <5>2. Jobs[c] \in Nat
          BY PoolAssumption
        <5> QED
          BY <5>1, <5>2
      <4> QED
        BY <4>1, JobIsTask
    <3>2. <<c, issued[c] + 1>> # Poison
      BY <1>2, <3>1
    <3>3. /\ pc[c] = "issue" /\ pc'[c] = "push" /\ item'[c] # Poison
          /\ \A u \in Threads : u # c => pc'[u] = pc[u] /\ item'[u] = item[u]
      BY <1>1, <1>2, <1>5, <2>2, <3>2 DEF IssueJob, StartPush, Goto
    <3> QED
      BY <1>2, <3>3 DEF IdleHoldsNothing, PoisonIsOut
  <2> QED
    BY <1>5, <2>1, <2>2 DEF IssueJob
<1>6. ASSUME NEW c \in Clients, Join(c)
      PROVE  /\ IdleHoldsNothing'
             /\ PoisonIsOut' <=> PoisonIsOut
  BY <1>1, <1>2, <1>6 DEF Join, Goto, IdleHoldsNothing, PoisonIsOut
<1>7. CASE Abort
  <2>1. IdleHoldsNothing'
    BY <1>1, <1>2, <1>7 DEF Abort, StartPush, Goto, IdleHoldsNothing
  <2> QED
    BY <1>7, <2>1
<1>8. CASE JoinWorkers
  BY <1>1, <1>2, <1>8 DEF JoinWorkers, Goto, IdleHoldsNothing, PoisonIsOut
<1>9. CASE \E w \in Workers : Work(w) \/ WakeUpByChance(w)
  BY <1>2, <1>3, <1>4, <1>9
<1>10. CASE \E c \in Clients : Use(c)
  BY <1>2, <1>3, <1>5, <1>6, <1>10 DEF Use
<1> QED
  BY <1>7, <1>8, <1>9, <1>10 DEF PoolNext

THEOREM PoolIdle == PoolSpec => []IdleHoldsNothing
<1>1. PoolInit => IdleHoldsNothing
  BY DEF PoolInit, IdleHoldsNothing, Threads
<1>2. WakeupInv /\ IdleHoldsNothing /\ [PoolNext]_poolVars => IdleHoldsNothing'
  <2> SUFFICES ASSUME WakeupInv, IdleHoldsNothing, [PoolNext]_poolVars
               PROVE  IdleHoldsNothing'
    OBVIOUS
  <2>1. CASE UNCHANGED poolVars
    BY <2>1 DEF poolVars, IdleHoldsNothing
  <2> QED
    BY <2>1, IdleStays
<1> QED
  BY <1>1, <1>2, PoolInvariant, PTL DEF PoolSpec
-----------------------------------------------------------------------------
\* The poison is no job, and there is no third kind of item.
LEMMA ItemFacts ==
    /\ \A x \in Items : x \in Tasks \/ x = Poison
    /\ Tasks \subseteq Items /\ Poison \in Items
    /\ Poison \notin Tasks
    /\ None \notin Items
BY PoolAssumption DEF Items

\* A step that moves nothing keeps every item where it is.
LEMMA NothingMoves ==
    ASSUME OnePlaceInv,
           queue' = queue, runs' = runs, issued' = issued,
           PoisonIsOut' <=> PoisonIsOut,
           \A t \in Threads : Holds(t)' <=> Holds(t),
           \A t \in Threads : Holds(t) => item'[t] = item[t]
    PROVE  OnePlaceInv'
<1>1. \A x : Outstanding(x)' <=> Outstanding(x)
  BY DEF Outstanding, Waiting
<1>2. QueuedOnce' /\ HeldOnce' /\ QueuedOrHeld' /\ RunsOnce'
  BY DEF OnePlaceInv, QueuedOnce, HeldOnce, QueuedOrHeld, RunsOnce
<1>3. QueuedWaits' /\ HeldWaits'
  BY <1>1 DEF OnePlaceInv, QueuedWaits, HeldWaits
<1>4. NothingLost'
  BY <1>1 DEF OnePlaceInv, NothingLost, IsQueued, IsHeld
<1> QED
  BY <1>2, <1>3, <1>4 DEF OnePlaceInv

\* The steps of pushTpool move an item from the thread into a queue.
LEMMA StoreMoves ==
    ASSUME WakeupInv, OnePlaceInv, PoisonIsOut' <=> PoisonIsOut, NEW t \in Threads, Store(t)
    PROVE  OnePlaceInv'
<1> DEFINE q == Target(t)
           x == item[t]
<1>1. q \in Workers
  BY TargetIsAQueue DEF WakeupInv
<1>2. x \in Items /\ Holds(t)
  BY DEF WakeupInv, Store, Holds
<1>3. queue[q] \in Seq(Items) /\ queue \in [Workers -> Seq(Items)]
  BY <1>1 DEF WakeupInv, PoolTypes
<1>4. queue' = [queue EXCEPT ![q] = Append(queue[q], x)]
  BY DEF Store
<1>5. /\ Len(queue'[q]) = Len(queue[q]) + 1
      /\ queue'[q][Len(queue[q]) + 1] = x
      /\ \A i \in 1 .. Len(queue[q]) : queue'[q][i] = queue[q][i]
      /\ Len(queue[q]) \in Nat
  BY <1>1, <1>2, <1>3, <1>4
<1>6. \A w \in Workers \ {q} : queue'[w] = queue[w]
  BY <1>3, <1>4
<1>7. \A w \in Workers : \A i \in 1 .. Len(queue'[w]) :
         \/ i \in 1 .. Len(queue[w]) /\ queue'[w][i] = queue[w][i]
         \/ w = q /\ i = Len(queue[q]) + 1 /\ queue'[w][i] = x
  BY <1>5, <1>6
<1>8. \A u \in Threads : /\ Holds(u)' => u # t /\ Holds(u) /\ item'[u] = item[u]
                         /\ Holds(u) /\ u # t => Holds(u)' /\ item'[u] = item[u]
  BY DEF Store, Goto, Holds, WakeupInv, PoolTypes
<1>9. runs' = runs /\ issued' = issued
  BY DEF Store
<1>10. \A y : Outstanding(y)' <=> Outstanding(y)
  BY <1>9 DEF Outstanding, Waiting
<1> HIDE DEF q, x
<1>11. QueuedOnce'
  <2> SUFFICES ASSUME NEW v \in Workers, NEW w \in Workers,
                      NEW i \in 1 .. Len(queue'[v]), NEW j \in 1 .. Len(queue'[w]),
                      queue'[v][i] = queue'[w][j]
               PROVE  v = w /\ i = j
    BY DEF QueuedOnce
  <2> QED
    BY <1>2, <1>7 DEF OnePlaceInv, QueuedOnce, QueuedOrHeld, x
<1>12. QueuedOrHeld'
  BY <1>2, <1>7, <1>8 DEF OnePlaceInv, QueuedOrHeld, HeldOnce, x
<1>13. QueuedWaits'
  BY <1>2, <1>7, <1>10 DEF OnePlaceInv, QueuedWaits, HeldWaits, x
<1>14. HeldWaits' /\ HeldOnce'
  BY <1>8, <1>10 DEF OnePlaceInv, HeldWaits, HeldOnce
<1>15. RunsOnce'
  BY <1>9 DEF OnePlaceInv, RunsOnce
<1>16. NothingLost'
  <2> SUFFICES ASSUME NEW y \in Items, Outstanding(y)
               PROVE  IsQueued(y)' \/ IsHeld(y)'
    BY <1>10 DEF NothingLost
  <2>1. ASSUME NEW w \in Workers, NEW i \in 1 .. Len(queue[w]), queue[w][i] = y
        PROVE  IsQueued(y)'
    <3>1. i \in 1 .. Len(queue'[w]) /\ queue'[w][i] = y
      BY <1>5, <1>6, <2>1
    <3> QED
      BY <3>1 DEF IsQueued
  <2>2. CASE y = x
    <3>1. Len(queue[q]) + 1 \in 1 .. Len(queue'[q])
      BY <1>5
    <3> QED
      BY <1>1, <1>5, <2>2, <3>1 DEF IsQueued
  <2>3. CASE y # x /\ IsHeld(y)
    BY <1>8, <2>3 DEF IsHeld, x
  <2> QED
    BY <2>1, <2>2, <2>3 DEF OnePlaceInv, NothingLost, IsQueued
<1> QED
  BY <1>11, <1>12, <1>13, <1>14, <1>15, <1>16 DEF OnePlaceInv

\* A step that pops moves an item from a queue into the hands of the worker,
\* which held nothing.
LEMMA PopMoves ==
    ASSUME WakeupInv, OnePlaceInv, PoisonIsOut' <=> PoisonIsOut,
           NEW w \in Workers, NEW q \in Workers, PopFrom(q, w), ~Holds(w),
           runs' = runs, issued' = issued
    PROVE  OnePlaceInv'
<1> DEFINE x == queue[q][1]
           Shift(v) == IF v = q THEN 1 ELSE 0
<1>1. queue \in [Workers -> Seq(Items)] /\ queue[q] \in Seq(Items) /\ queue[q] # <<>>
  BY DEF WakeupInv, PoolTypes, PopFrom
<1>2. x \in Items /\ item'[w] = x /\ w \in Threads
  BY <1>1 DEF PopFrom, Threads, WakeupInv, PoolTypes
<1>3. queue' = [queue EXCEPT ![q] = Tail(queue[q])]
  BY DEF PopFrom
<1>4. /\ Len(queue'[q]) = Len(queue[q]) - 1
      /\ Len(queue[q]) \in Nat \ {0}
      /\ \A i \in 1 .. Len(queue[q]) - 1 : queue'[q][i] = queue[q][i + 1]
  BY <1>1, <1>3
<1>5. \A v \in Workers \ {q} : queue'[v] = queue[v]
  BY <1>1, <1>3
<1>6. \A v \in Workers : \A i \in 1 .. Len(queue'[v]) :
         /\ i \in Nat
         /\ i + Shift(v) \in 1 .. Len(queue[v])
         /\ queue'[v][i] = queue[v][i + Shift(v)]
         /\ v = q => i + Shift(v) # 1
  <2> SUFFICES ASSUME NEW v \in Workers, NEW i \in 1 .. Len(queue'[v])
               PROVE  /\ i \in Nat
                      /\ i + Shift(v) \in 1 .. Len(queue[v])
                      /\ queue'[v][i] = queue[v][i + Shift(v)]
                      /\ v = q => i + Shift(v) # 1
    OBVIOUS
  <2>1. CASE v = q
    BY <1>4, <2>1
  <2>2. CASE v # q
    <3>1. queue'[v] = queue[v] /\ Len(queue[v]) \in Nat
      BY <1>1, <1>5, <2>2
    <3> QED
      BY <2>2, <3>1
  <2> QED
    BY <2>1, <2>2
<1>7. /\ Holds(w)'
      /\ \A u \in Threads : u # w => (Holds(u)' <=> Holds(u)) /\ item'[u] = item[u]
  <2>1. /\ item' = [item EXCEPT ![w] = x] /\ item \in [Threads -> Items \cup {None}]
        /\ pc' = [pc EXCEPT ![w] = "run"] /\ pc \in [Threads -> Labels]
    BY <1>1 DEF PopFrom, Goto, WakeupInv, PoolTypes
  <2> QED
    BY <1>2, <2>1 DEF Holds
<1>8. \A y : Outstanding(y)' <=> Outstanding(y)
  BY DEF Outstanding, Waiting
<1>9. 1 \in 1 .. Len(queue[q])
  BY <1>4
<1> HIDE DEF x, Shift
<1>10. \A v \in Workers : \A i \in 1 .. Len(queue'[v]) : queue'[v][i] # x
  BY <1>6, <1>9 DEF OnePlaceInv, QueuedOnce, x
<1>11. QueuedOnce'
  <2> SUFFICES ASSUME NEW u \in Workers, NEW v \in Workers,
                      NEW i \in 1 .. Len(queue'[u]), NEW j \in 1 .. Len(queue'[v]),
                      queue'[u][i] = queue'[v][j]
               PROVE  u = v /\ i = j
    BY DEF QueuedOnce
  <2>1. u = v /\ i + Shift(u) = j + Shift(v)
    <3>1. /\ i + Shift(u) \in 1 .. Len(queue[u]) /\ j + Shift(v) \in 1 .. Len(queue[v])
          /\ queue[u][i + Shift(u)] = queue[v][j + Shift(v)]
      BY <1>6
    <3> QED
      BY <3>1 DEF OnePlaceInv, QueuedOnce
  <2>2. Shift(u) \in Nat /\ i \in Nat /\ j \in Nat
    BY <1>6 DEF Shift
  <2> QED
    BY <2>1, <2>2
<1>12. QueuedOrHeld'
  <2> SUFFICES ASSUME NEW u \in Threads, NEW v \in Workers, NEW i \in 1 .. Len(queue'[v]),
                      Holds(u)'
               PROVE  queue'[v][i] # item'[u]
    BY DEF QueuedOrHeld
  <2>1. CASE u = w
    BY <1>2, <1>10, <2>1
  <2>2. CASE u # w
    <3>1. /\ Holds(u) /\ item'[u] = item[u]
          /\ i + Shift(v) \in 1 .. Len(queue[v])
          /\ queue'[v][i] = queue[v][i + Shift(v)]
      BY <1>6, <1>7, <2>2
    <3> QED
      BY <3>1 DEF OnePlaceInv, QueuedOrHeld
  <2> QED
    BY <2>1, <2>2
<1>13. HeldOnce'
  BY <1>2, <1>7, <1>9 DEF OnePlaceInv, HeldOnce, QueuedOrHeld, x
<1>14. QueuedWaits'
  BY <1>6, <1>8 DEF OnePlaceInv, QueuedWaits
<1>15. HeldWaits'
  BY <1>2, <1>7, <1>8, <1>9 DEF OnePlaceInv, HeldWaits, QueuedWaits, x
<1>16. RunsOnce'
  BY DEF OnePlaceInv, RunsOnce
<1>17. NothingLost'
  <2> SUFFICES ASSUME NEW y \in Items, Outstanding(y)
               PROVE  IsQueued(y)' \/ IsHeld(y)'
    BY <1>8 DEF NothingLost
  <2>1. CASE y = x
    BY <1>2, <1>7, <2>1 DEF IsHeld
  <2>2. ASSUME y # x, NEW v \in Workers, NEW i \in 1 .. Len(queue[v]), queue[v][i] = y
        PROVE  IsQueued(y)'
    <3>1. CASE v = q
      <4>1. i # 1 /\ i - 1 \in 1 .. Len(queue[q]) - 1 /\ (i - 1) + 1 = i
        BY <1>4, <2>2, <3>1 DEF x
      <4>2. i - 1 \in 1 .. Len(queue'[q]) /\ queue'[q][i - 1] = y
        BY <1>4, <2>2, <3>1, <4>1
      <4> QED
        BY <4>2 DEF IsQueued
    <3>2. CASE v # q
      BY <1>5, <2>2, <3>2 DEF IsQueued
    <3> QED
      BY <3>1, <3>2
  <2>3. CASE IsHeld(y)
    BY <1>7, <2>3 DEF IsHeld
  <2> QED
    BY <2>1, <2>2, <2>3 DEF OnePlaceInv, NothingLost, IsQueued
<1> QED
  BY <1>11, <1>12, <1>13, <1>14, <1>15, <1>16, <1>17 DEF OnePlaceInv

\* A step that runs the job a worker holds takes it out of its hands.
LEMMA RunMoves ==
    ASSUME WakeupInv, OnePlaceInv, PoisonIsOut' <=> PoisonIsOut, NEW w \in Workers, RunTask(w)
    PROVE  OnePlaceInv' /\ item[w] \in Tasks /\ Waiting(item[w])
<1> DEFINE x == item[w]
<1>1. w \in Threads /\ Holds(w) /\ x \in Tasks
  BY DEF RunTask, Threads, Holds, WakeupInv, Items
<1>2. Waiting(x)
  BY <1>1, ItemFacts DEF OnePlaceInv, HeldWaits, Outstanding
<1>3. \A u \in Threads : /\ Holds(u)' => u # w
                         /\ u # w => (Holds(u)' <=> Holds(u)) /\ item'[u] = item[u]
  <2>1. item'[w] = None /\ None \notin Items
    BY <1>1, ItemFacts DEF RunTask, WakeupInv, PoolTypes
  <2> QED
    BY <2>1 DEF RunTask, Goto, Holds, WakeupInv, PoolTypes
<1>4. /\ runs' = [runs EXCEPT ![x] = runs[x] + 1] /\ runs \in [Tasks -> Nat]
      /\ issued' = issued /\ queue' = queue
  BY DEF RunTask, WakeupInv, PoolTypes
<1> HIDE DEF x
<1>5. \A y \in Items : y # x => (Outstanding(y)' <=> Outstanding(y))
  BY <1>4, ItemFacts DEF Outstanding, Waiting
<1>6. QueuedWaits'
  <2> SUFFICES ASSUME NEW v \in Workers, NEW i \in 1 .. Len(queue[v])
               PROVE  Outstanding(queue[v][i])'
    BY <1>4 DEF QueuedWaits
  <2>1. queue[v][i] \in Items
    BY DEF WakeupInv, PoolTypes
  <2> QED
    BY <1>1, <1>4, <1>5, <2>1 DEF OnePlaceInv, QueuedWaits, QueuedOrHeld, x
<1>7. HeldWaits'
  <2> SUFFICES ASSUME NEW u \in Threads, Holds(u)'
               PROVE  Outstanding(item[u])' /\ item'[u] = item[u]
    BY DEF HeldWaits, Outstanding, Waiting
  <2>1. u # w /\ Holds(u) /\ item'[u] = item[u] /\ item[u] \in Items
    BY <1>3 DEF Holds
  <2> QED
    BY <1>1, <1>5, <2>1 DEF OnePlaceInv, HeldWaits, HeldOnce, x
<1>8. QueuedOnce' /\ QueuedOrHeld' /\ HeldOnce'
  BY <1>3, <1>4 DEF OnePlaceInv, QueuedOnce, QueuedOrHeld, HeldOnce
<1>9. RunsOnce'
  BY <1>1, <1>2, <1>4 DEF OnePlaceInv, RunsOnce, Waiting
<1>10. NothingLost'
  <2> SUFFICES ASSUME NEW y \in Items, Outstanding(y)'
               PROVE  IsQueued(y)' \/ IsHeld(y)'
    BY DEF NothingLost
  <2>1. y # x
    BY <1>1, <1>2, <1>4, ItemFacts DEF Outstanding, Waiting
  <2>2. IsQueued(y) \/ IsHeld(y)
    BY <1>5, <2>1 DEF OnePlaceInv, NothingLost
  <2> QED
    BY <1>3, <1>4, <2>1, <2>2 DEF IsQueued, IsHeld, x
<1> QED
  BY <1>1, <1>2, <1>6, <1>7, <1>8, <1>9, <1>10 DEF OnePlaceInv, x

\* The poison is nowhere before abortTpool, and then in the hands of its caller.
LEMMA AbortMoves ==
    ASSUME WakeupInv, IdleHoldsNothing, OnePlaceInv, Abort
    PROVE  OnePlaceInv'
<1>1. /\ Main \in Clients /\ Main \in Threads /\ pc[Main] = "joined"
      /\ item[Main] = None /\ None # Poison
  BY PoolAssumption, ItemFacts DEF Abort, IdleHoldsNothing, Threads
<1>2. ~Outstanding(Poison)
  BY <1>1 DEF Outstanding, PoisonIsOut
<1>3. /\ item'[Main] = Poison /\ Holds(Main)'
      /\ \A u \in Threads : u # Main => (Holds(u)' <=> Holds(u)) /\ item'[u] = item[u]
  BY <1>1, ItemFacts DEF Abort, StartPush, Goto, Holds, WakeupInv, PoolTypes
<1>4. ~Holds(Main)
  BY <1>1, ItemFacts DEF Holds
<1>5. queue' = queue /\ runs' = runs /\ issued' = issued
  BY DEF Abort
<1>6. \A y \in Items : Outstanding(y)' <=> y = Poison \/ Outstanding(y)
  BY <1>3, <1>5 DEF Outstanding, Waiting, PoisonIsOut
<1>7. QueuedOnce' /\ RunsOnce'
  BY <1>5 DEF OnePlaceInv, QueuedOnce, RunsOnce
<1>8. QueuedWaits' /\ QueuedOrHeld'
  <2> SUFFICES ASSUME NEW w \in Workers, NEW i \in 1 .. Len(queue[w])
               PROVE  /\ Outstanding(queue[w][i])'
                      /\ \A t \in Threads : Holds(t)' => queue[w][i] # item'[t]
    BY <1>5 DEF QueuedWaits, QueuedOrHeld
  <2>1. queue[w][i] \in Items
    BY DEF WakeupInv, PoolTypes
  <2>2. Outstanding(queue[w][i])
    BY DEF OnePlaceInv, QueuedWaits
  <2> QED
    BY <1>2, <1>3, <1>5, <1>6, <2>1, <2>2 DEF OnePlaceInv, QueuedOrHeld
<1>9. HeldWaits' /\ HeldOnce'
  <2>1. \A t \in Threads : Holds(t) => item[t] \in Items /\ Outstanding(item[t])
    BY DEF OnePlaceInv, HeldWaits, Holds
  <2>2. \A t \in Threads : Holds(t)' => Outstanding(item[t])'
    <3> SUFFICES ASSUME NEW t \in Threads, Holds(t)'
                 PROVE  Outstanding(item[t])'
      OBVIOUS
    <3>1. item'[t] \in Items
      BY DEF Holds
    <3>2. item'[t] = Poison \/ (Outstanding(item[t]) /\ item'[t] = item[t])
      BY <1>3, <2>1
    <3> QED
      BY <1>6, <3>1, <3>2
  <2>3. HeldOnce'
    BY <1>2, <1>3, <1>4, <2>1 DEF OnePlaceInv, HeldOnce
  <2> QED
    BY <2>2, <2>3 DEF HeldWaits
<1>10. NothingLost'
  BY <1>1, <1>3, <1>4, <1>5, <1>6 DEF OnePlaceInv, NothingLost, IsQueued, IsHeld
<1> QED
  BY <1>7, <1>8, <1>9, <1>10 DEF OnePlaceInv

\* A job that is issued is nowhere before.
LEMMA IssueMoves ==
    ASSUME WakeupInv, IdleHoldsNothing, OnePlaceInv, PoisonIsOut' <=> PoisonIsOut,
           NEW c \in Clients, IssueJob(c)
    PROVE  /\ OnePlaceInv'
           /\ <<c, issued[c] + 1>> \in Tasks
           /\ runs[<<c, issued[c] + 1>>] = 0
<1> DEFINE x == <<c, issued[c] + 1>>
<1>1. issued \in [Clients -> Nat] /\ issued[c] < Jobs[c] /\ Jobs[c] \in Nat
  BY PoolAssumption DEF IssueJob, WakeupInv, PoolTypes
<1>2. x \in Tasks /\ x[1] = c /\ x[2] = issued[c] + 1 /\ issued[c] \in Nat
  <2>1. issued[c] + 1 \in 1 .. Jobs[c]
    BY <1>1
  <2> QED
    BY <1>1, <2>1, JobIsTask
<1>3. runs \in [Tasks -> Nat] /\ runs[x] = 0
  BY <1>2 DEF OnePlaceInv, RunsOnce, WakeupInv, PoolTypes
<1>4. x \in Items /\ x # Poison /\ ~Outstanding(x)
  BY <1>2, ItemFacts DEF Outstanding, Waiting
<1>5. issued' = [issued EXCEPT ![c] = issued[c] + 1] /\ queue' = queue
  BY DEF IssueJob
<1>6. \A y \in Tasks : y # x => (y[2] <= issued'[y[1]] <=> y[2] <= issued[y[1]])
  <2> SUFFICES ASSUME NEW y \in Tasks, y # x
               PROVE  y[2] <= issued'[y[1]] <=> y[2] <= issued[y[1]]
    OBVIOUS
  <2>1. y[1] \in Clients /\ y[2] \in Nat /\ y = <<y[1], y[2]>>
    BY TaskIsJob, PoolAssumption
  <2>2. CASE y[1] = c
    <3>1. y[2] # issued[c] + 1
      BY <2>1, <2>2
    <3> QED
      BY <1>1, <1>5, <2>1, <2>2, <3>1
  <2>3. CASE y[1] # c
    BY <1>1, <1>5, <2>1, <2>3
  <2> QED
    BY <2>2, <2>3
<1>7. x[2] <= issued'[x[1]]
  BY <1>1, <1>2, <1>5
<1>8. c \in Threads /\ ~Holds(c)
  BY ItemFacts DEF IssueJob, IdleHoldsNothing, Threads, Holds
<1>9. \A w \in Workers : \A i \in 1 .. Len(queue[w]) : queue[w][i] \in Items /\ queue[w][i] # x
  <2> SUFFICES ASSUME NEW w \in Workers, NEW i \in 1 .. Len(queue[w])
               PROVE  queue[w][i] \in Items /\ queue[w][i] # x
    OBVIOUS
  <2>1. queue[w][i] \in Items
    BY DEF WakeupInv, PoolTypes
  <2>2. Outstanding(queue[w][i])
    BY DEF OnePlaceInv, QueuedWaits
  <2> QED
    BY <1>4, <2>1, <2>2
<1>10. \A u \in Threads : Holds(u) => item[u] \in Items /\ item[u] # x
  BY <1>4 DEF OnePlaceInv, HeldWaits, Holds
<1> HIDE DEF x
<1>11. CASE StartPush(c, x) /\ UNCHANGED <<counter, sem, runs>>
  <2>1. /\ Holds(c)' /\ item'[c] = x
        /\ \A u \in Threads : u # c => (Holds(u)' <=> Holds(u)) /\ item'[u] = item[u]
    BY <1>4, <1>8, <1>11 DEF StartPush, Goto, Holds, WakeupInv, PoolTypes
  <2>2. \A y \in Items : Outstanding(y)' <=> y = x \/ Outstanding(y)
    BY <1>2, <1>3, <1>4, <1>6, <1>7, <1>11, ItemFacts DEF Outstanding, Waiting
  <2>3. QueuedOnce' /\ QueuedWaits'
    BY <1>5, <1>9, <2>2 DEF OnePlaceInv, QueuedOnce, QueuedWaits
  <2>4. \A t \in Threads : Holds(t)' => Outstanding(item[t])'
    <3> SUFFICES ASSUME NEW t \in Threads, Holds(t)'
                 PROVE  Outstanding(item[t])'
      OBVIOUS
    <3>1. item'[t] \in Items
      BY DEF Holds
    <3>2. item'[t] = x \/ (Outstanding(item[t]) /\ item'[t] = item[t])
      BY <2>1 DEF OnePlaceInv, HeldWaits
    <3> QED
      BY <2>2, <3>1, <3>2
  <2>5. HeldWaits'
    BY <2>4 DEF HeldWaits
  <2>6. HeldOnce'
    BY <1>10, <2>1 DEF OnePlaceInv, HeldOnce
  <2>7. QueuedOrHeld'
    BY <1>5, <1>9, <2>1 DEF OnePlaceInv, QueuedOrHeld
  <2>8. RunsOnce'
    BY <1>3, <1>6, <1>11 DEF OnePlaceInv, RunsOnce
  <2>9. NothingLost'
    BY <1>5, <1>8, <2>1, <2>2 DEF OnePlaceInv, NothingLost, IsQueued, IsHeld
  <2> QED
    BY <1>2, <1>3, <2>3, <2>5, <2>6, <2>7, <2>8, <2>9 DEF OnePlaceInv, x
<1>12. CASE /\ runs' = [runs EXCEPT ![x] = runs[x] + 1]
            /\ UNCHANGED <<pc, item>>
  <2>1. \A u : Holds(u)' <=> Holds(u)
    BY <1>12 DEF Holds
  <2>2. \A y \in Items : Outstanding(y)' <=> Outstanding(y)
    <3> SUFFICES ASSUME NEW y \in Items
                 PROVE  Outstanding(y)' <=> Outstanding(y)
      OBVIOUS
    <3>1. CASE y = Poison
      BY <3>1 DEF Outstanding
    <3>2. CASE y = x
      <4>1. runs'[x] = 1
        BY <1>2, <1>3, <1>12
      <4> QED
        BY <1>4, <3>2, <4>1 DEF Outstanding, Waiting
    <3>3. CASE y # Poison /\ y # x
      <4>1. y \in Tasks /\ runs'[y] = runs[y]
        BY <1>3, <1>12, <3>3, ItemFacts
      <4> QED
        BY <1>6, <3>3, <4>1 DEF Outstanding, Waiting
    <3> QED
      BY <3>1, <3>2, <3>3
  <2>3. QueuedOnce' /\ HeldOnce' /\ QueuedOrHeld'
    BY <1>5, <1>12, <2>1 DEF OnePlaceInv, QueuedOnce, HeldOnce, QueuedOrHeld
  <2>4. QueuedWaits'
    BY <1>5, <1>9, <2>2 DEF OnePlaceInv, QueuedWaits
  <2>5. HeldWaits'
    BY <1>10, <1>12, <2>1, <2>2 DEF OnePlaceInv, HeldWaits
  <2>6. NothingLost'
    BY <1>5, <1>12, <2>1, <2>2 DEF OnePlaceInv, NothingLost, IsQueued, IsHeld
  <2>7. RunsOnce'
    <3> SUFFICES ASSUME NEW y \in Tasks, runs'[y] # 0
                 PROVE  runs'[y] = 1 /\ y[2] <= issued'[y[1]]
      BY DEF RunsOnce
    <3>1. CASE y = x
      BY <1>2, <1>3, <1>7, <1>12, <3>1
    <3>2. CASE y # x
      <4>1. runs'[y] = runs[y]
        BY <1>3, <1>12, <3>2
      <4> QED
        BY <1>6, <3>2, <4>1 DEF OnePlaceInv, RunsOnce
    <3> QED
      BY <3>1, <3>2
  <2> QED
    BY <1>2, <1>3, <2>3, <2>4, <2>5, <2>6, <2>7 DEF OnePlaceInv, x
<1> QED
  BY <1>11, <1>12 DEF IssueJob, x
-----------------------------------------------------------------------------
\* The jobs of a batch that have run.
Done(c) == {j \in 1 .. Jobs[c] : runs[<<c, j>>] = 1}

\* ans->counter is the number of jobs that have not run; who has been told the
\* end of the batch has been told so once, and rightly.
BatchInv ==
    \A c \in Clients :
        /\ counter[c] = Jobs[c] - Cardinality(Done(c))
        /\ sem[c] \in {0, 1}
        /\ sem[c] = 1 \/ pc[c] = "joined" => Done(c) = 1 .. Jobs[c]

\* While the poison is about, or after an assertion has failed, every job has run.
ShutdownInv ==
    \/ /\ \A t \in Threads : item[t] # Poison
       /\ \A w \in Workers : \A i \in 1 .. Len(queue[w]) : queue[w][i] # Poison
       /\ alive
    \/ \A x \in Tasks : runs[x] = 1

\* A set of n jobs out of n is all of them.
LEMMA FullBatch ==
    ASSUME NEW n \in Nat
    PROVE  \A S \in SUBSET (1 .. n) : Cardinality(S) = n => S = 1 .. n
<1> SUFFICES ASSUME NEW S \in SUBSET (1 .. n), Cardinality(S) = n
             PROVE  S = 1 .. n
  OBVIOUS
<1>1. IsFiniteSet(1 .. n) /\ Cardinality(1 .. n) = n
  BY FS_Interval
<1> QED
  BY <1>1, FS_Subset

\* The jobs that have run are all of the batch when there are as many.
LEMMA DoneFacts ==
    ASSUME NEW c \in Clients
    PROVE  /\ Jobs[c] \in Nat
           /\ IsFiniteSet(Done(c))
           /\ Cardinality(Done(c)) \in 0 .. Jobs[c]
           /\ Cardinality(Done(c)) = Jobs[c] => Done(c) = 1 .. Jobs[c]
           /\ Done(c) = 1 .. Jobs[c] => Cardinality(Done(c)) = Jobs[c]
<1>1. Jobs[c] \in Nat \ {0}
  BY PoolAssumption
<1>2. IsFiniteSet(1 .. Jobs[c]) /\ Cardinality(1 .. Jobs[c]) = Jobs[c]
  BY <1>1, FS_Interval
<1>3. Done(c) \in SUBSET (1 .. Jobs[c])
  BY DEF Done
<1>4. /\ IsFiniteSet(Done(c))
      /\ Cardinality(Done(c)) <= Jobs[c]
      /\ Cardinality(Done(c)) = Jobs[c] => Done(c) = 1 .. Jobs[c]
  BY <1>2, <1>3, FS_Subset
<1>5. Cardinality(Done(c)) \in Nat
  BY <1>4, FS_CardinalityType
<1> QED
  BY <1>1, <1>2, <1>4, <1>5

\* The end of a job is counted, and the last one posts.
LEMMA CompletedCounts ==
    ASSUME WakeupInv, BatchInv, NEW c \in Clients, NEW j \in 1 .. Jobs[c],
           runs[<<c, j>>] = 0,
           runs' = [runs EXCEPT ![<<c, j>>] = runs[<<c, j>>] + 1],
           Completed(c),
           \A d \in Clients : pc'[d] = "joined" => pc[d] = "joined"
    PROVE  BatchInv'
<1>1. <<c, j>> \in Tasks /\ runs \in [Tasks -> Nat]
  BY JobIsTask DEF WakeupInv, PoolTypes
<1>2. counter \in [Clients -> Int] /\ sem \in [Clients -> Nat]
  BY DEF WakeupInv, PoolTypes
<1>3. Done(c)' = Done(c) \cup {j} /\ j \notin Done(c)
  <2>1. \A i \in 1 .. Jobs[c] : <<c, i>> \in Tasks
    BY JobIsTask
  <2> QED
    BY <1>1, <2>1 DEF Done
<1>4. Cardinality(Done(c)') = Cardinality(Done(c)) + 1 /\ Cardinality(Done(c)) \in Nat
  <2>1. IsFiniteSet(Done(c)) /\ Cardinality(Done(c)) \in Nat
    BY DoneFacts
  <2>2. Cardinality(Done(c) \cup {j}) = Cardinality(Done(c)) + 1
    BY <1>3, <2>1, FS_AddElement
  <2> QED
    BY <1>3, <2>1, <2>2
<1>5. /\ Jobs[c] \in Nat
      /\ Cardinality(Done(c)') = Jobs[c] => Done(c)' = 1 .. Jobs[c]
  <2>1. Done(c)' \in SUBSET (1 .. Jobs[c])
    BY DEF Done
  <2>2. Jobs[c] \in Nat
    BY DoneFacts
  <2> QED
    BY <2>1, <2>2, FullBatch
<1>6. counter[c] = Jobs[c] - Cardinality(Done(c)) /\ sem[c] \in {0, 1}
  BY DEF BatchInv
<1>7. sem[c] = 0 /\ pc[c] # "joined"
  BY <1>3, <1>6 DEF BatchInv
<1>8. ASSUME NEW d \in Clients
      PROVE  /\ counter'[d] = Jobs[d] - Cardinality(Done(d)')
             /\ sem'[d] \in {0, 1}
             /\ sem'[d] = 1 \/ pc'[d] = "joined" => Done(d)' = 1 .. Jobs[d]
  <2>1. CASE d = c
    <3>1. counter'[c] = counter[c] - 1 /\ sem'[c] = IF counter[c] = 1 THEN 1 ELSE 0
      BY <1>2, <1>7 DEF Completed
    <3>2. counter[c] = 1 => Cardinality(Done(c)') = Jobs[c]
      BY <1>4, <1>5, <1>6
    <3>3. counter'[c] = Jobs[c] - Cardinality(Done(c)')
      BY <1>4, <1>5, <1>6, <3>1
    <3> QED
      BY <1>5, <1>7, <2>1, <3>1, <3>2, <3>3
  <2>2. CASE d # c
    <3>1. counter'[d] = counter[d] /\ sem'[d] = sem[d]
      BY <1>2, <2>2 DEF Completed
    <3>2. Done(d)' = Done(d)
      <4>1. \A i \in 1 .. Jobs[d] : <<d, i>> \in Tasks /\ <<d, i>> # <<c, j>>
        BY <2>2, JobIsTask
      <4> QED
        BY <1>1, <4>1 DEF Done
    <3> QED
      BY <3>1, <3>2 DEF BatchInv
  <2> QED
    BY <2>1, <2>2
<1> QED
  BY <1>8 DEF BatchInv

\* Steps that end no job.
LEMMA NothingEnds ==
    ASSUME BatchInv, counter' = counter, sem' = sem, runs' = runs,
           \A c \in Clients : pc'[c] = "joined" => pc[c] = "joined"
    PROVE  BatchInv'
BY DEF BatchInv, Done
-----------------------------------------------------------------------------
JoinInv == OnePlaceInv /\ BatchInv /\ ShutdownInv

\* Once every job has run no step runs one: it would have to wait somewhere.
\* Before, there is no poison, and only what makes one ends that.
LEMMA ShutdownStays ==
    ASSUME ShutdownInv, runs' = runs,
           \A t \in Threads : item'[t] = Poison => \E u \in Threads : item[u] = Poison,
           \A w \in Workers : \A i \in 1 .. Len(queue'[w]) : queue'[w][i] = Poison =>
               \/ \E t \in Threads : item[t] = Poison
               \/ \E v \in Workers : \E j \in 1 .. Len(queue[v]) : queue[v][j] = Poison,
           ~alive' => ~alive \/ \E t \in Threads : item[t] = Poison
    PROVE  ShutdownInv'
BY DEF ShutdownInv

\* A step that moves no job and ends none keeps the invariant.
LEMMA QuietKeepsJoinInv ==
    ASSUME JoinInv, queue' = queue, runs' = runs, issued' = issued, counter' = counter,
           sem' = sem, item' = item, alive' = alive, PoisonIsOut' <=> PoisonIsOut,
           \A t \in Threads : pc[t] = "signal" <=> pc'[t] = "signal",
           \A c \in Clients : pc'[c] = "joined" => pc[c] = "joined"
    PROVE  JoinInv'
<1>1. OnePlaceInv'
  BY NothingMoves DEF JoinInv, Holds
<1>2. BatchInv'
  BY NothingEnds DEF JoinInv
<1>3. ShutdownInv'
  BY DEF JoinInv, ShutdownInv
<1> QED
  BY <1>1, <1>2, <1>3 DEF JoinInv

\* The steps of pushTpool.
LEMMA PushKeepsJoinInv ==
    ASSUME WakeupInv, JoinInv, PoisonIsOut' <=> PoisonIsOut, NEW t \in Threads, Push(t)
    PROVE  JoinInv'
<1>1. pc \in [Threads -> Labels] /\ item \in [Threads -> Items \cup {None}]
  BY DEF WakeupInv, PoolTypes
<1>2. \A c \in Clients : c \in Threads
  BY DEF Threads
<1>3. Target(t) \in Workers
  BY TargetIsAQueue DEF WakeupInv
<1>4. CASE TryPush(t)
  <2>1. \A u \in Threads : pc[u] = "signal" <=> pc'[u] = "signal"
    BY <1>1, <1>4 DEF TryPush, Goto
  <2>2. \A c \in Clients : pc'[c] = "joined" => pc[c] = "joined"
    BY <1>1, <1>2, <1>4 DEF TryPush, Goto
  <2> QED
    BY <1>4, <2>1, <2>2, QuietKeepsJoinInv DEF TryPush
<1>5. CASE PushAnyway(t)
  <2>1. \A u \in Threads : pc[u] = "signal" <=> pc'[u] = "signal"
    BY <1>1, <1>5 DEF PushAnyway, Goto
  <2>2. \A c \in Clients : pc'[c] = "joined" => pc[c] = "joined"
    BY <1>1, <1>2, <1>5 DEF PushAnyway, Goto
  <2>3. OnePlaceInv'
    BY <1>5, <2>1, NothingMoves DEF JoinInv, PushAnyway, Holds
  <2>4. BatchInv'
    BY <1>5, <2>2, NothingEnds DEF JoinInv, PushAnyway
  <2>5. ShutdownInv'
    BY <1>5 DEF JoinInv, ShutdownInv, PushAnyway
  <2> QED
    BY <2>3, <2>4, <2>5 DEF JoinInv
<1>6. CASE Store(t)
  <2>1. OnePlaceInv'
    BY <1>6, StoreMoves DEF JoinInv
  <2>2. \A c \in Clients : pc'[c] = "joined" => pc[c] = "joined"
    BY <1>1, <1>2, <1>6 DEF Store, Goto
  <2>3. BatchInv'
    BY <1>6, <2>2, NothingEnds DEF JoinInv, Store
  <2>4. ASSUME NEW w \in Workers, NEW i \in 1 .. Len(queue'[w]), queue'[w][i] = Poison
        PROVE  \/ \E u \in Threads : item[u] = Poison
               \/ \E v \in Workers : \E j \in 1 .. Len(queue[v]) : queue[v][j] = Poison
    <3>1. item[t] \in Items /\ queue \in [Workers -> Seq(Items)]
      BY <1>6 DEF Store, WakeupInv, PoolTypes
    <3>2. queue' = [queue EXCEPT ![Target(t)] = Append(queue[Target(t)], item[t])]
      BY <1>6 DEF Store
    <3>3. CASE w = Target(t)
      <4>1. queue'[w] = Append(queue[w], item[t]) /\ queue[w] \in Seq(Items)
        BY <1>3, <3>1, <3>2, <3>3
      <4>2. (i \in 1 .. Len(queue[w]) /\ queue[w][i] = Poison) \/ item[t] = Poison
        BY <2>4, <3>1, <4>1
      <4> QED
        BY <4>2
    <3>4. CASE w # Target(t)
      <4>1. queue'[w] = queue[w]
        BY <3>1, <3>2, <3>4
      <4> QED
        BY <2>4, <4>1
    <3> QED
      BY <3>3, <3>4
  <2>5. ShutdownInv'
    BY <1>6, <2>4, ShutdownStays DEF JoinInv, Store
  <2> QED
    BY <2>1, <2>3, <2>5 DEF JoinInv
<1>7. CASE Signal(t)
  <2>1. Return(t) \notin {"signal", "joined"}
    BY DEF Return
  <2>2. item' = [item EXCEPT ![t] = None] /\ None \notin Items /\ None # Poison
    BY <1>7, PoolAssumption DEF Signal, Items
  <2>3. \A u \in Threads : u # t => pc'[u] = pc[u] \/ (pc'[u] = "lock" /\ pc[u] = "sleep")
    BY <1>1, <1>3, <1>7 DEF Signal, Threads
  <2>4. \A u \in Threads : /\ Holds(u)' <=> Holds(u)
                           /\ Holds(u) => item'[u] = item[u]
    BY <1>1, <1>7, <2>2, <2>3 DEF Holds, Signal
  <2>5. OnePlaceInv'
    BY <1>7, <2>4, NothingMoves DEF JoinInv, Signal
  <2>6. pc'[t] # "joined"
    BY <1>1, <1>3, <1>7, <2>1 DEF Signal, Threads
  <2>7. BatchInv'
    BY <1>2, <1>7, <2>3, <2>6, NothingEnds DEF JoinInv, Signal
  <2>8. ShutdownInv'
    <3>1. \A u \in Threads : item'[u] = Poison => item[u] = Poison
      BY <1>1, <2>2
    <3> QED
      BY <1>7, <3>1 DEF JoinInv, ShutdownInv, Signal
  <2> QED
    BY <2>5, <2>7, <2>8 DEF JoinInv
<1> QED
  BY <1>4, <1>5, <1>6, <1>7 DEF Push

\* A worker that pops.
LEMMA PopKeepsJoinInv ==
    ASSUME WakeupInv, JoinInv, PoisonIsOut' <=> PoisonIsOut,
           NEW w \in Workers, NEW q \in Workers, PopFrom(q, w),
           ~Holds(w), pc[w] \notin {"signal", "joined"},
           UNCHANGED <<index, start, issued, counter, sem, runs, alive>>
    PROVE  JoinInv'
<1>1. pc' = [pc EXCEPT ![w] = "run"] /\ pc \in [Threads -> Labels] /\ w \in Threads
  BY DEF PopFrom, Goto, Threads, WakeupInv, PoolTypes
<1>2. OnePlaceInv'
  BY PopMoves DEF JoinInv
<1>3. \A c \in Clients : pc'[c] = "joined" => pc[c] = "joined"
  BY <1>1 DEF Threads
<1>4. BatchInv'
  BY <1>3, NothingEnds DEF JoinInv
<1>5. queue \in [Workers -> Seq(Items)] /\ queue[q] \in Seq(Items) /\ queue[q] # <<>>
  BY DEF WakeupInv, PoolTypes, PopFrom
<1>6. queue' = [queue EXCEPT ![q] = Tail(queue[q])]
  BY DEF PopFrom
<1>7. ASSUME NEW v \in Workers, NEW i \in 1 .. Len(queue'[v])
      PROVE  \E j \in 1 .. Len(queue[v]) : queue'[v][i] = queue[v][j]
  <2>1. CASE v = q
    <3>1. queue'[v] = Tail(queue[v]) /\ queue[v] \in Seq(Items) /\ queue[v] # <<>>
      BY <1>5, <1>6, <2>1
    <3>2. i + 1 \in 1 .. Len(queue[v]) /\ queue'[v][i] = queue[v][i + 1]
      BY <3>1
    <3> QED
      BY <3>2
  <2>2. CASE v # q
    BY <1>5, <1>6, <2>2
  <2> QED
    BY <2>1, <2>2
<1>8. item' = [item EXCEPT ![w] = queue[q][1]] /\ 1 \in 1 .. Len(queue[q])
  BY <1>5 DEF PopFrom
<1>9. ShutdownInv'
  <2>1. CASE \A x \in Tasks : runs[x] = 1
    BY <2>1 DEF ShutdownInv
  <2>2. CASE /\ \A t \in Threads : item[t] # Poison
             /\ \A v \in Workers : \A i \in 1 .. Len(queue[v]) : queue[v][i] # Poison
             /\ alive
    <3>1. \A t \in Threads : item'[t] # Poison
      BY <1>8, <2>2 DEF WakeupInv, PoolTypes
    <3>2. \A v \in Workers : \A i \in 1 .. Len(queue'[v]) : queue'[v][i] # Poison
      BY <1>7, <2>2
    <3> QED
      BY <2>2, <3>1, <3>2 DEF ShutdownInv
  <2> QED
    BY <2>1, <2>2 DEF JoinInv, ShutdownInv
<1> QED
  BY <1>2, <1>4, <1>9 DEF JoinInv

\* The other steps of a worker.
LEMMA WorkKeepsJoinInv ==
    ASSUME WakeupInv, IdleHoldsNothing, JoinInv, PoisonIsOut' <=> PoisonIsOut,
           NEW w \in Workers, Work(w) \/ WakeUpByChance(w)
    PROVE  JoinInv'
<1>1. w \in Threads /\ pc \in [Threads -> Labels] /\ item \in [Threads -> Items \cup {None}]
  BY DEF Threads, WakeupInv, PoolTypes
<1>2. \A c \in Clients : c \in Threads /\ c # w
  BY PoolAssumption DEF Threads
<1>3. Target(w) \in Workers
  BY <1>1, TargetIsAQueue DEF WakeupInv
<1> DEFINE Signals == \A t \in Threads : pc[t] = "signal" <=> pc'[t] = "signal"
           Joined == \A c \in Clients : pc'[c] = "joined" => pc[c] = "joined"
<1>4. CASE Scan(w)
  <2>1. Signals /\ Joined
    BY <1>1, <1>2, <1>4 DEF Scan, Goto
  <2> QED
    BY <1>4, <2>1, QuietKeepsJoinInv DEF Scan
<1>5. CASE Peek(w)
  <2>1. CASE PopFrom(Target(w), w)
    <3>1. ~Holds(w)
      BY <1>1, <1>5, ItemFacts DEF Peek, IdleHoldsNothing, Holds
    <3> QED
      BY <1>3, <1>5, <2>1, <3>1, PopKeepsJoinInv DEF Peek
  <2>2. CASE queue[Target(w)] = <<>>
    <3>1. Signals /\ Joined
      BY <1>1, <1>2, <1>5, <2>2 DEF Peek, PopFrom, Goto
    <3> QED
      BY <1>5, <2>2, <3>1, QuietKeepsJoinInv DEF Peek, PopFrom
  <2> QED
    BY <1>5, <2>1, <2>2 DEF Peek
<1>6. CASE Lock(w)
  <2>1. Signals /\ Joined
    BY <1>1, <1>2, <1>6 DEF Lock, Goto
  <2> QED
    BY <1>6, <2>1, QuietKeepsJoinInv DEF Lock
<1>7. CASE Check(w)
  <2>1. CASE PopFrom(w, w)
    <3>1. ~Holds(w)
      BY <1>1, <1>7, ItemFacts DEF Check, IdleHoldsNothing, Holds
    <3> QED
      BY <1>7, <2>1, <3>1, PopKeepsJoinInv DEF Check
  <2>2. CASE queue[w] = <<>>
    <3>1. Signals /\ Joined
      BY <1>1, <1>2, <1>7, <2>2 DEF Check, PopFrom, Goto
    <3> QED
      BY <1>7, <2>2, <3>1, QuietKeepsJoinInv DEF Check, PopFrom
  <2> QED
    BY <1>7, <2>1, <2>2 DEF Check
<1>8. CASE RunTask(w)
  <2>1. OnePlaceInv' /\ item[w] \in Tasks /\ runs[item[w]] = 0
    BY <1>8, RunMoves DEF JoinInv, Waiting
  <2>2. /\ item[w][1] \in Clients /\ item[w][2] \in 1 .. Jobs[item[w][1]]
        /\ item[w] = <<item[w][1], item[w][2]>>
    BY <2>1, TaskIsJob
  <2>3. runs' = [runs EXCEPT ![item[w]] = runs[item[w]] + 1] /\ Completed(item[w][1])
    BY <1>8 DEF RunTask
  <2>4. Joined
    BY <1>1, <1>2, <1>8 DEF RunTask, Goto
  <2>5. BatchInv'
    <3>1. \A c \in Clients : \A j \in 1 .. Jobs[c] :
             item[w] = <<c, j>> /\ Completed(c) => BatchInv'
      BY <2>1, <2>3, <2>4, CompletedCounts DEF JoinInv
    <3> QED
      BY <2>2, <2>3, <3>1
  <2>6. ShutdownInv'
    <3>1. item'[w] # Poison /\ \A t \in Threads : t # w => item'[t] = item[t]
      BY <1>1, <1>8, PoolAssumption DEF RunTask, Items
    <3>2. queue' = queue /\ alive' = alive
      BY <1>8 DEF RunTask
    <3> QED
      BY <2>1, <3>1, <3>2 DEF JoinInv, ShutdownInv
  <2> QED
    BY <2>1, <2>5, <2>6 DEF JoinInv
<1>9. CASE MeetPoison(w)
  <2>1. Joined
    BY <1>1, <1>2, <1>9 DEF MeetPoison, StartPush, Goto
  <2>2. OnePlaceInv'
    <3>1. /\ \A t \in Threads : Holds(t)' <=> Holds(t)
          /\ \A t \in Threads : Holds(t) => item'[t] = item[t]
      BY <1>1, <1>9, ItemFacts DEF MeetPoison, StartPush, Goto, Holds
    <3> QED
      BY <1>9, <3>1, NothingMoves DEF JoinInv, MeetPoison
  <2>3. BatchInv'
    BY <1>9, <2>1, NothingEnds DEF JoinInv, MeetPoison
  <2>4. ShutdownInv'
    BY <1>1, <1>9 DEF JoinInv, ShutdownInv, MeetPoison
  <2> QED
    BY <2>2, <2>3, <2>4 DEF JoinInv
<1>10. CASE Push(w)
  BY <1>1, <1>10, PushKeepsJoinInv
<1>11. CASE WakeUpByChance(w)
  <2>1. Signals /\ Joined
    BY <1>1, <1>2, <1>11 DEF WakeUpByChance, Goto
  <2> QED
    BY <1>11, <2>1, QuietKeepsJoinInv DEF WakeUpByChance
<1> QED
  BY <1>4, <1>5, <1>6, <1>7, <1>8, <1>9, <1>10, <1>11 DEF Work

\* The steps of the clients.
LEMMA ClientsKeepJoinInv ==
    ASSUME WakeupInv, IdleHoldsNothing, JoinInv,
           ~Abort => (PoisonIsOut' <=> PoisonIsOut),
           (\E c \in Clients : Use(c)) \/ Abort \/ JoinWorkers
    PROVE  JoinInv'
<1>1. pc \in [Threads -> Labels] /\ item \in [Threads -> Items \cup {None}]
  BY DEF WakeupInv, PoolTypes
<1>2. (\A c \in Clients : c \in Threads) /\ Main \in Clients
  BY PoolAssumption DEF Threads
<1> DEFINE Signals == \A t \in Threads : pc[t] = "signal" <=> pc'[t] = "signal"
           Joined == \A c \in Clients : pc'[c] = "joined" => pc[c] = "joined"
<1>3. CASE Abort
  <2>1. \A x \in Tasks : runs[x] = 1
    <3> SUFFICES ASSUME NEW x \in Tasks
                 PROVE  runs[x] = 1
      OBVIOUS
    <3>1. x[1] \in Clients /\ x[2] \in 1 .. Jobs[x[1]] /\ x = <<x[1], x[2]>>
      BY TaskIsJob
    <3>2. Done(x[1]) = 1 .. Jobs[x[1]]
      BY <1>3, <3>1 DEF Abort, JoinInv, BatchInv
    <3> QED
      BY <3>1, <3>2 DEF Done
  <2>2. Joined
    BY <1>1, <1>2, <1>3 DEF Abort, StartPush, Goto
  <2>3. OnePlaceInv'
    BY <1>3, AbortMoves DEF JoinInv
  <2>4. BatchInv'
    BY <1>3, <2>2, NothingEnds DEF JoinInv, Abort
  <2>5. ShutdownInv'
    BY <1>3, <2>1 DEF ShutdownInv, Abort
  <2> QED
    BY <2>3, <2>4, <2>5 DEF JoinInv
<1> SUFFICES ASSUME ~Abort
             PROVE  JoinInv'
  BY <1>3
<1>4. ASSUME NEW c \in Clients, IssueJob(c)
      PROVE  JoinInv'
  <2> DEFINE x == <<c, issued[c] + 1>>
  <2>1. OnePlaceInv' /\ x \in Tasks /\ runs[x] = 0
    BY <1>4, IssueMoves DEF JoinInv
  <2>2. issued[c] + 1 \in 1 .. Jobs[c]
    BY <2>1, TaskIsJob
  <2> HIDE DEF x
  <2>3. CASE StartPush(c, x) /\ UNCHANGED <<counter, sem, runs>>
    <3>1. Joined
      BY <1>1, <1>2, <2>3 DEF StartPush, Goto
    <3>2. BatchInv'
      BY <2>3, <3>1, NothingEnds DEF JoinInv
    <3>3. \A t \in Threads : item'[t] = x \/ item'[t] = item[t]
      BY <1>1, <2>3 DEF StartPush
    <3>4. ShutdownInv'
      BY <1>4, <2>1, <2>3, <3>3, PoolAssumption DEF JoinInv, ShutdownInv, IssueJob
    <3> QED
      BY <2>1, <3>2, <3>4 DEF JoinInv
  <2>4. CASE /\ runs' = [runs EXCEPT ![x] = runs[x] + 1]
             /\ Completed(c)
             /\ UNCHANGED <<index, pc, start, at, item>>
    <3>1. BatchInv'
      BY <2>1, <2>2, <2>4, CompletedCounts DEF JoinInv, x
    <3>2. ShutdownInv'
      BY <1>4, <2>1, <2>4 DEF JoinInv, ShutdownInv, IssueJob
    <3> QED
      BY <2>1, <3>1, <3>2 DEF JoinInv
  <2> QED
    BY <1>4, <2>3, <2>4 DEF IssueJob, x
<1>5. ASSUME NEW c \in Clients, Join(c)
      PROVE  JoinInv'
  <2>1. pc' = [pc EXCEPT ![c] = "joined"] /\ sem' = [sem EXCEPT ![c] = sem[c] - 1]
    BY <1>5 DEF Join, Goto
  <2>2. sem[c] = 1 /\ sem \in [Clients -> Nat]
    BY <1>5 DEF JoinInv, BatchInv, Join, WakeupInv, PoolTypes
  <2>3. OnePlaceInv'
    <3>1. /\ \A t \in Threads : Holds(t)' <=> Holds(t)
          /\ item' = item
      BY <1>1, <1>5, <2>1 DEF Holds, Join
    <3> QED
      BY <1>5, <3>1, NothingMoves DEF JoinInv, Join
  <2>4. BatchInv'
    <3> SUFFICES ASSUME NEW d \in Clients
                 PROVE  /\ counter'[d] = Jobs[d] - Cardinality(Done(d)')
                        /\ sem'[d] \in {0, 1}
                        /\ sem'[d] = 1 \/ pc'[d] = "joined" => Done(d)' = 1 .. Jobs[d]
      BY DEF BatchInv
    <3>1. Done(d)' = Done(d) /\ counter' = counter
      BY <1>5 DEF Done, Join
    <3>2. CASE d = c
      BY <2>1, <2>2, <3>1, <3>2 DEF JoinInv, BatchInv
    <3>3. CASE d # c
      BY <1>1, <1>2, <2>1, <2>2, <3>1, <3>3 DEF JoinInv, BatchInv
    <3> QED
      BY <3>2, <3>3
  <2>5. ShutdownInv'
    BY <1>5 DEF JoinInv, ShutdownInv, Join
  <2> QED
    BY <2>3, <2>4, <2>5 DEF JoinInv
<1>6. ASSUME NEW c \in Clients, Push(c)
      PROVE  JoinInv'
  BY <1>2, <1>6, PushKeepsJoinInv
<1>7. CASE JoinWorkers
  <2>1. Signals /\ Joined
    BY <1>1, <1>2, <1>7 DEF JoinWorkers, Goto
  <2> QED
    BY <1>7, <2>1, QuietKeepsJoinInv DEF JoinWorkers
<1> QED
  BY <1>4, <1>5, <1>6, <1>7 DEF Use

\* Jobs, batches and the shutdown, for any N, Clients and Jobs.
THEOREM PoolJoinInvariant == PoolSpec => []JoinInv
<1>1. PoolInit => JoinInv
  <2> SUFFICES ASSUME PoolInit
               PROVE  JoinInv
    OBVIOUS
  <2>1. \A t \in Threads : item[t] = None
    BY DEF PoolInit
  <2>2. \A w \in Workers : Len(queue[w]) = 0 /\ 1 .. Len(queue[w]) = {}
    BY DEF PoolInit
  <2>3. None \notin Items /\ None # Poison
    BY PoolAssumption DEF Items
  <2>4. OnePlaceInv
    <3>1. ASSUME NEW x \in Items
          PROVE  ~Outstanding(x)
      <4>1. CASE x = Poison
        <5>1. item[Main] = None /\ pc[Main] \notin {"joining", "returned"}
          BY PoolAssumption DEF PoolInit, Threads
        <5> QED
          BY <2>3, <4>1, <5>1 DEF Outstanding, PoisonIsOut
      <4>2. CASE x # Poison
        <5>1. x \in Tasks
          BY <4>2, ItemFacts
        <5>2. x[1] \in Clients /\ x[2] \in 1 .. Jobs[x[1]]
          BY <5>1, TaskIsJob
        <5>3. issued[x[1]] = 0 /\ x[2] \in Nat \ {0}
          BY <5>2 DEF PoolInit
        <5> QED
          BY <4>2, <5>3 DEF Outstanding, Waiting
      <4> QED
        BY <4>1, <4>2
    <3> QED
      BY <2>1, <2>2, <2>3, <3>1 DEF PoolInit, OnePlaceInv, QueuedOnce, HeldOnce, QueuedOrHeld,
                                  QueuedWaits, HeldWaits, RunsOnce, Holds, NothingLost
  <2>5. BatchInv
    <3> SUFFICES ASSUME NEW c \in Clients
                 PROVE  /\ counter[c] = Jobs[c] - Cardinality(Done(c))
                        /\ sem[c] \in {0, 1}
                        /\ sem[c] = 1 \/ pc[c] = "joined" => Done(c) = 1 .. Jobs[c]
      BY DEF BatchInv
    <3>1. Done(c) = {}
      BY JobIsTask DEF Done, PoolInit
    <3>2. Cardinality(Done(c)) = 0 /\ Jobs[c] \in Nat
      BY <3>1, DoneFacts, FS_EmptySet
    <3>3. pc[c] = "issue" /\ sem[c] = 0 /\ counter[c] = Jobs[c]
      BY PoolAssumption DEF PoolInit, Threads
    <3> QED
      BY <3>2, <3>3
  <2>6. ShutdownInv
    BY <2>1, <2>2, <2>3 DEF PoolInit, ShutdownInv
  <2> QED
    BY <2>4, <2>5, <2>6 DEF JoinInv
<1>2. WakeupInv /\ IdleHoldsNothing /\ JoinInv /\ [PoolNext]_poolVars => JoinInv'
  <2> SUFFICES ASSUME WakeupInv, IdleHoldsNothing, JoinInv, [PoolNext]_poolVars
               PROVE  JoinInv'
    OBVIOUS
  <2>1. CASE UNCHANGED poolVars
    BY <2>1, QuietKeepsJoinInv DEF poolVars, PoisonIsOut
  <2>2. CASE PoolNext
    <3>1. ~Abort => (PoisonIsOut' <=> PoisonIsOut)
      BY <2>2, IdleStays
    <3>2. CASE (\E c \in Clients : Use(c)) \/ Abort \/ JoinWorkers
      BY <3>1, <3>2, ClientsKeepJoinInv
    <3>3. CASE ~Abort /\ \E w \in Workers : Work(w) \/ WakeUpByChance(w)
      BY <3>1, <3>3, WorkKeepsJoinInv
    <3> QED
      BY <2>2, <3>2, <3>3 DEF PoolNext
  <2> QED
    BY <2>1, <2>2
<1> QED
  BY <1>1, <1>2, PoolInvariant, PoolIdle, PTL DEF PoolSpec

\* pushTpool and worker_thread: between its issue and its end a job is in
\* exactly one queue or in the hands of one thread, whatever trylocks fail, and
\* the poison, once pushed, is never lost nor multiplied.
THEOREM PoolEveryItemIsInOnePlace == PoolSpec => []EveryItemIsInOnePlace
<1>1. ASSUME WakeupInv, OnePlaceInv, NEW x \in Items
      PROVE  Queued(x) + InHand(x) = IF Outstanding(x) THEN 1 ELSE 0
  <2> DEFINE Q == UNION {{w} \X {i \in DOMAIN queue[w] : queue[w][i] = x} : w \in Workers}
             H == {t \in Threads : item[t] = x /\ pc[t] # "signal"}
  <2>1. \A w \in Workers : DOMAIN queue[w] = 1 .. Len(queue[w]) /\ Len(queue[w]) \in Nat
    BY <1>1 DEF WakeupInv, PoolTypes
  <2>2. H = {t \in Threads : Holds(t) /\ item[t] = x}
    BY <1>1 DEF Holds
  <2>3. IF IsQueued(x) THEN Cardinality(Q) = 1 ELSE Cardinality(Q) = 0
    <3>1. ASSUME NEW w \in Workers, NEW i \in 1 .. Len(queue[w]), queue[w][i] = x
          PROVE  Q = {<<w, i>>}
      <4>1. <<w, i>> \in Q
        BY <2>1, <3>1
      <4>2. ASSUME NEW p \in Q
            PROVE  p = <<w, i>>
        <5>1. PICK v \in Workers : p \in {v} \X {j \in DOMAIN queue[v] : queue[v][j] = x}
          OBVIOUS
        <5>2. p = <<v, p[2]>> /\ p[2] \in 1 .. Len(queue[v]) /\ queue[v][p[2]] = x
          BY <2>1, <5>1
        <5>3. v = w /\ p[2] = i
          BY <1>1, <3>1, <5>2 DEF OnePlaceInv, QueuedOnce
        <5> QED
          BY <5>2, <5>3
      <4> QED
        BY <4>1, <4>2
    <3>2. CASE ~IsQueued(x)
      <4>1. Q = {}
        BY <2>1, <3>2 DEF IsQueued
      <4> QED
        BY <3>2, <4>1, FS_EmptySet
    <3>3. CASE IsQueued(x)
      <4>1. PICK w \in Workers : \E i \in 1 .. Len(queue[w]) : queue[w][i] = x
        BY <3>3 DEF IsQueued
      <4>2. PICK i \in 1 .. Len(queue[w]) : queue[w][i] = x
        BY <4>1
      <4>3. Q = {<<w, i>>}
        BY <3>1, <4>2
      <4> QED
        BY <3>3, <4>3, FS_Singleton
    <3> QED
      BY <3>2, <3>3
  <2>4. IF IsHeld(x) THEN Cardinality(H) = 1 ELSE Cardinality(H) = 0
    <3>1. CASE ~IsHeld(x)
      <4>1. H = {}
        BY <2>2, <3>1 DEF IsHeld
      <4> QED
        BY <3>1, <4>1, FS_EmptySet
    <3>2. CASE IsHeld(x)
      <4>1. PICK t \in Threads : Holds(t) /\ item[t] = x
        BY <3>2 DEF IsHeld
      <4>2. H = {t}
        BY <1>1, <2>2, <4>1 DEF OnePlaceInv, HeldOnce
      <4> QED
        BY <3>2, <4>2, FS_Singleton
    <3> QED
      BY <3>1, <3>2
  <2>5. ~(IsQueued(x) /\ IsHeld(x))
    BY <1>1 DEF IsQueued, IsHeld, OnePlaceInv, QueuedOrHeld
  <2>6. IsQueued(x) \/ IsHeld(x) <=> Outstanding(x)
    BY <1>1 DEF IsQueued, IsHeld, OnePlaceInv, QueuedWaits, HeldWaits, NothingLost
  <2>7. Queued(x) = Cardinality(Q) /\ InHand(x) = Cardinality(H)
    BY DEF Queued, InHand
  <2> HIDE DEF Q, H
  <2> QED
    BY <2>3, <2>4, <2>5, <2>6, <2>7
<1>2. ASSUME WakeupInv, OnePlaceInv
      PROVE  EveryItemIsInOnePlace
  <2>1. ASSUME NEW x \in Tasks
        PROVE  Queued(x) + InHand(x) + runs[x] = IF x[2] <= issued[x[1]] THEN 1 ELSE 0
    <3>1. x \in Items /\ x # Poison
      BY ItemFacts
    <3>2. Queued(x) + InHand(x) = IF Waiting(x) THEN 1 ELSE 0
      BY <1>1, <1>2, <3>1 DEF Outstanding
    <3>3. runs[x] = 0 \/ (runs[x] = 1 /\ x[2] <= issued[x[1]])
      BY <1>2 DEF OnePlaceInv, RunsOnce
    <3> QED
      BY <3>2, <3>3 DEF Waiting
  <2>2. Queued(Poison) + InHand(Poison) = IF PoisonIsOut THEN 1 ELSE 0
    BY <1>1, <1>2, ItemFacts DEF Outstanding
  <2> QED
    BY <2>1, <2>2 DEF EveryItemIsInOnePlace, PoisonIsOut
<1>3. WakeupInv /\ JoinInv => EveryItemIsInOnePlace
  BY <1>2 DEF JoinInv
<1> QED
  BY <1>3, PoolInvariant, PoolJoinInvariant, PTL

\* completed_task_ans and join_task_ans: join_task_ans returns when every job of
\* the batch has run, and not before.
THEOREM PoolJoinedAfterAllRan == PoolSpec => []JoinedAfterAllRan
<1>1. JoinInv => JoinedAfterAllRan
  <2> SUFFICES ASSUME JoinInv, NEW x \in Tasks, pc[x[1]] = "joined"
               PROVE  runs[x] = 1
    BY DEF JoinedAfterAllRan
  <2>1. x[1] \in Clients /\ x[2] \in 1 .. Jobs[x[1]] /\ x = <<x[1], x[2]>>
    BY TaskIsJob
  <2>2. Done(x[1]) = 1 .. Jobs[x[1]]
    BY <2>1 DEF JoinInv, BatchInv
  <2> QED
    BY <2>1, <2>2 DEF Done
<1> QED
  BY <1>1, PoolJoinInvariant, PTL

\* abortTpool is called when every client has joined, and these stay where they are.
OthersHaveJoined == PoisonIsOut => \A c \in Clients \ {Main} : pc[c] = "joined"

\* No step moves a thread that has joined, but for the one that aborts the pool.
LEMMA OthersStay ==
    ASSUME WakeupInv, IdleHoldsNothing, OthersHaveJoined, PoolNext
    PROVE  OthersHaveJoined'
<1>1. /\ pc \in [Threads -> Labels] /\ Main \in Clients
      /\ Threads = Workers \cup Clients
  BY PoolAssumption DEF WakeupInv, PoolTypes, Threads
<1>2. CASE Abort
  <2>1. \A c \in Clients \ {Main} : pc[c] = "joined" /\ pc'[c] = pc[c]
    BY <1>1, <1>2 DEF Abort, StartPush, Goto
  <2> QED
    BY <2>1 DEF OthersHaveJoined
<1>3. CASE ~Abort
  <2> DEFINE Moves(t) == /\ pc[t] # "joined"
                         /\ \A u \in Threads : u # t => pc'[u] = pc[u] \/ pc[u] = "sleep"
  <2>1. ASSUME NEW t \in Threads, Push(t) PROVE Moves(t)
    <3>1. CASE TryPush(t) \/ PushAnyway(t) \/ Store(t)
      BY <1>1, <3>1 DEF TryPush, PushAnyway, Store, Goto
    <3>2. CASE Signal(t)
      <4>1. /\ pc[t] = "signal"
            /\ \/ pc' = [pc EXCEPT ![t] = Return(t)]
               \/ /\ pc[Target(t)] = "sleep"
                  /\ pc' = [pc EXCEPT ![t] = Return(t), ![Target(t)] = "lock"]
        BY <3>2 DEF Signal
      <4>2. ASSUME NEW u \in Threads, u # t PROVE pc'[u] = pc[u] \/ pc[u] = "sleep"
        <5>1. CASE u = Target(t)
          BY <1>1, <4>1, <4>2, <5>1
        <5>2. CASE u # Target(t)
          BY <1>1, <4>1, <4>2, <5>2
        <5> QED
          BY <5>1, <5>2
      <4> QED
        BY <4>1, <4>2
    <3> QED
      BY <2>1, <3>1, <3>2 DEF Push
  <2>2. ASSUME NEW w \in Workers, Work(w) \/ WakeUpByChance(w), ~Push(w) PROVE Moves(w)
    BY <1>1, <2>2 DEF Work, Scan, Peek, Lock, Check, RunTask, MeetPoison, WakeUpByChance,
                      PopFrom, StartPush, Goto
  <2>3. ASSUME NEW c \in Clients, IssueJob(c) \/ Join(c) PROVE Moves(c)
    BY <1>1, <2>3 DEF IssueJob, Join, StartPush, Goto
  <2>4. JoinWorkers => Moves(Main)
    BY <1>1 DEF JoinWorkers, Goto
  <2>5. \E t \in Threads : Moves(t)
    <3> HIDE DEF Moves
    <3>1. CASE \E w \in Workers : Work(w) \/ WakeUpByChance(w)
      BY <1>1, <2>1, <2>2, <3>1
    <3>2. CASE \E c \in Clients : Use(c)
      BY <1>1, <2>1, <2>3, <3>2 DEF Use
    <3> QED
      BY <1>1, <1>3, <2>4, <3>1, <3>2 DEF PoolNext
  <2>6. PoisonIsOut' <=> PoisonIsOut
    BY <1>3, IdleStays
  <2>7. ASSUME NEW c \in Clients \ {Main}, pc[c] = "joined" PROVE pc'[c] = "joined"
    BY <1>1, <2>5, <2>7
  <2> QED
    BY <2>6, <2>7 DEF OthersHaveJoined
<1> QED
  BY <1>2, <1>3

\* worker_thread and abortTpool: with any number of workers, when none is awake
\* during a shutdown, all have left or one has left the poison in its queue.
THEOREM PoolHangsOnlyStranded == PoolSpec => []HangsOnlyStranded
<1>1. ASSUME WakeupInv, IdleHoldsNothing, JoinInv, OthersHaveJoined,
             pc[Main] = "joining", \A w \in Workers : pc[w] \in {"sleep", "exited"},
             NEW v \in Workers, pc[v] # "exited"
      PROVE  PoisonStranded
  <2>1. \A t \in Threads : pc[t] \notin {"run", "push", "store", "signal"}
    BY <1>1 DEF OthersHaveJoined, PoisonIsOut, Threads
  <2>2. ~IsHeld(Poison)
    BY <1>1, <2>1, ItemFacts DEF IsHeld, Holds, IdleHoldsNothing
  <2>3. IsQueued(Poison)
    BY <1>1, <2>2, ItemFacts
       DEF JoinInv, OnePlaceInv, NothingLost, Outstanding, PoisonIsOut
  <2>4. PICK w \in Workers : \E i \in 1 .. Len(queue[w]) : queue[w][i] = Poison
    BY <2>3 DEF IsQueued
  <2>5. queue[w] \in Seq(Items) /\ DOMAIN queue[w] = 1 .. Len(queue[w])
    BY <1>1 DEF WakeupInv, PoolTypes
  <2>6. pc[w] # "sleep"
    <3>1. SUFFICES ASSUME pc[w] = "sleep" PROVE FALSE
      OBVIOUS
    <3>2. queue[w] # <<>>
      BY <2>4, <2>5
    <3> QED
      BY <1>1, <2>1, <3>1, <3>2 DEF WakeupInv, NoLostWakeup
  <2> QED
    BY <1>1, <2>4, <2>5, <2>6 DEF PoisonStranded
<1>2. WakeupInv /\ IdleHoldsNothing /\ JoinInv /\ OthersHaveJoined => HangsOnlyStranded
  BY <1>1 DEF HangsOnlyStranded
<1>3. PoolInit => OthersHaveJoined
  BY PoolAssumption DEF PoolInit, OthersHaveJoined, PoisonIsOut, Threads, Items
<1>4. /\ WakeupInv /\ IdleHoldsNothing /\ OthersHaveJoined /\ [PoolNext]_poolVars
      => OthersHaveJoined'
  <2> SUFFICES ASSUME WakeupInv, IdleHoldsNothing, OthersHaveJoined, [PoolNext]_poolVars
               PROVE  OthersHaveJoined'
    OBVIOUS
  <2>1. CASE UNCHANGED poolVars
    BY <2>1 DEF poolVars, OthersHaveJoined, PoisonIsOut
  <2> QED
    BY <2>1, OthersStay
<1> QED
  BY <1>2, <1>3, <1>4, PoolInvariant, PoolIdle, PoolJoinInvariant, PTL DEF PoolSpec
-----------------------------------------------------------------------------
\* The loops of pushTpool and worker_thread stay in their bounds, and so does
\* the number of jobs issued.
LoopInv ==
    /\ \A w \in Workers : /\ at[w] <= 2 * (N + w)
                          /\ pc[w] = "peek" => at[w] < 2 * (N + w)
    /\ \A c \in Clients : at[c] <= N /\ issued[c] <= Jobs[c]

\* The facts about threads and their variables that the bounds rest on.
LEMMA LoopFacts ==
    ASSUME PoolTypes
    PROVE  /\ N \in Nat /\ N > 0 /\ Workers \cap Clients = {}
           /\ \A w \in Workers : w \in Nat
           /\ \A u \in Threads : at[u] \in Nat
           /\ Threads = Workers \cup Clients
           /\ pc \in [Threads -> Labels] /\ at \in [Threads -> Nat]
           /\ issued \in [Clients -> Nat] /\ Jobs \in [Clients -> Nat \ {0}]
           /\ Main \in Clients
<1>1. /\ N \in Nat /\ N > 0 /\ Workers \cap Clients = {}
      /\ Jobs \in [Clients -> Nat \ {0}] /\ Main \in Clients
  BY PoolAssumption
<1>2. \A w \in Workers : w \in Nat
  BY <1>1 DEF Workers
<1>3. /\ pc \in [Threads -> Labels] /\ at \in [Threads -> Nat]
      /\ issued \in [Clients -> Nat]
  BY DEF PoolTypes
<1> QED
  BY <1>1, <1>2, <1>3 DEF Threads

\* The steps of pushTpool keep the bounds.
LEMMA PushKeepsLoopInv ==
    ASSUME PoolTypes, LoopInv, NEW t \in Threads, Push(t)
    PROVE  LoopInv'
<1>1. /\ N \in Nat /\ N > 0 /\ Workers \cap Clients = {}
      /\ \A w \in Workers : w \in Nat
      /\ \A u \in Threads : at[u] \in Nat
      /\ Threads = Workers \cup Clients
      /\ pc \in [Threads -> Labels] /\ at \in [Threads -> Nat]
  BY LoopFacts
<1>2. CASE TryPush(t)
  <2>1. at'[t] <= N /\ \A u \in Threads \ {t} : at'[u] = at[u]
    BY <1>1, <1>2 DEF TryPush, LockOf
  <2>2. \A u \in Threads : pc'[u] = "peek" => pc[u] = "peek" /\ u # t
    BY <1>1, <1>2 DEF TryPush, Goto
  <2>3. issued' = issued
    BY <1>2 DEF TryPush
  <2>4. at'[t] \in Nat
    BY <1>1, <1>2 DEF TryPush, LockOf
  <2>5. \A w \in Workers : N <= 2 * (N + w)
    BY <1>1
  <2>6. \A w \in Workers : /\ at'[w] <= 2 * (N + w)
                           /\ pc'[w] = "peek" => at'[w] < 2 * (N + w)
    <3> SUFFICES ASSUME NEW w \in Workers
                 PROVE  /\ at'[w] <= 2 * (N + w)
                        /\ pc'[w] = "peek" => at'[w] < 2 * (N + w)
      OBVIOUS
    <3>1. CASE w = t
      BY <1>1, <2>1, <2>2, <2>4, <2>5, <3>1
    <3>2. CASE w # t
      BY <1>1, <2>1, <2>2, <3>2 DEF LoopInv
    <3> QED
      BY <3>1, <3>2
  <2>7. \A c \in Clients : at'[c] <= N /\ issued'[c] <= Jobs[c]
    BY <1>1, <2>1, <2>3 DEF LoopInv
  <2> QED
    BY <2>6, <2>7 DEF LoopInv
<1>3. CASE PushAnyway(t)
  <2>1. \A u \in Threads : pc'[u] = "peek" => pc[u] = "peek"
    BY <1>1, <1>3 DEF PushAnyway, Goto
  <2> QED
    BY <1>1, <1>3, <2>1 DEF PushAnyway, LoopInv
<1>4. CASE Store(t)
  <2>1. \A u \in Threads : pc'[u] = "peek" => pc[u] = "peek"
    BY <1>1, <1>4 DEF Store, Goto
  <2> QED
    BY <1>1, <1>4, <2>1 DEF Store, LoopInv
<1>5. CASE Signal(t)
  <2>1. \A u \in Threads : pc'[u] = "peek" => pc[u] = "peek"
    BY <1>1, <1>5 DEF Signal, Return
  <2>2. at'[t] = 0 /\ \A u \in Threads \ {t} : at'[u] = at[u]
    BY <1>1, <1>5 DEF Signal
  <2>3. \A u \in Threads : pc'[u] = "peek" => at'[u] = at[u] \/ at'[u] = 0
    BY <2>2
  <2>4. issued' = issued
    BY <1>5 DEF Signal
  <2> QED
    BY <1>1, <2>1, <2>2, <2>3, <2>4 DEF LoopInv
<1> QED
  BY <1>2, <1>3, <1>4, <1>5 DEF Push

\* The steps of a worker keep the bounds.
LEMMA WorkKeepsLoopInv ==
    ASSUME PoolTypes, LoopInv, NEW w \in Workers, Work(w) \/ WakeUpByChance(w)
    PROVE  LoopInv'
<1>1. /\ N \in Nat /\ N > 0 /\ Workers \cap Clients = {}
      /\ \A v \in Workers : v \in Nat
      /\ \A u \in Threads : at[u] \in Nat
      /\ Threads = Workers \cup Clients
      /\ pc \in [Threads -> Labels] /\ at \in [Threads -> Nat]
      /\ w \in Threads
  BY LoopFacts
<1>2. SUFFICES ASSUME ~Push(w)
               PROVE  LoopInv'
  BY <1>1, PushKeepsLoopInv
<1>3. /\ issued' = issued
      /\ \A u \in Threads \ {w} : at'[u] = at[u] /\ pc'[u] = pc[u]
  BY <1>1, <1>2 DEF Work, Scan, Peek, Lock, Check, RunTask, MeetPoison, WakeUpByChance,
                    PopFrom, StartPush, Goto
<1>4. /\ at'[w] <= 2 * (N + w)
      /\ pc'[w] = "peek" => at'[w] < 2 * (N + w)
  <2>1. CASE Scan(w)
    BY <1>1, <2>1 DEF Scan, Goto, LoopInv
  <2>2. CASE Peek(w)
    BY <1>1, <2>2 DEF Peek, PopFrom, Goto, LoopInv
  <2>3. CASE Lock(w) \/ WakeUpByChance(w)
    BY <1>1, <2>3 DEF Lock, WakeUpByChance, Goto, LoopInv
  <2>4. CASE Check(w)
    BY <1>1, <2>4 DEF Check, PopFrom, Goto, LoopInv
  <2>5. CASE RunTask(w)
    BY <1>1, <2>5 DEF RunTask, Goto, LoopInv
  <2>6. CASE MeetPoison(w)
    BY <1>1, <2>6 DEF MeetPoison, StartPush, Goto, LoopInv
  <2> QED
    BY <1>2, <2>1, <2>2, <2>3, <2>4, <2>5, <2>6 DEF Work
<1> QED
  BY <1>1, <1>3, <1>4 DEF LoopInv

\* The steps of the clients keep the bounds.
LEMMA ClientsKeepLoopInv ==
    ASSUME PoolTypes, LoopInv,
           (\E c \in Clients : Use(c)) \/ Abort \/ JoinWorkers
    PROVE  LoopInv'
<1>1. /\ N \in Nat /\ N > 0 /\ Workers \cap Clients = {}
      /\ \A v \in Workers : v \in Nat
      /\ \A u \in Threads : at[u] \in Nat
      /\ Threads = Workers \cup Clients
      /\ pc \in [Threads -> Labels] /\ at \in [Threads -> Nat]
      /\ issued \in [Clients -> Nat] /\ Jobs \in [Clients -> Nat \ {0}]
      /\ Main \in Clients
  BY LoopFacts
<1>2. CASE \E c \in Clients : IssueJob(c)
  <2>1. PICK c \in Clients : IssueJob(c)
    BY <1>2
  <2>2. issued'[c] <= Jobs[c] /\ \A d \in Clients \ {c} : issued'[d] = issued[d]
    BY <1>1, <2>1 DEF IssueJob
  <2>3. \A u \in Threads : at'[u] = at[u] \/ (u = c /\ at'[u] = 0)
    BY <1>1, <2>1 DEF IssueJob, StartPush
  <2>4. \A u \in Workers : pc'[u] = pc[u] /\ u # c
    BY <1>1, <2>1 DEF IssueJob, StartPush, Goto
  <2> QED
    BY <1>1, <2>2, <2>3, <2>4 DEF LoopInv
<1>3. CASE \E c \in Clients : Join(c)
  <2>1. at' = at /\ issued' = issued /\ \A u \in Workers : pc'[u] = pc[u]
    BY <1>1, <1>3 DEF Join, Goto
  <2> QED
    BY <2>1 DEF LoopInv
<1>4. CASE Abort
  <2>1. \A u \in Threads : at'[u] = at[u] \/ (u = Main /\ at'[u] = 0)
    BY <1>1, <1>4 DEF Abort, StartPush
  <2>2. issued' = issued /\ \A u \in Workers : pc'[u] = pc[u] /\ u # Main
    BY <1>1, <1>4 DEF Abort, StartPush, Goto
  <2> QED
    BY <1>1, <2>1, <2>2 DEF LoopInv
<1>5. CASE JoinWorkers
  <2>1. at' = at /\ issued' = issued /\ \A u \in Workers : pc'[u] = pc[u]
    BY <1>1, <1>5 DEF JoinWorkers, Goto
  <2> QED
    BY <2>1 DEF LoopInv
<1>6. CASE \E c \in Clients : Push(c)
  BY <1>1, <1>6, PushKeepsLoopInv
<1> QED
  BY <1>2, <1>3, <1>4, <1>5, <1>6 DEF Use

\* thread-pool.c, task_ans.c: the variables have their types and the loops their
\* bounds; a batch has no more jobs than it says, each runs once at most, and
\* its end is posted once.
THEOREM PoolTypeCorrect == PoolSpec => []PoolTypeOK
<1>1. PoolInit => LoopInv
  <2> SUFFICES ASSUME PoolInit
               PROVE  LoopInv
    OBVIOUS
  <2>1. N \in Nat /\ (\A w \in Workers : w \in Nat) /\ Workers \cap Clients = {}
    BY PoolAssumption DEF Workers
  <2>2. \A w \in Workers : at[w] = w /\ pc[w] = "scan"
    BY DEF PoolInit, Threads
  <2>3. \A c \in Clients : at[c] = 0 /\ issued[c] = 0 /\ Jobs[c] \in Nat
    BY <2>1, PoolAssumption DEF PoolInit, Threads
  <2> QED
    BY <2>1, <2>2, <2>3 DEF LoopInv
<1>2. WakeupInv /\ LoopInv /\ [PoolNext]_poolVars => LoopInv'
  <2> SUFFICES ASSUME WakeupInv, LoopInv, [PoolNext]_poolVars
               PROVE  LoopInv'
    OBVIOUS
  <2>1. PoolTypes
    BY DEF WakeupInv
  <2>2. CASE UNCHANGED poolVars
    BY <2>2 DEF poolVars, LoopInv
  <2>3. CASE PoolNext
    BY <2>1, <2>3, WorkKeepsLoopInv, ClientsKeepLoopInv DEF PoolNext
  <2> QED
    BY <2>2, <2>3
<1>3. WakeupInv /\ LoopInv /\ JoinInv => PoolTypeOK
  <2> SUFFICES ASSUME WakeupInv, LoopInv, JoinInv
               PROVE  PoolTypeOK
    OBVIOUS
  <2>1. PoolTypes
    BY DEF WakeupInv
  <2>2. \A t \in Threads : at[t] <= IF t \in Workers THEN 2 * (N + t) ELSE N
    BY DEF LoopInv, Threads
  <2>3. \A c \in Clients : counter[c] \in 0 .. Jobs[c] /\ sem[c] <= 1
    <3> SUFFICES ASSUME NEW c \in Clients
                 PROVE  counter[c] \in 0 .. Jobs[c] /\ sem[c] <= 1
      OBVIOUS
    <3>1. /\ counter[c] = Jobs[c] - Cardinality(Done(c))
          /\ sem[c] \in {0, 1}
      BY DEF JoinInv, BatchInv
    <3> QED
      BY <3>1, DoneFacts
  <2>4. \A c \in Clients : issued[c] <= Jobs[c]
    BY DEF LoopInv
  <2>5. \A x \in Tasks : runs[x] <= 1
    BY DEF JoinInv, OnePlaceInv, RunsOnce
  <2> QED
    BY <2>1, <2>2, <2>3, <2>4, <2>5 DEF PoolTypeOK
<1> QED
  BY <1>1, <1>2, <1>3, PoolInvariant, PoolJoinInvariant, PTL DEF PoolSpec
=============================================================================
