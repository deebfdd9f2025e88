-------------------------- MODULE ThreadPool_proofs --------------------------
(***************************************************************************)
(* No wakeup is lost in the thread pool: proof for any number of workers,  *)
(* clients and jobs.                                                       *)
(***************************************************************************)
EXTENDS ThreadPool, TLAPS

\* The inductive invariant: types, what a thread holds when it works with it,
\* and the property.
WakeupInv ==
    /\ PoolTypes
    /\ \A t \in Threads : pc[t] \in {"push", "store", "run"} => item[t] \in Items
    /\ NoLostWakeup

\* A thread is always at a queue of the pool.
LEMMA TargetIsAQueue ==
    ASSUME PoolTypes, NEW t \in Threads
    PROVE  Target(t) \in Workers
<1>1. /\ N \in Nat /\ N > 0
      /\ start[t] + at[t] \in Nat
  BY PoolAssumption DEF PoolTypes
<1>2. (start[t] + at[t]) % N \in 0 .. N - 1
  BY <1>1, SMT
<1> QED
  BY <1>2 DEF Target, Workers

\* A step that puts nothing into a queue where its worker sleeps, sends no worker
\* to sleep on a queue that is not empty and takes no signal away loses no wakeup.
LEMMA QuietStep ==
    ASSUME NoLostWakeup,
           \A w \in Workers : pc'[w] = "sleep" /\ queue'[w] # <<>> =>
                                  pc[w] = "sleep" /\ queue[w] # <<>>,
           \A t \in Threads : pc[t] = "signal" =>
                                  pc'[t] = "signal" /\ start'[t] = start[t] /\ at'[t] = at[t]
    PROVE  NoLostWakeup'
<1> SUFFICES ASSUME NEW w \in Workers, pc'[w] = "sleep", queue'[w] # <<>>
             PROVE  \E t \in Threads : pc'[t] = "signal" /\ Target(t)' = w
  BY DEF NoLostWakeup
<1>1. PICK t \in Threads : pc[t] = "signal" /\ Target(t) = w
  BY DEF NoLostWakeup
<1>2. pc'[t] = "signal" /\ Target(t)' = w
  BY <1>1 DEF Target
<1> QED
  BY <1>2

\* StartPush keeps the types, and what is pushed is in hand.
LEMMA StartPushTypes ==
    ASSUME WakeupInv, NEW t \in Threads, NEW x \in Items, StartPush(t, x), queue' = queue,
           pc[t] # "signal"
    PROVE  /\ index' \in 0 .. N - 1
           /\ pc' \in [Threads -> Labels]
           /\ start' \in [Threads -> 0 .. N - 1]
           /\ at' \in [Threads -> Nat]
           /\ item' \in [Threads -> Items \cup {None}]
           /\ \A u \in Threads : pc'[u] \in {"push", "store", "run"} => item'[u] \in Items
           /\ NoLostWakeup'
<1>1. index' \in 0 .. N - 1
  <2>1. N \in Nat /\ N > 0 /\ index \in Nat /\ index' = (index + 1) % N
    BY PoolAssumption DEF WakeupInv, PoolTypes, StartPush
  <2> QED
    BY <2>1, SMT
<1>2. /\ pc' \in [Threads -> Labels]
      /\ start' \in [Threads -> 0 .. N - 1]
      /\ at' \in [Threads -> Nat]
      /\ item' \in [Threads -> Items \cup {None}]
  BY DEF WakeupInv, PoolTypes, StartPush, Goto, Labels
<1>3. \A u \in Threads : pc'[u] \in {"push", "store", "run"} => item'[u] \in Items
  BY DEF WakeupInv, PoolTypes, StartPush, Goto
<1>4. NoLostWakeup'
  <2>1. \A w \in Workers : pc'[w] = "sleep" /\ queue'[w] # <<>> => pc[w] = "sleep" /\ queue[w] # <<>>
    BY DEF WakeupInv, PoolTypes, StartPush, Goto, Threads
  <2>2. \A u \in Threads : pc[u] = "signal" =>
                              pc'[u] = "signal" /\ start'[u] = start[u] /\ at'[u] = at[u]
    BY DEF WakeupInv, PoolTypes, StartPush, Goto
  <2> QED
    BY <2>1, <2>2, QuietStep DEF WakeupInv
<1> QED
  BY <1>1, <1>2, <1>3, <1>4

\* The steps of pushTpool keep the invariant.
LEMMA PushKeepsInv ==
    ASSUME WakeupInv, NEW t \in Threads, Push(t)
    PROVE  WakeupInv'
<1> USE DEF WakeupInv, PoolTypes, Goto
<1>1. Target(t) \in Workers
  BY TargetIsAQueue
<1>2. CASE TryPush(t)
  <2>1. PoolTypes' /\ \A u \in Threads : pc'[u] \in {"push", "store", "run"} => item'[u] \in Items
    <3>1. at' \in [Threads -> Nat]
      <4>1. at' = at \/ at' = [at EXCEPT ![t] = at[t] + 1]
        BY <1>2 DEF TryPush
      <4>2. at[t] + 1 \in Nat /\ at \in [Threads -> Nat]
        OBVIOUS
      <4> QED
        BY <4>1, <4>2
    <3>2. mutex' \in [Workers -> Threads \cup {None}] /\ pc' \in [Threads -> Labels]
      BY <1>1, <1>2 DEF TryPush, LockOf, Labels
    <3>3. \A u \in Threads : pc'[u] \in {"push", "store", "run"} => item'[u] \in Items
      BY <1>2 DEF TryPush
    <3> QED
      BY <1>2, <3>1, <3>2, <3>3 DEF TryPush
  <2>2. \A w \in Workers : pc'[w] = "sleep" /\ queue'[w] # <<>> => pc[w] = "sleep" /\ queue[w] # <<>>
    BY <1>2 DEF TryPush, Threads
  <2>3. \A u \in Threads : pc[u] = "signal" =>
                              pc'[u] = "signal" /\ start'[u] = start[u] /\ at'[u] = at[u]
    BY <1>2 DEF TryPush
  <2> QED
    BY <2>1, <2>2, <2>3, QuietStep
<1>3. CASE PushAnyway(t)
  <2>1. PoolTypes' /\ \A u \in Threads : pc'[u] \in {"push", "store", "run"} => item'[u] \in Items
    <3>1. mutex' \in [Workers -> Threads \cup {None}] /\ pc' \in [Threads -> Labels]
      BY <1>1, <1>3 DEF PushAnyway, LockOf, Labels
    <3>2. \A u \in Threads : pc'[u] \in {"push", "store", "run"} => item'[u] \in Items
      BY <1>3 DEF PushAnyway
    <3> QED
      BY <1>3, <3>1, <3>2 DEF PushAnyway
  <2>2. \A w \in Workers : pc'[w] = "sleep" /\ queue'[w] # <<>> => pc[w] = "sleep" /\ queue[w] # <<>>
    BY <1>3 DEF PushAnyway, Threads
  <2>3. \A u \in Threads : pc[u] = "signal" =>
                              pc'[u] = "signal" /\ start'[u] = start[u] /\ at'[u] = at[u]
    BY <1>3 DEF PushAnyway
  <2> QED
    BY <2>1, <2>2, <2>3, QuietStep
<1>4. CASE Store(t)
  <2>1. queue' \in [Workers -> Seq(Items)]
    <3>1. item[t] \in Items
      BY <1>4 DEF Store
    <3>2. Append(queue[Target(t)], item[t]) \in Seq(Items)
      BY <1>1, <3>1
    <3> QED
      BY <1>1, <1>4, <3>2 DEF Store
  <2>2. PoolTypes' /\ \A u \in Threads : pc'[u] \in {"push", "store", "run"} => item'[u] \in Items
    BY <1>1, <1>4, <2>1 DEF Store, UnlockOf, Labels
  <2>3. ASSUME NEW w \in Workers, pc'[w] = "sleep", queue'[w] # <<>>
        PROVE  \E u \in Threads : pc'[u] = "signal" /\ Target(u)' = w
    <3>1. CASE w = Target(t)
      <4>1. pc'[t] = "signal" /\ Target(t)' = w
        BY <1>4, <3>1 DEF Store, Target
      <4> QED
        BY <4>1
    <3>2. CASE w # Target(t)
      <4>1. pc[w] = "sleep" /\ queue[w] # <<>>
        BY <1>4, <2>3, <3>2 DEF Store, Threads
      <4>2. PICK u \in Threads : pc[u] = "signal" /\ Target(u) = w
        BY <4>1 DEF NoLostWakeup
      <4>3. pc'[u] = "signal" /\ Target(u)' = w
        BY <1>4, <4>2 DEF Store, Target
      <4> QED
        BY <4>3
    <3> QED
      BY <3>1, <3>2
  <2> QED
    BY <2>2, <2>3 DEF NoLostWakeup
<1>5. CASE Signal(t)
  <2>1. PoolTypes' /\ \A u \in Threads : pc'[u] \in {"push", "store", "run"} => item'[u] \in Items
    <3>1. 0 \in 0 .. N - 1 /\ 0 \in Nat
      BY PoolAssumption
    <3>2. Return(t) \in Labels /\ Return(t) \notin {"push", "store", "run"}
      BY DEF Return, Labels
    <3>3. pc' \in [Threads -> Labels]
      BY <1>5, <3>2 DEF Signal, Labels
    <3>4. \A u \in Threads : pc'[u] \in {"push", "store", "run"} => item'[u] \in Items
      BY <1>1, <1>5, <3>2 DEF Signal, Threads
    <3> QED
      BY <1>5, <3>1, <3>3, <3>4 DEF Signal
  <2>2. ASSUME NEW w \in Workers, pc'[w] = "sleep", queue'[w] # <<>>
        PROVE  \E u \in Threads : pc'[u] = "signal" /\ Target(u)' = w
    <3>0. Return(t) # "sleep"
      BY DEF Return
    <3>1. w # t /\ w # Target(t) /\ pc[w] = "sleep" /\ queue[w] # <<>>
      BY <1>1, <1>5, <2>2, <3>0 DEF Signal, Threads
    <3>2. PICK u \in Threads : pc[u] = "signal" /\ Target(u) = w
      BY <3>1 DEF NoLostWakeup
    <3>3. u # t
      BY <3>1, <3>2
    <3>4. pc'[u] = "signal" /\ start'[u] = start[u] /\ at'[u] = at[u]
      BY <1>1, <1>5, <3>2, <3>3 DEF Signal, Threads
    <3> QED
      BY <3>2, <3>4 DEF Target
  <2> QED
    BY <2>1, <2>2 DEF NoLostWakeup
<1> QED
  BY <1>2, <1>3, <1>4, <1>5 DEF Push

\* A worker that takes something from a queue leaves the queue typed, and loses no
\* wakeup of it.
LEMMA PopFromFacts ==
    ASSUME WakeupInv, NEW w \in Workers, NEW q \in Workers, PopFrom(q, w), pc[w] # "signal"
    PROVE  /\ queue' \in [Workers -> Seq(Items)]
           /\ mutex' \in [Workers -> Threads \cup {None}]
           /\ item' \in [Threads -> Items \cup {None}]
           /\ at' \in [Threads -> Nat]
           /\ pc' \in [Threads -> Labels]
           /\ \A u \in Threads : pc'[u] \in {"push", "store", "run"} => item'[u] \in Items
           /\ \A v \in Workers : pc'[v] = "sleep" /\ queue'[v] # <<>> =>
                                     pc[v] = "sleep" /\ queue[v] # <<>>
           /\ \A u \in Threads : pc[u] = "signal" => pc'[u] = "signal" /\ at'[u] = at[u]
<1> USE DEF WakeupInv, PoolTypes, Goto, PopFrom
<1>1. w \in Threads /\ w \in Nat
  BY PoolAssumption DEF Threads, Workers
<1>2. queue[q] \in Seq(Items) /\ queue[q] # <<>>
  OBVIOUS
<1>3. Head(queue[q]) \in Items /\ Tail(queue[q]) \in Seq(Items)
  BY <1>2
<1>4. queue' \in [Workers -> Seq(Items)] /\ mutex' \in [Workers -> Threads \cup {None}]
  BY <1>3 DEF UnlockOf
<1>5. /\ item' \in [Threads -> Items \cup {None}]
      /\ at' \in [Threads -> Nat]
      /\ pc' \in [Threads -> Labels]
  BY <1>1, <1>3 DEF Labels
<1>6. \A u \in Threads : pc'[u] \in {"push", "store", "run"} => item'[u] \in Items
  BY <1>1, <1>3
<1>7. \A v \in Workers : pc'[v] = "sleep" /\ queue'[v] # <<>> => pc[v] = "sleep" /\ queue[v] # <<>>
  BY <1>1, <1>2 DEF Threads
<1>8. \A u \in Threads : pc[u] = "signal" => pc'[u] = "signal" /\ at'[u] = at[u]
  BY <1>1
<1> QED
  BY <1>4, <1>5, <1>6, <1>7, <1>8

\* The steps of a worker that are not its own pushes keep the invariant.
LEMMA WorkKeepsInv ==
    ASSUME WakeupInv, NEW w \in Workers, Work(w) \/ WakeUpByChance(w)
    PROVE  WakeupInv'
<1> USE DEF WakeupInv, PoolTypes, Goto
<1>0. w \in Threads /\ w \in Nat
  BY PoolAssumption DEF Threads, Workers
<1>1. w \in Threads /\ w \in Nat /\ Target(w) \in Workers
  BY <1>0, TargetIsAQueue
<1> DEFINE Held == \A u \in Threads : pc'[u] \in {"push", "store", "run"} => item'[u] \in Items
           Asleep == \A v \in Workers : pc'[v] = "sleep" /\ queue'[v] # <<>> =>
                                          pc[v] = "sleep" /\ queue[v] # <<>>
           Signals == \A u \in Threads : pc[u] = "signal" =>
                          pc'[u] = "signal" /\ start'[u] = start[u] /\ at'[u] = at[u]
<1>2. PoolTypes' /\ Held /\ Asleep /\ Signals => WakeupInv'
  BY QuietStep
<1>3. CASE Scan(w)
  <2>1. at' \in [Threads -> Nat]
    <3>1. at' = at \/ at' = [at EXCEPT ![w] = at[w] + 1]
      BY <1>3 DEF Scan
    <3>2. at[w] + 1 \in Nat /\ at \in [Threads -> Nat]
      BY <1>1
    <3> QED
      BY <3>1, <3>2
  <2>2. mutex' \in [Workers -> Threads \cup {None}] /\ pc' \in [Threads -> Labels]
    <3>1. mutex' = mutex \/ mutex' = [mutex EXCEPT ![Target(w)] = w]
      BY <1>3 DEF Scan, LockOf
    <3>2. pc' = pc \/ pc' = [pc EXCEPT ![w] = "peek"] \/ pc' = [pc EXCEPT ![w] = "lock"]
      BY <1>3 DEF Scan, Goto
    <3>3. "peek" \in Labels /\ "lock" \in Labels
      BY DEF Labels
    <3>4. mutex \in [Workers -> Threads \cup {None}] /\ pc \in [Threads -> Labels] /\ w \in Threads
      BY <1>1 DEF Threads
    <3>5. mutex' \in [Workers -> Threads \cup {None}]
      BY <3>1, <3>4
    <3> QED
      BY <3>2, <3>3, <3>4, <3>5
  <2>3. Held /\ Asleep /\ Signals
    <3>1. Held
      BY <1>1, <1>3 DEF Scan, Threads
    <3>2. Asleep
      BY <1>1, <1>3 DEF Scan, Threads
    <3>3. Signals
      BY <1>1, <1>3 DEF Scan, Threads
    <3> QED
      BY <3>1, <3>2, <3>3
  <2> QED
    BY <1>2, <1>3, <2>1, <2>2, <2>3 DEF Scan
<1>4. CASE Peek(w)
  <2>1. CASE PopFrom(Target(w), w)
    BY <1>2, <1>1, <1>4, <2>1, PopFromFacts DEF Peek
  <2>2. CASE queue[Target(w)] = <<>>
    <3>1. at' \in [Threads -> Nat]
      BY <1>1, <1>4, <2>2 DEF Peek, PopFrom
    <3>2. mutex' \in [Workers -> Threads \cup {None}] /\ pc' \in [Threads -> Labels]
      BY <1>1, <1>4, <2>2 DEF Peek, PopFrom, UnlockOf, Labels
    <3>3. Held /\ Asleep /\ Signals
      <4>1. Held
        BY <1>1, <1>4, <2>2 DEF Peek, PopFrom, Threads
      <4>2. Asleep
        BY <1>1, <1>4, <2>2 DEF Peek, PopFrom, Threads
      <4>3. Signals
        BY <1>1, <1>4, <2>2 DEF Peek, PopFrom, Threads
      <4> QED
        BY <4>1, <4>2, <4>3
    <3> QED
      BY <1>2, <1>4, <2>2, <3>1, <3>2, <3>3 DEF Peek, PopFrom
  <2> QED
    BY <1>4, <2>1, <2>2 DEF Peek
<1>5. CASE Lock(w)
  <2>1. mutex' \in [Workers -> Threads \cup {None}] /\ pc' \in [Threads -> Labels]
    BY <1>1, <1>5 DEF Lock, LockOf, Labels
  <2>2. Held /\ Asleep /\ Signals
    <3>1. Held
      BY <1>1, <1>5 DEF Lock, Threads
    <3>2. Asleep
      BY <1>1, <1>5 DEF Lock, Threads
    <3>3. Signals
      BY <1>1, <1>5 DEF Lock, Threads
    <3> QED
      BY <3>1, <3>2, <3>3
  <2> QED
    BY <1>2, <1>5, <2>1, <2>2 DEF Lock
<1>6. CASE Check(w)
  <2>1. CASE PopFrom(w, w)
    BY <1>2, <1>1, <1>6, <2>1, PopFromFacts DEF Check
  <2>2. CASE queue[w] = <<>>
    <3>1. mutex' \in [Workers -> Threads \cup {None}] /\ pc' \in [Threads -> Labels]
      BY <1>1, <1>6, <2>2 DEF Check, PopFrom, UnlockOf, Labels
    <3>2. Held /\ Asleep /\ Signals
      <4>1. Held
        BY <1>1, <1>6, <2>2 DEF Check, PopFrom, Threads
      <4>2. Asleep
        BY <1>1, <1>6, <2>2 DEF Check, PopFrom, Threads
      <4>3. Signals
        BY <1>1, <1>6, <2>2 DEF Check, PopFrom, Threads
      <4> QED
        BY <4>1, <4>2, <4>3
    <3> QED
      BY <1>2, <1>6, <2>2, <3>1, <3>2 DEF Check, PopFrom
  <2> QED
    BY <1>6, <2>1, <2>2 DEF Check
<1>7. CASE RunTask(w)
  <2>1. item[w] \in Tasks
    BY <1>1, <1>7 DEF RunTask, Items
  <2>2. item[w][1] \in Clients
    BY <2>1 DEF Tasks
  <2>3. runs' \in [Tasks -> Nat]
    BY <1>7, <2>1 DEF RunTask
  <2>4. counter' \in [Clients -> Int] /\ sem' \in [Clients -> Nat]
    <3>1. Completed(item[w][1])
      BY <1>7 DEF RunTask
    <3>2. counter' \in [Clients -> Int]
      BY <2>2, <3>1 DEF Completed
    <3>3. sem' \in [Clients -> Nat]
      <4>1. sem' = [sem EXCEPT ![item[w][1]] = @ + 1] \/ sem' = sem
        BY <3>1 DEF Completed
      <4>2. sem \in [Clients -> Nat] /\ sem[item[w][1]] + 1 \in Nat
        BY <2>2
      <4> QED
        BY <4>1, <4>2
    <3> QED
      BY <3>2, <3>3
  <2>5. pc' \in [Threads -> Labels] /\ item' \in [Threads -> Items \cup {None}]
    BY <1>1, <1>7 DEF RunTask, Labels
  <2>6. Held /\ Asleep /\ Signals
    <3>1. Held
      BY <1>1, <1>7 DEF RunTask, Threads
    <3>2. Asleep
      BY <1>1, <1>7 DEF RunTask, Threads
    <3>3. Signals
      BY <1>1, <1>7 DEF RunTask, Threads
    <3> QED
      BY <3>1, <3>2, <3>3
  <2> QED
    BY <1>2, <1>7, <2>3, <2>4, <2>5, <2>6 DEF RunTask
<1>8. CASE MeetPoison(w)
  <2>1. Poison \in Items /\ pc[w] # "signal" /\ queue' = queue /\ StartPush(w, Poison)
    BY <1>8 DEF MeetPoison, Items
  <2>2. Asleep /\ Signals
    BY <1>1, <2>1 DEF StartPush, Threads
  <2> QED
    BY <1>2, <1>1, <1>8, <2>1, <2>2, StartPushTypes DEF MeetPoison
<1>9. CASE Push(w)
  <2>1. WakeupInv'
    BY <1>1, <1>9, PushKeepsInv
  <2> QED
    BY <2>1
<1>10. CASE WakeUpByChance(w)
  <2>1. pc' \in [Threads -> Labels] /\ Held /\ Asleep /\ Signals
    BY <1>1, <1>10 DEF WakeUpByChance, Threads, Labels
  <2> QED
    BY <1>2, <1>10, <2>1 DEF WakeUpByChance
<1> QED
  BY <1>3, <1>4, <1>5, <1>6, <1>7, <1>8, <1>9, <1>10 DEF Work

\* The steps of the clients keep the invariant.
LEMMA ClientsKeepInv ==
    ASSUME WakeupInv, (\E c \in Clients : Use(c)) \/ Abort \/ JoinWorkers
    PROVE  WakeupInv'
<1> USE DEF WakeupInv, PoolTypes, Goto
<1> DEFINE Held == \A u \in Threads : pc'[u] \in {"push", "store", "run"} => item'[u] \in Items
           Asleep == \A v \in Workers : pc'[v] = "sleep" /\ queue'[v] # <<>> =>
                                          pc[v] = "sleep" /\ queue[v] # <<>>
           Signals == \A u \in Threads : pc[u] = "signal" =>
                          pc'[u] = "signal" /\ start'[u] = start[u] /\ at'[u] = at[u]
<1>1. PoolTypes' /\ Held /\ Asleep /\ Signals => WakeupInv'
  BY QuietStep
<1>2. Main \in Clients /\ Main \in Threads
  BY PoolAssumption DEF Threads
<1>3. ASSUME NEW c \in Clients, IssueJob(c)
      PROVE  WakeupInv'
  <2>1. c \in Threads /\ issued' \in [Clients -> Nat]
    BY <1>3 DEF IssueJob, Threads
  <2>2. <<c, issued[c] + 1>> \in Tasks
    <3>1. issued[c] \in Nat /\ Jobs[c] \in Nat /\ issued[c] < Jobs[c]
      BY <1>3, PoolAssumption DEF IssueJob
    <3>2. issued[c] + 1 \in 1 .. Jobs[c]
      BY <3>1
    <3> QED
      BY <3>2 DEF Tasks
  <2>3. CASE StartPush(c, <<c, issued[c] + 1>>) /\ UNCHANGED <<counter, sem, runs>>
    <3>1. <<c, issued[c] + 1>> \in Items /\ pc[c] # "signal" /\ queue' = queue
      BY <1>3, <2>2 DEF IssueJob, Items
    <3> QED
      BY <1>3, <2>1, <2>3, <3>1, StartPushTypes DEF IssueJob
  <2>4. CASE /\ runs' = [runs EXCEPT ![<<c, issued[c] + 1>>] = @ + 1]
             /\ Completed(c)
             /\ UNCHANGED <<index, pc, start, at, item>>
    <3>1. runs' \in [Tasks -> Nat]
      BY <2>2, <2>4
    <3>2. counter' \in [Clients -> Int] /\ sem' \in [Clients -> Nat]
      BY <1>3, <2>4 DEF Completed
    <3>3. UNCHANGED <<queue, mutex, alive>>
      BY <1>3 DEF IssueJob
    <3> QED
      BY <1>1, <2>1, <2>4, <3>1, <3>2, <3>3
  <2> QED
    BY <1>3, <2>3, <2>4 DEF IssueJob
<1>4. ASSUME NEW c \in Clients, Join(c)
      PROVE  WakeupInv'
  <2>1. c \in Threads
    BY DEF Threads
  <2>2. pc' \in [Threads -> Labels]
    BY <1>4, <2>1 DEF Join, Labels
  <2>3. sem' \in [Clients -> Nat]
    BY <1>4 DEF Join
  <2>4. Held /\ Asleep /\ Signals
    BY <1>4, <2>1 DEF Join, Threads
  <2> QED
    BY <1>1, <1>4, <2>2, <2>3, <2>4 DEF Join
<1>5. ASSUME NEW c \in Clients, Push(c)
      PROVE  WakeupInv'
  <2>1. WakeupInv'
    BY <1>5, PushKeepsInv DEF Threads
  <2> QED
    BY <2>1
<1>6. CASE Abort
  <2>1. Poison \in Items /\ pc[Main] # "signal" /\ queue' = queue /\ StartPush(Main, Poison)
    BY <1>2, <1>6 DEF Abort, Items
  <2> QED
    BY <1>2, <1>6, <2>1, StartPushTypes DEF Abort
<1>7. CASE JoinWorkers
  <2>1. pc' \in [Threads -> Labels]
    BY <1>2, <1>7 DEF JoinWorkers, Labels
  <2>2. Held /\ Asleep /\ Signals
    BY <1>2, <1>7 DEF JoinWorkers, Threads
  <2> QED
    BY <1>1, <1>7, <2>1, <2>2 DEF JoinWorkers
<1> QED
  BY <1>3, <1>4, <1>5, <1>6, <1>7 DEF Use

\* Types, items in hand and wakeups stay right, for any N, Clients and Jobs.
THEOREM PoolInvariant == PoolSpec => []WakeupInv
<1>1. PoolInit => WakeupInv
  <2> SUFFICES ASSUME PoolInit
               PROVE  WakeupInv
    OBVIOUS
  <2>1. 0 \in 0 .. N - 1 /\ \A w \in Workers : w \in Nat
    BY PoolAssumption DEF Workers
  <2>2. queue \in [Workers -> Seq(Items)] /\ mutex \in [Workers -> Threads \cup {None}]
    BY DEF PoolInit
  <2>3. pc \in [Threads -> Labels] /\ \A t \in Threads : pc[t] \in {"scan", "issue"}
    BY DEF PoolInit, Labels
  <2>4. index \in 0 .. N - 1 /\ start \in [Threads -> 0 .. N - 1] /\ at \in [Threads -> Nat]
    BY <2>1 DEF PoolInit
  <2>5. item \in [Threads -> Items \cup {None}] /\ issued \in [Clients -> Nat]
    BY DEF PoolInit
  <2>6. counter \in [Clients -> Int] /\ sem \in [Clients -> Nat]
    BY PoolAssumption DEF PoolInit
  <2>7. runs \in [Tasks -> Nat] /\ alive \in BOOLEAN
    BY DEF PoolInit
  <2>8. NoLostWakeup
    BY <2>3 DEF NoLostWakeup, Threads
  <2> QED
    BY <2>2, <2>3, <2>4, <2>5, <2>6, <2>7, <2>8 DEF WakeupInv, PoolTypes
<1>2. WakeupInv /\ [PoolNext]_poolVars => WakeupInv'
  <2> SUFFICES ASSUME WakeupInv, [PoolNext]_poolVars
               PROVE  WakeupInv'
    OBVIOUS
  <2>1. CASE UNCHANGED poolVars
    BY <2>1 DEF poolVars, WakeupInv, PoolTypes, NoLostWakeup, Target
  <2>2. CASE PoolNext
    BY <2>2, WorkKeepsInv, ClientsKeepInv DEF PoolNext
  <2> QED
    BY <2>1, <2>2
<1> QED
  BY <1>1, <1>2, PTL DEF PoolSpec

\* push_not_q, pop_not_q: a worker that sleeps while its queue is not empty is
\* about to be woken.
THEOREM PoolLosesNoWakeup == PoolSpec => []NoLostWakeup
<1>1. WakeupInv => NoLostWakeup
  BY DEF WakeupInv
<1> QED
  BY <1>1, PoolInvariant, PTL
=============================================================================
