# Verification of the OAI 5G stack

This directory holds TLA+ models of parts of the repository, TLC runs that
check them on small instances, and TLAPS proofs that hold for all instances.

The repository contains the OpenAirInterface RAN twice (`src/openairinterface5g`,
the newer, and `src/oai`), the FlexRIC near-RT RIC (`src/flexric`) and
deployment files of the core network (`src/oai-cn5g`). **The models follow
`src/openairinterface5g`.** Three parts are modelled:

* the acknowledged mode of NR RLC (`openair2/LAYER2/nr_rlc`), which turns a MAC
  that loses, repeats and reorders PDUs into a bearer that does not;
* the PDCP entity above it (`openair2/LAYER2/nr_pdcp`), which puts back in order
  what RLC hands up out of order;
* the thread pool of the PHY (`common/utils/threadPool`), which runs the jobs of
  each slot on a set of workers.

## 1. Inventory

| part | state it keeps | operations | what is hard | what makes it correct |
|---|---|---|---|---|
| **RLC AM, receiver** `nr_rlc_entity_am.c` | `rx_list` of segments sorted by (sn, so); `rx_next`, `rx_next_highest`, `rx_highest_status`, `rx_next_status_trigger`; `rx_size`; `t_reassembly`, `t_status_prohibit`; `status_triggered` | `recv_pdu`, timers in `set_time`, `generate_status` | reordering, duplicates, overlapping segments, SN wrap, full buffer | window order; a hole is always timed or reported; each SDU is delivered once and whole; a report tells the truth |
| **RLC AM, sender** `nr_rlc_entity_am.c`, `nr_rlc_sdu.c` | `tx_list`, `wait_list`, `retransmit_list` with end pointers; `ref_count`/`free_count` of SDUs; `tx_next`, `tx_next_ack`, `poll_sn`; `pdu_without_poll`, `byte_without_poll`, `force_poll`; `tx_size`, `bstatus`; `t_poll_retransmit` | `recv_sdu`, `generate_pdu`, control PDU reception, poll timer, discard, re-establishment | stale reports, segmentation of retransmissions, poll and report lost, incremental counters | no byte is forgotten; counters agree with the lists; an SDU is settled in the end |
| **RLC UM / TM** `nr_rlc_entity_um.c`, `_tm.c` | reception buffer, window, `t_reassembly`; a queue | as above without ARQ | the same window arithmetic | each SDU at most once, holes time out |
| **RLC manager** `nr_rlc_oai_api.c`, `nr_rlc_ue_manager.c` | UE table, `lcid2rb`, one mutex | add/release/reconfigure a bearer; data calls from MAC and PDCP | calls from several threads, release against late data | no call reaches a freed entity |
| **PDCP entity** `nr_pdcp_entity.c`, `nr_pdcp_sdu.c` | `tx_next`, `rx_next`, `rx_deliv`, `rx_reord`, `rx_list`, `t_reordering_start`, `entity_suspended`, keys | `recv_pdu`, `recv_sdu`, `set_time`, suspend, re-establish, release | HFN reconstruction, reordering, suspend in the middle | in-order delivery, no COUNT twice, a held SDU is always timed |
| **PDCP manager, threads** | UE table, RLC request queue, SDU queues, timer thread | enqueue, dequeue | cross-thread queues | nothing is lost or reordered between PDCP and RLC |
| **SDAP** | QFI mapping | header add/remove | - | stateless |
| **F1AP ids** `f1ap_ids.c` | two hash tables | add, exists, get, remove | exists and get are separate calls | no read of a removed mapping |
| **RRC of gNB** | UE contexts, transactions, bearers | message handlers of the RRC task | procedures crossing each other | identifiers stay unique, no procedure is left open |
| **NR MAC of gNB** | UE list, HARQ process lists, RA processes, `sched_ctrl` | per-slot scheduler, UL/DL indications, F1 handlers | indications of PHY against the scheduler | a HARQ process is in one list; an RA process ends |
| **Thread pool** `common/utils/threadPool` | a queue, mutex and condition per worker; `index`; counter and semaphore of each `task_ans_t` | `pushTpool`, `worker_thread`, `completed_task_ans`, `join_task_ans`, `abortTpool` | trylocks that fail, work stealing, signals after the unlock, shutdown, memory order | a task runs once; no wakeup is lost; a join returns when all has run; shutdown ends |
| **Notified FIFO, actor, barrier** `common/utils` | queue, mutex and condition per actor | push, pull, abort, flush | abort against flush | no element is dropped while someone waits for it |
| **ITTI, time manager** | message queues, timers, client list | send, receive, timers | the same | no message is lost |
| **FlexRIC xApp, RIC, agent** | pending events, subscriptions, `sync_ui` flags | E42 requests, event loop, timers | answer before the wait, timer against answer | every request ends once |
| **PHY, radio, nFAPI, codecs, LTE, executables** | - | - | - | not a target |

PDCP and RLC meet twice: PDCP relies on RLC for the bound on what is in flight
(the AM transmission window), and on nothing else; the PDCP model takes RLC as a
set of PDUs that arrive in any order, may be lost on a DRB and may arrive twice,
which is weaker than what `RlcAmService` promises (each SDU at most once, in any order). The thread
pool shares no state with the protocol layers.

Interactions on the data path: PDCP hands an SDU to RLC through
`nr_rlc_data_req`; MAC asks RLC for bytes with `nr_mac_rlc_data_req` when it
schedules a bearer, reads `bstatus` to know whether to, and hands what it
received to `nr_mac_rlc_data_ind`; RLC calls back `deliver_sdu`,
`sdu_successful_delivery` and `max_retx_reached`. Each of the calls takes the
lock of the RLC manager, runs `set_time` of the entity (the expired timers),
then the operation. An entity is therefore atomic per call, and what interleaves
are the calls: that is the granularity of the actions here.

`PROJECT.json` lists every component with its status, and the hazards with
the line at which they bite and the properties that watch them.

## 2. Modules

    RlcSn              arithmetic of sequence numbers          RlcLemmas_proofs
      RlcAmRx          receiving entity                        RlcAmRx_proofs
        RlcAmStatus    content of a status report              RlcAmStatus_proofs
        RlcAmRxWalks   the tests over rx_list, step by step    RlcAmStatus_proofs
          RlcAmWalks   making the report, step by step         RlcAmStatus_proofs, MCRlcAmRx
      RlcAmTx          sending entity
    RlcAmPdu           PDU sizes, NACK blocks, overlap of a NACK and a segment
    RlcLists           a finite set in order, a sublist (both used by RlcAmStatus, RlcAmTx)
    RlcAmLink          RlcAmTx + RlcAmStatus joined by MAC     RlcAmLink_proofs
      RlcAmControlWalk process_control_pdu, step by step       MCRlcAmLink
    RlcAmService       what the bearer promises; RlcAmLink implements it

    PdcpCount          COUNT from SN and HFN
      PdcpRx           receiving entity                        PdcpRx_proofs
        PdcpLink       both ends over an RLC that reorders     PdcpLink_proofs, MCPdcpLink
    PdcpService        in-order, at-most-once; PdcpLink implements it

    ThreadPool         workers, clients, batches, shutdown     ThreadPool_proofs, MCThreadPool
                                                               ThreadPoolJoin_proofs
      ThreadPoolMemory happens-before between jobs and join    MCThreadPoolJoin

### How state and actions correspond to the code

*Receiver* (`RlcAmRx`). `rx_list` is a **set** of records `[sn, so, size, last,
data, sdu]`: the list is sorted by (sn, so), so the set determines it;
`RlcAmRxWalks!RxList` gives the list back. `data = FALSE` is an entry whose bytes were
delivered and freed (`reassemble_and_deliver`) while it still blocks the
window. The field `sdu` is the content of the PDU. `RecvDataPdu(pdu)` is
`nr_rlc_entity_am_recv_pdu` for a data PDU with `reception_actions` in it:
discards (buffer full, outside the window, already received), storing, the
advance of `rx_highest_status` and `rx_next` over delivered SDUs
(`FirstNotDelivered`, `CompleteSdu`), the stop and start of `t_reassembly`
(`UpdateReassemblyTimer`), the trigger of a report by a poll or a discarded PDU. `ReassemblyExpires` is
`check_t_reassembly`; `GenerateStatus` and `ProhibitElapses` are the status
side; `RxReestablish` is `clear_entity`. Timers are Booleans: an expiry is an
action that may happen whenever the timer runs.

*Reports* (`RlcAmStatus`, `RlcAmPdu`, `RlcAmRxWalks`, `RlcAmWalks`). `StatusReport(size)` is what
`generate_status` writes into a buffer of `size` bytes: the maximal missing
intervals below `rx_highest_status`, cut into blocks of at most `NackRange`
(255) SNs, as many as fit; a report that was cut gets `so_end` of its last
block forced to "to the end"; ACK_SN follows the last NACK, or is `rx_next`
without one. `RlcAmWalks` is the code's own way to it: `next_missing` with its
labels, `generate_missing`, `generate_status`: `NextPdu` is label `next_pdu` with its jumps back
(`SeenBehind` is what one more entry adds to `max_so` and `last_reached`, `Continues` the two
conditions of the jump, `Discontinuity` what follows when neither holds), `PutNack` is
a turn of the loop of `generate_missing`, `PutMissing` one of `generate_status`. `RlcAmRxWalks` has the tests of the
receiver as the code makes them in one pass over the sorted list: `segment_already_received`,
`sdu_delivered`, `sdu_full`, `sdu_has_missing_bytes`. A loop is a function of
the number of its steps, whose value is what the local variables are.

*Sender* (`RlcAmTx`). The three lists are sequences of segments, with `tx_end`
and `wait_end` kept as separate variables because the code appends through
them. `sdu` holds the control block of each SDU in the entity: `ref_count`,
`free_count`, `retx_count`. `bstatus` is what MAC reads. `GeneratePdu(size)` is `generate_pdu`
without its status branch (an entity sends reports for the other direction;
`MacPullsReport` is that branch at the receiver): `GenerateRetxPdu` first,
`GenerateTxPdu` when the retransmit list is empty, both with segmentation to `size`,
`include_poll` and the timer. `ReceiveReport` is `process_control_pdu`: its
validity checks, then the effect on both lists as sets of freed, moved and
remaining segments, the retransmission counters, the stop of the poll timer
and `tx_next_ack`. `RlcAmControlWalk` is the same function as the code
performs it, label by label over the three lists, and `ControlWalkAgrees`
compares the two. `PollRetransmitExpires`, `DiscardSdu`, `TxReestablish` are
the functions of these names. `crashed` records the dereference of an empty
`wait_list` in `check_t_poll_retransmit` (finding 2); `rlf` that
`max_retx_reached` was called.

*Link* (`RlcAmLink`). Each action is one call from outside, at one end:
`UpperLayerSends` (`nr_rlc_data_req`), `MacPullsData`/`MacPullsReport`
(`nr_mac_rlc_data_req`), `DataArrives`/`ReportArrives` (`nr_mac_rlc_data_ind`),
the timers, `Reestablish`. MAC is external: the PDUs and reports in flight
are sets, from which any element may arrive, be lost, or (with
`MayDuplicate`) arrive and stay.

*PDCP* (`PdcpCount`, `PdcpRx`, `PdcpLink`). `rx_list` is the set of the COUNTs
held: `nr_pdcp_sdu_in_list_add` keeps the list sorted and never adds a COUNT
twice. `RecvPdu(sn, intact)` is `nr_pdcp_entity_recv_pdu`, from the guess of the
HFN (`RcvdHfn`) through the discards to the end, where t-Reordering is stopped
and perhaps started again (`UpdateTReordering`); `intact` stands for the header
and integrity checks. `TReorderingExpires` is `check_t_reordering`, `RxSuspend`,
`ReestablishDrbUm`, `ReestablishSrb`, `ReestablishDrbAm` and `Release` are the
functions that deliver or drop what is held and reset the COUNTs, `Reconfigure` the
change of the timer's value in `nr_pdcp_reconfigure_srb` and `_drb`. An infinite
timer runs but never expires. What goes to `deliver_sdu` in one step is the
output `up`, a set: every one of these functions takes it from the head of the sorted list.
In the link, `ProcessSdu` is `nr_pdcp_entity_process_sdu`; ciphering is reduced
to its effect: with integrity, a PDU is accepted if both ends used the same
COUNT. SDUs are numbered in the order they are handed in, `base + COUNT + 1`.

*Thread pool* (`ThreadPool`, `ThreadPoolMemory`). `pc` is where each thread is;
a critical section is two steps, one that takes the mutex and one that works and releases
it, so that the trylock of another thread fails in between. `TryPush`,
`PushAnyway`, `Store`, `Signal` are the loop of `pushTpool` with
`try_push_not_q` and `push_not_q`; `Scan`, `Peek`, `Lock`, `Check` are
`try_pop_not_q` and `pop_not_q`; `at` is the loop variable. A client issues the jobs of its
batch (`IssueJob`; the functions of the PHY push most of them and may run some
inline), then waits in `Join`. `RunTask` is a job with the `completed_task_ans`
at its end (`Completed`). `MeetPoison` and `Abort` are the shutdown; `alive` becomes false
when the assertion of `push_not_q` fails. `Signal` wakes the one thread that can wait on a
queue's condition, its worker; `WakeUpByChance` is a spurious wakeup.
`ThreadPoolMemory` adds, to the same steps, what each thread is certain to see:
the happens-before order through the mutexes, `tpool->index`, the semaphore,
and not through the relaxed counter.

## 3. Runs

| run | configuration | question | distinct states |
|---|---|---|---|
| `rx` | receiver alone, window 3 of 6 SNs, SDUs of 3 and 1 bytes cut in every way, report buffers of 2, 3, 10 and 30 bytes | does the receiver keep its window, timer and byte count right whatever arrives, do the list walks compute what they should, is a report exact? | 60,420 |
| `wrap` | whole link, window 2 of 4 SNs, five SDUs of one byte, two data PDUs and two reports in flight, `poll_pdu` 2, buffer for three SDUs | does the link implement the service across a wrap, with stale reports and a full send buffer? is `tx_next_ack` the smallest SN not acknowledged when SDUs are sent whole? | 347,614 |
| `seg` | a one-byte and a three-byte SDU, grants of 3 and 5 bytes | does segmentation, partial NACK, and segmentation of the retransmission lose or garble a byte? does the step-by-step merge agree? | 170,958 |
| `env` | duplication, discard, re-establishment, small buffers at both ends, `poll_byte` 2 | the same with the rest of the environment | 154,440 |
| `live` | fair link | is every SDU settled? | 55,825 |
| `pdcp` | window 4 (SNs 0..7), two HFNs, four SDUs, from COUNT 0 or with six SDUs carried already, so that the SN wraps | is the COUNT right, is what is held timed, does the bearer deliver in order and at most once through loss, repetition, suspension and re-establishment, does nothing stay held? | 56,200 |
| `pool` | two workers, `main` with two jobs and `tx` with one, shutdown by `main` | is a task in one place whatever trylocks fail, is no wakeup lost, do joins return, and only when all has run? does a shutdown hang in no other way than that of `pool_abort`? | 393,667 |
| `poll_lost`, `empty_wait_list`, `next_ack` | as `live` | three statements of comments of the RLC code that it does not meet (section 6) | violation |
| `pool_abort` | two workers, one client, one job | does `abortTpool` return? | violation |
| `pool_join` | two workers, one client, two jobs | does the client see what its jobs have written? | violation |

Why these properties:

* `HoleIsTimedOrReported`: if anything below `rx_next_highest` is missing,
  either `t_reassembly` runs or the hole is below `rx_highest_status`, where reports
  name it. Timer start and stop are spread over two functions with four conditions.
* `RxTriggerNotOvertaken`, `RxEdgesNotDelivered`, `WindowMovesForward`: the
  edges never designate a delivered SDU, and never move back, also when
  `check_t_reassembly` restarts from a trigger stored long before.
* `RxSizeInv`: `rx_size` counts exactly the bytes still held.
* `StatusWalkAgrees`, `ReceiverWalksAgree`, `ControlWalkAgrees`: the pointer code
  computes what the set definitions of the other modules say.
* `ReportIsExact`, `ReportsAreHonest`: a report names every missing byte below ACK_SN
  whatever the buffer; and when it *arrives*, perhaps much later, the
  sender frees nothing on it that the receiver does not have.
* `NoByteLost`: every byte of an accepted SDU is in a list of the sender or at
  the receiver.
* `TxAccountsInv`, `ListsWellFormed`: counters and end pointers against the lists.
* `NothingGarbled`, `ImplementsService`: what `deliver_sdu` gets is an SDU, whole, at most once;
  a confirmed SDU was delivered; nothing dropped comes back.
* `EverySduIsSettled`: every SDU leaves the sender, or a radio link failure is
  reported, or one of findings 1 and 2 applies.
* `CountsAgree`: the COUNT reconstructed from SN and `rx_deliv` is the sender's,
  for every PDU in flight: after expiries of t-Reordering have made `rx_deliv` jump, across a
  wrap of the SN, and at HFN 0, where the subtraction wraps.
* `HeldIsTimed`: an SDU in `rx_list` has t-Reordering running for a COUNT
  between `rx_deliv` and `rx_next`. Start and stop are spread over `recv_pdu`,
  `check_t_reordering` and three functions that reset the COUNTs and empty the list
  only if the timer runs: it is this property that makes "only if" right.
* `ImplementsPdcpService`: the two entities implement `PdcpService`. The refinement
  mapping is the identity on `offered` and `handed`.
* `HeldSduIsHandedUp`: no SDU stays in the list for ever, unless one before it was
  lost and the timer is infinite.
* `NoLostWakeup`: a worker asleep on a queue that is not empty has a signal on
  its way. The signal is sent after the unlock, to one queue only.
* `EveryItemIsInOnePlace`: a job is in one queue, or in the hands of one thread,
  or has run; the poison pill is neither lost nor multiplied.
* `JoinedAfterAllRan`, `EveryJoinReturns`: a join returns in the end, and not before
  every job of the batch has run.
* `AbortReturnsUnlessStranded`: finding 4 is the only way for a shutdown to hang. The one
  poison pill is passed from worker to worker through queues all may steal from; it
  is never swallowed, overlooked or passed round for ever, it is only left in the queue of
  a worker that has gone. The assertion of `push_not_q`, which refuses the poison
  because its function is NULL, may end the process before (section 6).

The type invariants (`RxTypeOK`, `LinkTypeOK`, `PdcpTypeOK`, `PoolTypeOK`)
include the bounds of counters and loops.

### Bounds, and why they are enough

* `WindowSize`, `SnModulus` (2 of 4, 3 of 6; the code has 2^11 of 2^12 and 2^17 of 2^18).
  `WindowSize = SnModulus / 2` is kept, and the run sends more SDUs than
  there are SNs, so every comparison meets the wrap. The theorems of the receiver and
  of the link remove this bound.
* *Life of a PDU in flight.* A data PDU or a report is gone once `WindowSize` new
  SDUs were numbered after it was built. HARQ gives up after a few tens of
  milliseconds, in which no bearer sends 2,048 SDUs; with 2 or 3 SNs the window
  passes at once. Without the bound an old PDU would meet its SN again, which no
  RLC could tell apart.
* `HarqProcesses`, `ReportProcesses`: data PDUs and reports in flight. Two of
  each give every reordering of neighbours and a report overtaken by another.
* `MaxRetx`: retransmissions before the radio link failure. `UpToRlf`, the state constraint of
  `seg` and `env`, does not look further than the failure, after
  which the bearer is released by RRC. `RetxCap` stops the counter from growing
  past the threshold.
* `Grants`, `StatusGrants`: buffer sizes MAC offers, chosen to be too small,
  just large enough for a segment, and large enough for all.
* `TxMaxSize`, `RxMaxSize`: small where the run is about the full buffer.
* `pdcp`: `WindowSize = 4` is the least with which two holes and a held SDU
  after each can exist at once. `MaxSdus` and `Carried` (the SDUs carried before
  the run starts) let the SN wrap without a long prefix; `HfnModulus = 2` has the
  HFN on both sides of 0. The theorems hold for every window and HFN space.
* `pool`: two workers are the least with which one can steal, and two clients
  the least with which pushes collide; the three jobs fill a queue while its worker
  is at the other. The theorems hold for any number of each.
* `CHECK_DEADLOCK FALSE` in the runs of the pool: it stops after the shutdown, or
  when the assertion has failed, or as finding 4 says. In the runs of the links: once all SDUs were offered and
  settled, or after a crash, nothing is left to do. The receiver alone never
  stops and is checked for deadlock.

### Fairness

`Fairness` in `RlcAmLink`: MAC keeps asking both entities for PDUs (the
scheduler reads `bstatus` in every slot), timers are looked at in every call,
and a PDU that is sent for ever gets through for ever (strong fairness on
arrival). Nothing obliges the upper layer to send, PDUs to be lost or
reordered, or the entity to be re-established. `DataIsPulled`, `ReportIsPulled`
(weak fairness), `DataGetsThrough` and `ReportsGetThrough` (strong fairness) have
the condition that enables the action written out: `ENABLED` of an action as large
as `ProcessReport` takes TLC longer than all the rest of the run.

`LinkFairness` in `PdcpLink`: `nr_pdcp_ms_tick` is called every millisecond and
calls `check_t_reordering` (weak fairness of the timer; an infinite timer never
expires), and a PDU that RLC neither loses nor repeats arrives (weak fairness of
each arrival). Nothing obliges the upper layer to send or RRC to act.

`FairPoolSpec` in `ThreadPool`: the scheduler runs every thread that can run (weak
fairness), and a thread blocked in `pthread_mutex_lock` gets a mutex that is free again
and again (strong fairness of a client's `PushAnyway`: a worker that wakes up by chance
for ever takes the same mutex again and again; the other locks need weak fairness only).
A trylock may fail every time. Nobody is obliged to abort the pool, and no spurious wakeup is relied on.

## 4. Proofs

`RlcLemmas_proofs` proves the facts the RLC proofs share: modular arithmetic
(successor, wrap, offset from a moving base) for every modulus, minima of sets
of numbers, finite sets listed in order (`InOrder`, `Entries`), distances between
SNs (`SnDistance`), loops (`LoopValues`, `ModStep`), and sums of a
function over a finite set (`SumSplit`). The provers have no induction over
sets; these lemmas use the least counterexample instead: of the subsets for
which a sum is wrong, one has no wrong proper subset (by the finiteness theorems of
the library), and taking one element out of it gives the contradiction.

### The receiver and its reports

`RlcAmRx_proofs` proves, for every window size, every set of PDUs and every
buffer size, under the assumptions `RlcSn` and `RlcAmRx` name (the modulus is
twice the window, as in `new_nr_rlc_entity_am`, and a PDU has an SN):

| theorem | statement |
|---|---|
| `RxTypeCorrect` | `RxSpec => []RxTypeOK` |
| `RxWindowIsOrdered` | `RxSpec => []RxWindowOrdered` |
| `RxEdgesAreNotDelivered` | `RxSpec => []RxEdgesNotDelivered` |
| `RxTriggerIsNotOvertaken` | `RxSpec => []RxTriggerNotOvertaken` |
| `RxHoleIsTimedOrReported` | `RxSpec => []HoleIsTimedOrReported` |
| `RxWindowMovesForward` | `RxSpec => WindowMovesForward` |
| `RxHeldInvariant` | `RxSpec /\ []SegmentsAgree => []HeldInv` |
| `RxSizeIsBytesHeld` | `RxSpec /\ []SegmentsAgree => []RxSizeInv` |
| `RxListIsFinite`, `RxReportIsExact` (`RlcAmStatus_proofs`) | `RxSpec => []ListFinite`, `RxSpec => []ReportIsExact` |
| `RxWalksAgree` (`RlcAmStatus_proofs`) | `RxSpec => []ReceiverWalksAgree` |
| `RxStatusWalkAgrees` (`RlcAmStatus_proofs`) | `RxSpec /\ []SegmentsAgree => []StatusWalkAgrees` |

The first six rows rest on one inductive invariant, `RxInv`. None of the properties is
inductive alone: that the order of the window survives a delivery needs that
`rx_next` is not delivered (else the search for the first undelivered SN might pass
`rx_next_highest`), that in turn needs that entries lie in the window and
below `rx_next_highest`, and the hole needs the trigger not to be
overtaken but over delivered SDUs. The proof has a step per action and lemmas
about the search `FirstNotDelivered`: it stops within the window because
`rx_next_highest` is never delivered, and everything it passed was.

`RxHeldInvariant` and `RxSizeIsBytesHeld` have a hypothesis on the input, and the code needs it: the
entity never tests that two segments of an SDU agree on where it ends. If a segment
beyond the end of an SDU that was delivered arrives, it is stored and counted, and its
bytes are never taken off `rx_size`. `HeldInv`, the invariant, says besides the sum that a
delivered SDU is listed as a whole, so that nothing of it can be added.
`LinkSizeIsBytesHeld` discharges the hypothesis for the sender of this code.

`RxReportIsExact` follows the report through its making: the missing
intervals are a finite set, they are listed in order, consecutive ones are joined
into blocks of at most `NackRange` SNs, a prefix of the blocks fits. For each
stage the proof says which bytes it names: exactly those missing
below the next stage's limit. The cut report names more than is missing (`so_end`
forced to the end), and the theorem says so: nothing missing below ACK_SN is left out, and
an uncut report names nothing that was received.

`RxWalksAgree` says of the four tests over `rx_list` that one pass over the sorted list answers what the sets of
bytes say, for lists of any length whose entries overlap in any way. It needs two
facts about the list (`WalksInv`). `EntriesDistinct`: no two entries are the same piece of an
SDU, so that the order of the list is total; a PDU that repeats an entry is discarded as
already received. `DeliveredFirst`: if an SDU was delivered, then
the shortest of its entries that start at byte 0, the first the walk meets, says so. The
code looks at the first entry only; that a segment which arrives after the delivery cannot take its
place is because it would be received already. The theorem has no hypothesis on the segments:
that they agree on the end of the SDU is not needed. Each walk is proved by the invariant of its
loop, with `LoopValues` (`RlcLemmas_proofs`): a function defined by a first value and a step
keeps what the step keeps.

`RxStatusWalkAgrees` is about the three functions that make the report, `next_missing`, which its author calls
too messy and wants to rewrite, `generate_missing` and `generate_status`: for every window, list, overlap
of segments and buffer they write `StatusReport`, of which `RxReportIsExact` says that it is exact.
The proof goes up through the calls. Where the walk of `next_pdu` stands
(`HasSeen`), `max_so + 1` is the first byte of the SDU not received so far, and
no gap was passed; so where it stops, the next byte is *open* (`IsOpen`), and the first
missing byte from there on is where the next interval starts (`StopIsOpen`, `NextMissingIs`).
`IntervalFound` says that an interval that ends at an entry is a gap, or one
gap in each of the SDUs it runs over, and that the gaps behind it are those which the call for
`m.next` finds. The intervals therefore lie one after the other in the sorted list of
gaps that `StatusReport` cuts into blocks (`IntervalLiesNext`); `MissingBlocks` and `PutBlocks` are the
invariants of the two loops: blocks put so far, bytes used, where the list of gaps is,
and that no block of one interval joins the gaps of another. The loop of `generate_status` ends because
every call of `next_missing` but the first returns an entry further on.

It has the hypothesis `SegmentsAgree` too, and the code needs it: `next_missing` takes an SDU for complete once a
segment said `is_last`, and an SDU that was delivered for whole. With a segment beyond that end, or a second, longer
end, bytes would be missing that the walk never names. In the link nothing has to be
assumed: `LinkStatusWalkAgrees`.

### The link

`RlcAmLink_proofs` proves, for every window, any number and sizes of SDUs, any
buffers, grants and poll and retransmission thresholds (`SnAssumption`,
`TxAssumption`, `RxAssumption`, `LinkAssumption`):

| theorem | statement: `LinkSpec /\ []TxNextAckIsSmallestUnacked =>` |
|---|---|
| `LinkInvariant` | `[]LinkInv`, the inductive invariant |
| `LinkTypeCorrect` | `[]LinkTypeOK` |
| `LinkLosesNoByte` | `[]NoByteLost` |
| `LinkReportsAreHonest` | `[]ReportsAreHonest` |
| `LinkAccountsAgree` | `[]TxAccountsInv` |
| `LinkListsAreWellFormed` | `[]ListsWellFormed` |
| `LinkGarblesNothing` | `[]NothingGarbled` |
| `LinkSizeIsBytesHeld` | `[]RxSizeInv` |
| `LinkStatusWalkAgrees` | `[]StatusWalkAgrees` |
| `LinkRunsTheReceiver` | `RxSpec`: the theorems above about the receiver hold in the link |
| `LinkImplementsService` | `ImplementsService` |

and, on the hypothesis itself:

| theorem | statement |
|---|---|
| `NextAckIsSmallest` | `LinkSpec /\ [][ReportArrives => ~HalfSent]_vars => []TxNextAckIsSmallestUnacked` |
| `NextAckOfWholeSdus` | with `WholeSdus`: `LinkSpec => []TxNextAckIsSmallestUnacked` |
| `LinkIsCorrectForWholeSdus` | with `WholeSdus`: `LinkSpec` implies every property in the table above, with no other hypothesis |

**The hypothesis** is the comment of `process_control_pdu`: no SDU that has an
SN and is still held lies below `tx_next_ack`. The code does not always
keep it (finding 3), and these theorems are false without it, so it cannot be dropped;
what they say is that everything else in the sender, the reports and the receiver is right, and
that this one computation is the only way to the failures of finding 3. It is used where
SNs of segments are compared: in the merge of a report, in
`nr_rlc_tx_sdu_segment_list_add`, and for the window to be stalled when it must be.

When it holds is proved too. `NextAckIsSmallest`: it can only fail at the arrival of a report while an
SDU is half sent (`HalfSent`: the head of `tx_list` has an SN, its first part is out). Every other
step, and every report at any other time, keeps it, since
`process_control_pdu` takes the least of the heads of the two lists it looks at, and with
nothing half sent each SDU that has an SN is in one of them. This is finding 3 turned round: the
scenario of the run `next_ack` is the only kind there is. `WholeSdus` is a condition on MAC that excludes it, a
grant that fits the header and one byte fits the whole of any SDU: then no SDU is ever half sent, and the link is
correct without a hypothesis. The run `wrap` satisfies it (SDUs of one byte, grants of 3) and checks
`TxNextAckIsSmallestUnacked` there; `seg` and `env` do not.

**The invariant.** SNs are compared relative to `tx_next_ack` and `rx_next`,
which move and wrap. `LinkInv` measures an SN by its *age*, the distance below
`tx_next`, and compares ages with the numbers of the SDUs, which do not wrap.
Its parts, each a named conjunct:

* `ListInv`, `SegmentInv`: the three lists are sorted by SDU and byte, disjoint, without overlaps, and the
  end pointers are their ends; what was never sent is a whole SDU above the last one sent, or the rest
  of that one;
* `AccountInv`: the counters, as cardinalities and sums over these sets;
* `FateInv`: an SDU offered is held, confirmed or dropped, and only one of them;
* `SnInv`: everything numbered, in flight or received has an age of 1 to `WindowSize`, and ages
  are in the opposite order of SDUs. This is what makes the whole link one numbering;
* `ReceiverInv`: `rx_next` is not below `tx_next_ack`; whatever is older than `rx_next` was delivered;
  what is not is either listed as delivered or still held by the sender; `NoByteLost`, `NothingGarbled`;
* `ReportInv`: a report in flight acknowledges no byte that is not received, is not as old as a window,
  and does not NACK its own ACK_SN.

They depend on each other: a report stays honest because numbered segments only get smaller
(`SnInv`), nothing is lost at a report because it is honest, the receiver can skip
what it has forgotten because the sender has forgotten it too. One lemma per handler
(`...Keeps`) shows that it preserves all parts; `LinkStep` puts them together. A fact the proof found on
the way (`ReportAges`): with reports of this program `CutFrom` is always empty, the
shortcut at the end of the retransmit list is never taken.

The refinement maps each action to `Offer`, `Deliver`, `Confirm`, `Drop` or a stutter
(`LinkStepServes`): that a delivery is the first one and of an SDU that was not dropped comes
from `FateInv` and `SnInv`, that a confirmation follows a delivery from `NoByteLost` and `ReportInv`.

### PDCP

`PdcpRx_proofs` and `PdcpLink_proofs` prove, for every SN size, every number of
HFNs and any number of SDUs (`CountAssumption`, `LinkAssumption`):

| theorem | statement |
|---|---|
| `CountIsReconstructed` | a COUNT in `rx_deliv - WindowSize .. rx_deliv + WindowSize - 1` is reconstructed from its SN |
| `PdcpRxTypeCorrect` | `RxSpec => []PdcpTypeOK` |
| `PdcpHeldIsTimed` | `RxSpec /\ []BelowTheWrap => []HeldIsTimed` |
| `PdcpInOrderOnce` | `RxSpec /\ []BelowTheWrap => InOrderOnce` |
| `PdcpLinkBelowTheWrap` | `LinkSpec => []BelowTheWrap` |
| `PdcpLinkHeldIsTimed` | `LinkSpec => []HeldIsTimed` |
| `PdcpCountsAgree` | `LinkSpec => []CountsAgree` |
| `PdcpRefinesService` | `LinkSpec => ImplementsPdcpService` |

In `RxSpec` any PDU may arrive. `BelowTheWrap` says that none with the last COUNT
(2^32 - 1 in the code) is accepted: it is a state predicate, the hypothesis of the
theorems about the receiver alone, and not a guard of the model, whose sums of
COUNTs wrap as those of the code. Only `PdcpRxTypeCorrect` holds for any PDU. In the
link `PdcpLinkBelowTheWrap` proves the hypothesis, so that the theorems about the link
have none.

The receiver's invariant `PdcpRxInv` adds to `HeldIsTimed` that t-Reordering runs
for every gap, also one with no SDU held (`rx_deliv < rx_next`), without which a
later arrival would be held untimed, and that what was delivered is behind
`rx_deliv`. `PdcpLinkInv` ties the two ends together: the COUNTs in flight lie
within one window below `tx_next`, `rx_next` does not pass `tx_next`, and
`tx_next` is at most a window above `rx_deliv`; this is what puts every
COUNT in flight into the range of `CountIsReconstructed`. It depends on `CountsAgree`
and `CountsAgree` on it: they are proved by one induction. The refinement proof
maps the initial state to the service's, and each step to `Offer`, to a
`HandUp` of the batch delivered, or to a stutter.

### Thread pool

`ThreadPool_proofs` and `ThreadPoolJoin_proofs` prove, for any number of workers,
clients and jobs (`PoolAssumption`):

| theorem | statement |
|---|---|
| `PoolTypeCorrect` | `PoolSpec => []PoolTypeOK` |
| `PoolLosesNoWakeup` | `PoolSpec => []NoLostWakeup` |
| `PoolEveryItemIsInOnePlace` | `PoolSpec => []EveryItemIsInOnePlace` |
| `PoolJoinedAfterAllRan` | `PoolSpec => []JoinedAfterAllRan` |
| `PoolHangsOnlyStranded` | `PoolSpec => []HangsOnlyStranded` |

`WakeupInv` (types, a task in hand while a thread pushes, stores or runs, and
`NoLostWakeup`) is inductive: a store comes with a signal to follow, a worker
goes to sleep only with the mutex of its empty queue. `JoinInv` has three parts: every
job is in one place at most and there only between its issue and its run
(`OnePlaceInv`, statements about pairs of places, from which
`PoolEveryItemIsInOnePlace` derives the count); the counter is the number of jobs that have not run,
and the semaphore is posted or the client gone only when there are none (`BatchInv`);
poison is about, or the process has ended, only when every job has run
(`ShutdownInv`). Each needs the others: a job could be counted twice if it were
in two places, and a post could come twice if the counter were wrong. `LoopInv`
bounds the loops.

`HangsOnlyStranded` is the part of `AbortReturnsUnlessStranded` that needs no fairness: when
the main thread waits in `pthread_join` and no worker is awake, all have left or
the poison lies in the queue of one that has. Once Main joins, every client has joined
(`OthersHaveJoined`), so that nobody but a worker can hold the poison; a sleeping
or departed worker holds nothing, so it is in a queue
(`OnePlaceInv`), and not in that of a sleeper, who would have a signal on its way
(`NoLostWakeup`).

### Only model-checked

* `ControlWalkAgrees`: `process_control_pdu` step by step over its three lists is written with recursive
  operators, which the prover cannot reason about. The theorems are about the set definition
  that the runs compare with it.
* All liveness: `EverySduIsSettled`, `HeldSduIsHandedUp`, `EveryJoinReturns`, `AbortReturnsUnlessStranded`.
* The link without `TxNextAckIsSmallestUnacked`: the runs `wrap`, `seg` and `env` check the same properties
  without it, for their SDUs.

## 5. What is not modelled, and why

* **Time.** Timers may expire at any moment while they run; `t_current`, and its use of 0 for
  "stopped", are not there. A timer started at time 0 does not run in the code, in
  RLC and in PDCP; the models take time to have advanced when the first PDU comes.
* **Reports of another make.** The reports in the link are those this receiver
  builds. A NACK of ACK_SN itself, which `process_control_pdu` allows for, does
  not occur; `CutFrom`, the shortcut over the retransmit list that would then
  lose segments, is in the model and is never reached. NACKs out of order
  (`prev_nack_sn` is not maintained in the second loop) do not occur either.
* **Reconfiguration** of a living entity (`nr_rlc_entity_am_reconfigure_*`) and the RLC manager.
* **PDU coding.** A PDU is a record; its size is what the header functions compute.
* **PDCP ciphering, statistics, `rx_size`** (which nothing reads), **SDAP headers.**
  A reconfiguration keeps `sn_size`: the code changes it without the window, and
  the network is to release the bearer for that (38.331).
* **PDCP windows.** Nothing in the code stops the sender when more than half the
  SN space is in flight; `WithinHalfTheSpace` is the assumption, which the
  transmission window of RLC AM grants and a bearer on RLC UM owes to its rate.
  A sender does not reach the last COUNT, the keys are renewed before. A receiver
  may all the same: at HFN 0 and without integrity, a PDU with the last SN, half
  the SN space or more above that of `rx_deliv`, is taken for HFN -1
  (`nr_pdcp_entity.c:118-126`), that is for the last COUNT; `rx_next` becomes 0
  (`:174`) and nothing times what is held. `RxSpec` has this step; the theorems
  about the receiver exclude it by the hypothesis `BelowTheWrap` (section 4). Both ends are
  re-established together with RLC and MAC, as RRC does.
* **PDCP suspension** has no caller in this tree, and DRBs are created with the type
  `NR_PDCP_DRB_AM` only (`nr_pdcp_oai_api.c:674`); suspension and the DRB of UM are modelled as
  their functions are written.
* **A thread pool without workers**, which runs every task inline, and the growth of the
  ring buffers (queues are unbounded sequences). Jobs neither push jobs nor
  join; a client issues the whole batch, so that `completed_many_task_ans` is called for one job
  at a time (two functions of the PHY report the jobs they did not issue in one call,
  `nrLDPC_coding_segment_encoder.c:449` and `phy_procedures_lte_eNb.c:1425`); `abortTpool` is called after the clients have ended, as `term_gNB_Tpool` does.
* **The rest of the inventory**: see the plan. The four groups that carry most
  of the remaining logic (RRC, MAC, FlexRIC, ITTI) are listed component by component in `PROJECT.json`.

## 6. Findings

1. `poll_lost`: when `t_poll_retransmit` expires the poll is only promised for
   "the next PDU". The SDU put up for retransmission is the head of
   `wait_list`, not the one whose poll was lost; if a late report acknowledges it
   first there is no next PDU, the timer is not running, and the SDU that lost
   its poll stays in `wait_list` for ever unless the upper layer sends again.
2. `empty_wait_list`: `check_t_poll_retransmit` takes the head of `wait_list`
   without a test. With the window stalled on segments in `retransmit_list` it is empty.
3. `next_ack`: `tx_next_ack` ignores the unsent rest of an SDU in `tx_list`
   and passes it. The rest is then sent with an SN below `tx_next_ack`, which
   the comparisons take for one far above; no report is taken for an acknowledgment of it, and it
   stays in `wait_list` until its SN is used again. With seven SDUs of 1, 2, 1, 1, 1, 2, 1 bytes, window 2
   of 4, one data PDU and one report in flight, grants of 3 and 5 bytes and `poll_byte` 2, TLC finds after 236,438 states that `wait_list` is out of order
   (`ListsWellFormed`): the old segment counts as one of the new SDU. The SDUs of
   the runs are too few for that; this is why the theorems of section 4 assume
   `TxNextAckIsSmallestUnacked`.
4. `pool_abort` (`thread-pool.c:90`): a worker that meets the poison pushes it
   once more, to whatever queue, its own included, and leaves. Worker 0 steals the
   pill from queue 1 while worker 1 has found nothing and is about to sleep,
   pushes it to queue 0 and exits; worker 1 sleeps for ever and
   `pthread_join` in `abortTpool` does not return.
5. `pool_join` (`task_ans.c:64`): the counter is decremented with
   `memory_order_relaxed`, so only the job that posts the semaphore happens before the
   return of `join_task_ans`. What an earlier job of the batch wrote in
   another thread need not be visible, on a weakly ordered machine such as the
   aarch64 that `task_ans.h` provides for. The same holds when the client runs the last job itself, as
   `nr_ul_channel_estimation.c:577-590` does.

Two remarks without a run. ACK_SN of a report with NACKs follows the last of them even when that
SDU was received: it costs a later confirmation, no byte (`ReportsAreHonest`). And
the poison pushed when every trylock has failed meets the assertion of
`bounded_notified_fifo.h:186` and ends the process in its shutdown.

## 7. Plan

1. **Proofs**: from the link's invariant, action properties of the sender (what is confirmed stays
   so, `tx_next_ack` does not move back); what the sender keeps without the hypothesis on `tx_next_ack`
   (types, end pointers of `tx_list`, `tx_size`); `ThreadPoolMemory` up to finding 5.
2. **FlexRIC xApp** (`XAppSync`): request, event loop, pending map, timer; the answer that comes
   before the flag is cleared.
3. **FIFO and actor**: flush against abort.
4. **RLC UM/TM**, then the **RLC manager** with release and reconfiguration, and
   the queues and threads between PDCP and RLC.
5. **F1AP identifiers and RRC contexts**, **MAC HARQ lists and RA**, **ITTI and
   time manager**.
