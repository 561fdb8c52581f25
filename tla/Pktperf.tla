------------------------------ MODULE Pktperf -------------------------------
(***************************************************************************)
(* examples/pktperf as a whole: the main thread (configuration, statistics *)
(* loop, shutdown), one thread per lcore (rx_loop, tx_loop or rxtx_loop),  *)
(* the signal handler, and the Ethernet ports with their queues, which are *)
(* external and modelled from how they are called.  The configuration and  *)
(* the lcores, ports and queues it leaves behind are PktperfConfig's.      *)
(*                                                                         *)
(* Shared state: force_quit, tx_cycles, the spin lock and flag that make   *)
(* one thread per port build the packets, the Tx mbuf pool of each port,   *)
(* and the per-queue counters, written by the lcore of the queue and read  *)
(* by the main thread.  Time is left out: a burst may be due at any turn   *)
(* of a loop.  Byte counts and burst times follow the packet counts.       *)
(***************************************************************************)
EXTENDS PktperfConfig, FiniteSets

CONSTANTS
  Qids,          \* queue ids of a port, of the MAX_QUEUES_PER_PORT
  Followed,      \* bound: the mappings, and ports started, whose threads are followed
  Mbufs,         \* the mbufs of the Tx pool of a port
  BurstCount,    \* info->burst_count
  Rates,         \* values of the -r option, percent, 0 for off
  MaxRx,         \* bound, by port: packets waiting in an Rx queue
  MaxCount       \* bound: a queue that counted this much takes no new burst

NoLcore == -1
PQ == PortSlots \X Qids

ASSUME PktperfAssumption ==
  /\ Qids \subseteq 0..15
  /\ BurstCount \in 1..512
  /\ Rates \subseteq 0..100
  /\ IsFiniteSet(Mbufs)
  /\ MaxRx \in [PortSlots -> Nat]
  /\ MaxCount \in Nat

VARIABLES
  mpc, mport, mq,    \* the main thread: where it is, port and queue printed
  lpc,               \* the thread of each lcore
  tx_rate,           \* info->tx_rate
  force_quit,        \* info->force_quit
  tx_lock,           \* owner of each port's spin lock
  tx_inited,         \* port->tx_inited
  tx_cycles,         \* port->tx_cycles is not zero
  tx_mp,             \* mbufs in the Tx pool of each port
  built,             \* mbufs whose packet was constructed
  held,              \* mbufs in the local array of each lcore
  ring,              \* mbufs in each Tx queue, owned by the port
  rxq,               \* packets waiting in each Rx queue
  rxheld,            \* packets in the local array of each lcore
  curr,              \* counters of each queue
  prev,              \* q_opackets when last printed; the others go the same way
  sent, shown,       \* packets given to each Tx queue; sum of the printed rates
  closed             \* ports stopped and closed

mainVars == <<mpc, mport, mq>>
ctlVars == <<configVars, tx_rate, force_quit>>
poolVars == <<tx_mp, built, held, ring>>
lockVars == <<tx_lock, tx_inited>>
rxVars == <<rxq, rxheld>>
statVars == <<curr, prev, sent, shown>>
vars == <<mainVars, lpc, ctlVars, lockVars, tx_cycles, poolVars, rxVars, statVars, closed>>

Counters == [q_ipackets : Nat, q_opackets : Nat, q_tx_drops : Nat, q_no_txmbufs : Nat]
Zero == [q_ipackets |-> 0, q_opackets |-> 0, q_tx_drops |-> 0, q_no_txmbufs |-> 0]

mode(l) == lports[l].mode
port(l) == lports[l].port
rxpq(l) == <<port(l), lports[l].rx_qid>>
txpq(l) == <<port(l), lports[l].tx_qid>>

Init ==
  /\ ConfigInit
  /\ mpc = "boot" /\ mport = 0 /\ mq = 0
  /\ lpc = [l \in Lcores |-> "off"]
  /\ tx_rate \in Rates
  /\ force_quit = FALSE
  /\ tx_lock = [p \in PortSlots |-> NoLcore]
  /\ tx_inited = [p \in PortSlots |-> FALSE]
  /\ tx_cycles = [p \in PortSlots |-> FALSE]
  /\ tx_mp = [p \in PortSlots |-> Mbufs]
  /\ built = [p \in PortSlots |-> {}]
  /\ held = [l \in Lcores |-> {}]
  /\ ring = [pq \in PQ |-> {}]
  /\ rxq = [pq \in PQ |-> 0]
  /\ rxheld = [l \in Lcores |-> 0]
  /\ curr = [pq \in PQ |-> Zero]
  /\ prev = [pq \in PQ |-> 0]
  /\ sent = [pq \in PQ |-> 0]
  /\ shown = [pq \in PQ |-> 0]
  /\ closed = {}

-----------------------------------------------------------------------------
(* SIGINT or SIGTERM, from the moment initialize_dpdk installed the        *)
(* handler; the handler runs in any thread between two of its steps.       *)
signal_handler ==
  /\ mpc # "exit"
  /\ force_quit' = TRUE
  /\ UNCHANGED <<configVars, mainVars, lpc, tx_rate, lockVars, tx_cycles, poolVars, rxVars,
                 statVars, closed>>

(* parse_args sets the defaults, force_quit among them. *)
ParseDefaults == force_quit' = FALSE

(* initialize_dpdk: the steps of parse_configuration. *)
initialize_dpdk ==
  /\ mpc = "boot"
  /\ ConfigNext
  /\ IF pc = "args" THEN ParseDefaults ELSE UNCHANGED force_quit
  /\ UNCHANGED <<mainVars, lpc, tx_rate, lockVars, tx_cycles, poolVars, rxVars,
                 statVars, closed>>

(* The threads run on lcores whose queues exist, of the queues a port has  *)
(* room for, and whose port has its pool; what happens to others is not    *)
(* defined.                                                                *)
Usable ==
  \A c \in Lcores : lports[c].mode # "UNKNOWN" =>
    /\ lports[c].port \in tx_pools
    /\ Rx(c) => lports[c].rx_qid \in Qids
    /\ Tx(c) => /\ lports[c].tx_qid \in Qids
                /\ lports[c].port \in started => lports[c].tx_qid \in txset[lports[c].port]

(* Its end: usage leaves the program, otherwise the threads are launched. *)
Configured ==
  /\ mpc = "boot"
  /\ \/ pc = "exit" /\ mpc' = "exit"
     \/ pc = "run" /\ <<mappings, started>> \in Followed /\ Usable /\ mpc' = "launch"
  /\ UNCHANGED <<mport, mq, lpc, ctlVars, lockVars, tx_cycles, poolVars, rxVars, statVars, closed>>

(* rte_eal_init fails or there is no port; main returns EXIT_FAILURE. *)
InitFails ==
  /\ mpc = "boot" /\ pc = "args"
  /\ mpc' = "exit"
  /\ UNCHANGED <<mport, mq, lpc, ctlVars, lockVars, tx_cycles, poolVars, rxVars, statVars, closed>>

(* rte_eal_mp_remote_launch on every worker, or its failure. *)
Launch ==
  /\ mpc = "launch"
  /\ \/ mpc' = "link" /\ lpc' = [l \in Lcores |-> "start"]
     \/ mpc' = "exit" /\ UNCHANGED lpc
  /\ UNCHANGED <<mport, mq, ctlVars, lockVars, tx_cycles, poolVars, rxVars, statVars, closed>>

-----------------------------------------------------------------------------
(* print_stats, port by port. *)
(* packet_rate: no cycles between bursts, hence no bursts, when the link   *)
(* is down or the rate is 0.                                               *)
packet_rate(speed) == speed > 0 /\ tx_rate > 0

(* The link is read and the rate set; no link state, as for a port that no *)
(* mapping names, ends print_stats.                                        *)
PrintLink ==
  /\ mpc = "link"
  /\ \/ /\ mport \in mapped
        /\ \E speed \in {0, 1} : tx_cycles' = [tx_cycles EXCEPT ![mport] = packet_rate(speed)]
        /\ mpc' = "rate"
     \/ mpc' = "sleep" /\ UNCHANGED tx_cycles
  /\ mq' = 0
  /\ UNCHANGED <<mport, lpc, ctlVars, lockVars, poolVars, rxVars, statVars, closed>>

Rate(pq) == curr[pq].q_opackets - prev[pq]

(* rate = curr - prev for one of the Rx queues. *)
PrintRate ==
  /\ mpc = "rate"
  /\ mq < num_rx_qids[mport]
  /\ shown' = [shown EXCEPT ![<<mport, mq>>] = @ + Rate(<<mport, mq>>)]
  /\ mpc' = "copy"
  /\ UNCHANGED <<mport, mq, lpc, ctlVars, lockVars, tx_cycles, poolVars, rxVars, curr, prev,
                 sent, closed>>

(* memcpy(p, c). *)
PrintCopy ==
  /\ mpc = "copy"
  /\ prev' = [prev EXCEPT ![<<mport, mq>>] = curr[<<mport, mq>>].q_opackets]
  /\ mq' = mq + 1
  /\ mpc' = "rate"
  /\ UNCHANGED <<mport, lpc, ctlVars, lockVars, tx_cycles, poolVars, rxVars, curr, sent, shown,
                 closed>>

(* The second look at the link, which only goes into the text; the rate is *)
(* computed again from the link read first.                                *)
PrintPort ==
  /\ mpc = "rate"
  /\ mq = num_rx_qids[mport]
  /\ \/ mpc' = "sleep" /\ UNCHANGED mport
     \/ mport + 1 < NumPorts /\ mport' = mport + 1 /\ mpc' = "link"
  /\ UNCHANGED <<mq, lpc, ctlVars, lockVars, tx_cycles, poolVars, rxVars, statVars, closed>>

(* The end of rte_delay_us_sleep, and the condition of the loop. *)
StatsLoop ==
  /\ mpc = "sleep"
  /\ mpc' = IF force_quit THEN "wait" ELSE "link"
  /\ mport' = 0
  /\ UNCHANGED <<mq, lpc, ctlVars, lockVars, tx_cycles, poolVars, rxVars, statVars, closed>>

WaitOverAny == TRUE                       \* slip: the threads are not waited for
WaitOver == \A l \in Lcores : lpc[l] = "exited"

(* rte_eal_wait_lcore for every worker. *)
WaitLcores ==
  /\ mpc = "wait"
  /\ WaitOver
  /\ mpc' = "close"
  /\ UNCHANGED <<mport, mq, lpc, ctlVars, lockVars, tx_cycles, poolVars, rxVars, statVars, closed>>

(* rte_eth_dev_stop and rte_eth_dev_close, port by port, then cleanup. *)
ClosePort ==
  /\ mpc = "close"
  /\ IF Ports \ closed = {}
     THEN mpc' = "exit" /\ UNCHANGED closed
     ELSE /\ closed' = closed \union {CHOOSE p \in Ports \ closed :
                                        \A o \in Ports \ closed : p <= o}
          /\ UNCHANGED mpc
  /\ UNCHANGED <<mport, mq, lpc, ctlVars, lockVars, tx_cycles, poolVars, rxVars, statVars>>

Main ==
  \/ initialize_dpdk \/ Configured \/ InitFails \/ Launch \/ PrintLink \/ PrintRate \/ PrintCopy
  \/ PrintPort \/ StatsLoop \/ WaitLcores \/ ClosePort

-----------------------------------------------------------------------------
(* The threads of the lcores. *)
Goto(l, where) == lpc' = [lpc EXCEPT ![l] = where]

(* txpkts_launch_one_lcore: an lcore without a mapping returns at once. *)
LcoreStart(l) ==
  /\ lpc[l] = "start"
  /\ Goto(l, CASE mode(l) = "UNKNOWN" -> "exited" [] mode(l) = "RX" -> "loop" [] OTHER -> "lock")
  /\ UNCHANGED <<mainVars, ctlVars, lockVars, tx_cycles, poolVars, rxVars, statVars, closed>>

SpinLockFree(l) == TRUE                   \* slip: the lock is not taken
LockIsFree(l) == tx_lock[port(l)] = NoLcore

(* pthread_spin_lock. *)
LockTx(l) ==
  /\ lpc[l] = "lock"
  /\ LockIsFree(l)
  /\ tx_lock' = [tx_lock EXCEPT ![port(l)] = l]
  /\ Goto(l, "check")
  /\ UNCHANGED <<mainVars, ctlVars, tx_inited, tx_cycles, poolVars, rxVars, statVars, closed>>

(* The first thread of the port sets the flag and builds the packets. *)
CheckInited(l) ==
  /\ lpc[l] = "check"
  /\ tx_inited' = [tx_inited EXCEPT ![port(l)] = TRUE]
  /\ Goto(l, IF tx_inited[port(l)] THEN "unlock" ELSE "build")
  /\ UNCHANGED <<mainVars, ctlVars, tx_lock, tx_cycles, poolVars, rxVars, statVars, closed>>

(* The headers, lengths and checksums of one packet are written; the early *)
(* return for a frame file needs an option that never gets past parsing.   *)
packet_constructor(p, m) == built' = [built EXCEPT ![p] = @ \union {m}]

(* rte_mempool_obj_iter runs mbuf_iterate_cb on every mbuf of the pool. *)
BuildPacket(l) ==
  /\ lpc[l] = "build"
  /\ LET p == port(l) IN
     IF built[p] = Mbufs
     THEN Goto(l, "unlock") /\ UNCHANGED built
     ELSE \E m \in Mbufs \ built[p] :
            packet_constructor(p, m) /\ UNCHANGED lpc
  /\ UNCHANGED <<mainVars, ctlVars, lockVars, tx_cycles, tx_mp, held, ring, rxVars, statVars,
                 closed>>

UnlockTx(l) ==
  /\ lpc[l] = "unlock"
  /\ tx_lock' = [tx_lock EXCEPT ![port(l)] = NoLcore]
  /\ Goto(l, "loop")
  /\ UNCHANGED <<mainVars, ctlVars, tx_inited, tx_cycles, poolVars, rxVars, statVars,
                 closed>>

NextTurnNoQuit(l) == IF mode(l) = "TX" THEN "due" ELSE "rx"   \* slip: force_quit unread
NextTurn(l) == IF force_quit THEN "exited" ELSE IF mode(l) = "TX" THEN "due" ELSE "rx"

(* The condition of the loop. *)
LoopTurn(l) ==
  /\ lpc[l] = "loop"
  /\ Goto(l, NextTurn(l))
  /\ UNCHANGED <<mainVars, ctlVars, lockVars, tx_cycles, poolVars, rxVars, statVars, closed>>

AfterRx(l) == IF mode(l) = "BOTH" THEN "due" ELSE "loop"

(* do_rx_process: a burst of at most 2 * burst_count packets. *)
RxBurst(l) ==
  /\ lpc[l] = "rx"
  /\ \E k \in 0..2 * BurstCount :
       /\ k <= rxq[rxpq(l)]
       /\ curr[rxpq(l)].q_ipackets + k <= MaxCount
       /\ rxq' = [rxq EXCEPT ![rxpq(l)] = @ - k]
       /\ rxheld' = [rxheld EXCEPT ![l] = k]
       /\ Goto(l, IF k = 0 THEN AfterRx(l) ELSE "rxcount")
  /\ UNCHANGED <<mainVars, ctlVars, lockVars, tx_cycles, poolVars, statVars, closed>>

RxCount(l) ==
  /\ lpc[l] = "rxcount"
  /\ curr' = [curr EXCEPT ![rxpq(l)].q_ipackets = @ + rxheld[l]]
  /\ rxheld' = [rxheld EXCEPT ![l] = 0]
  /\ Goto(l, AfterRx(l))
  /\ UNCHANGED <<mainVars, ctlVars, lockVars, tx_cycles, poolVars, rxq, prev, sent, shown, closed>>

TxTurns(pq) == curr[pq].q_opackets + curr[pq].q_tx_drops + curr[pq].q_no_txmbufs

BurstDue(l) == tx_cycles[port(l)]

(* The time for a burst may or may not have come; tx_cycles = 0 stops it. *)
TxDue(l) ==
  /\ lpc[l] = "due"
  /\ \/ BurstDue(l) /\ TxTurns(txpq(l)) < MaxCount /\ Goto(l, "get")
     \/ Goto(l, "loop")
  /\ UNCHANGED <<mainVars, ctlVars, lockVars, tx_cycles, poolVars, rxVars, statVars, closed>>

(* do_tx_process: rte_mempool_get_bulk takes a whole burst or nothing; the *)
(* caches of other lcores may make it fail with mbufs left.                *)
TxGet(l) ==
  /\ lpc[l] = "get"
  /\ LET p == port(l) IN
     \/ /\ \E ms \in SUBSET tx_mp[p] :
             /\ Cardinality(ms) = BurstCount
             /\ held' = [held EXCEPT ![l] = ms]
             /\ tx_mp' = [tx_mp EXCEPT ![p] = @ \ ms]
        /\ Goto(l, "burst")
        /\ UNCHANGED curr
     \/ /\ curr' = [curr EXCEPT ![txpq(l)].q_no_txmbufs = @ + 1]
        /\ Goto(l, "loop")
        /\ UNCHANGED <<held, tx_mp>>
  /\ UNCHANGED <<mainVars, ctlVars, lockVars, tx_cycles, built, ring, rxVars, prev, sent, shown,
                 closed>>

(* rte_eth_tx_burst accepts some of the mbufs, none on a port that was not *)
(* started, or is not there.                                               *)
TxBurst(l) ==
  /\ lpc[l] = "burst"
  /\ \E ms \in SUBSET held[l] :
       /\ ms # {} => port(l) \in started
       /\ ring' = [ring EXCEPT ![txpq(l)] = @ \union ms]
       /\ held' = [held EXCEPT ![l] = @ \ ms]
       /\ sent' = [sent EXCEPT ![txpq(l)] = @ + Cardinality(ms)]
       /\ Goto(l, IF ms = held[l] THEN "txcount" ELSE "putback")
  /\ UNCHANGED <<mainVars, ctlVars, lockVars, tx_cycles, tx_mp, built, rxVars, curr, prev, shown,
                 closed>>

TxCount(l) ==
  /\ lpc[l] = "txcount"
  /\ curr' = [curr EXCEPT ![txpq(l)].q_opackets = @ + BurstCount]
  /\ Goto(l, "loop")
  /\ UNCHANGED <<mainVars, ctlVars, lockVars, tx_cycles, poolVars, rxVars, prev, sent, shown,
                 closed>>

PutBackLost(l) ==         \* slip: the refused mbufs are not put back
  /\ held' = [held EXCEPT ![l] = {}]
  /\ UNCHANGED tx_mp

PutBack(l) ==
  /\ held' = [held EXCEPT ![l] = {}]
  /\ tx_mp' = [tx_mp EXCEPT ![port(l)] = @ \union held[l]]

(* A burst accepted in part: the rest goes back and is counted as dropped, *)
(* and the function returns without counting what was accepted.            *)
TxPutBack(l) ==
  /\ lpc[l] = "putback"
  /\ PutBack(l)
  /\ curr' = [curr EXCEPT ![txpq(l)].q_tx_drops = @ + Cardinality(held[l])]
  /\ Goto(l, "loop")
  /\ UNCHANGED <<mainVars, ctlVars, lockVars, tx_cycles, built, ring, rxVars, prev, sent, shown,
                 closed>>

Lcore(l) ==
  \/ LcoreStart(l) \/ LockTx(l) \/ CheckInited(l) \/ BuildPacket(l) \/ UnlockTx(l)
  \/ LoopTurn(l) \/ RxBurst(l) \/ RxCount(l) \/ TxDue(l) \/ TxGet(l) \/ TxBurst(l)
  \/ TxCount(l) \/ TxPutBack(l)

-----------------------------------------------------------------------------
(* The ports.  A packet arrives; a transmitted mbuf goes back to its pool. *)
PacketArrives(pq) ==
  /\ mpc \notin {"boot", "exit"}
  /\ pq[1] \in started \ closed /\ pq[2] \in rxset[pq[1]]
  /\ rxq[pq] < MaxRx[pq[1]]
  /\ rxq' = [rxq EXCEPT ![pq] = @ + 1]
  /\ UNCHANGED <<mainVars, lpc, ctlVars, lockVars, tx_cycles, poolVars, rxheld, statVars, closed>>

Transmitted(pq) ==
  /\ \E m \in ring[pq] :
       /\ ring' = [ring EXCEPT ![pq] = @ \ {m}]
       /\ tx_mp' = [tx_mp EXCEPT ![pq[1]] = @ \union {m}]
  /\ UNCHANGED <<mainVars, lpc, ctlVars, lockVars, tx_cycles, built, held, rxVars, statVars,
                 closed>>

Next ==
  \/ signal_handler
  \/ Main
  \/ \E l \in Lcores : Lcore(l)
  \/ \E pq \in PQ : PacketArrives(pq) \/ Transmitted(pq)

Spec == Init /\ [][Next]_vars

(* The operating system runs every thread that can run. *)
FairSpec ==
  /\ Spec
  /\ WF_vars(Main)
  /\ \A l \in Lcores : WF_vars(Lcore(l))

(* The links can be read again and again. *)
LinkSpec ==
  /\ FairSpec
  /\ SF_vars(PrintLink /\ mpc' = "rate")
  /\ SF_vars(PrintPort /\ mpc' = "link")

-----------------------------------------------------------------------------
LcorePC == {"off", "start", "lock", "check", "build", "unlock", "loop", "rx", "rxcount", "due",
            "get", "burst", "txcount", "putback", "exited"}

TypeOK ==
  /\ ConfigTypeOK
  /\ mpc \in {"boot", "launch", "link", "rate", "copy", "sleep", "wait", "close", "exit"}
  /\ mport \in Ports /\ mq \in Nat
  /\ lpc \in [Lcores -> LcorePC]
  /\ tx_rate \in Rates
  /\ force_quit \in BOOLEAN
  /\ tx_lock \in [PortSlots -> Lcores \union {NoLcore}]
  /\ tx_inited \in [PortSlots -> BOOLEAN]
  /\ tx_cycles \in [PortSlots -> BOOLEAN]
  /\ tx_mp \in [PortSlots -> SUBSET Mbufs]
  /\ built \in [PortSlots -> SUBSET Mbufs]
  /\ held \in [Lcores -> SUBSET Mbufs]
  /\ ring \in [PQ -> SUBSET Mbufs]
  /\ rxq \in [PQ -> Nat]
  /\ rxheld \in [Lcores -> Nat]
  /\ curr \in [PQ -> Counters] /\ prev \in [PQ -> Nat]
  /\ sent \in [PQ -> Nat] /\ shown \in [PQ -> Nat]
  /\ closed \subseteq Ports

LcoresOf(p) == {l \in Lcores : port(l) = p /\ mode(l) \in {"TX", "BOTH"}}
QueuesOf(p) == {pq \in PQ : pq[1] = p}

(* Every Tx mbuf of a port is in exactly one place: its pool, the array of *)
(* one lcore, or one Tx queue.  None is lost when a burst is accepted in   *)
(* part and none is sent twice, whatever the threads do meanwhile.         *)
MbufsConserved ==
  \A p \in PortSlots :
    /\ tx_mp[p] \union (UNION {held[l] : l \in LcoresOf(p)})
                \union (UNION {ring[pq] : pq \in QueuesOf(p)}) = Mbufs
    /\ \A l \in LcoresOf(p) : held[l] \intersect tx_mp[p] = {}
    /\ \A l, k \in LcoresOf(p) : l # k => held[l] \intersect held[k] = {}
    /\ \A pq \in QueuesOf(p) :
         /\ ring[pq] \intersect tx_mp[p] = {}
         /\ \A l \in LcoresOf(p) : held[l] \intersect ring[pq] = {}
         /\ \A qq \in QueuesOf(p) : pq # qq => ring[pq] \intersect ring[qq] = {}

(* The lock and the flag of tx_loop and rxtx_loop: no lcore gives a port   *)
(* an mbuf whose packet was not constructed, and while packets are being   *)
(* constructed no mbuf of the port is out of its pool.                     *)
OnlyBuiltPacketsSent ==
  /\ \A pq \in PQ : ring[pq] \subseteq built[pq[1]]
  /\ \A l \in Lcores : lpc[l] = "build" => tx_mp[port(l)] = Mbufs

(* launch_lcore_threads closes a port only when no thread uses it. *)
ClosedPortsUnused ==
  \A l \in Lcores : port(l) \in closed => lpc[l] \in {"off", "exited"}

(* Once the arguments are parsed, a signal ends the program: the lcores    *)
(* leave their loops, also those that still wait for the spin lock, and    *)
(* the main thread leaves the statistics loop, waits and closes the ports. *)
SignalEndsProgram == (force_quit /\ mpc # "boot") ~> (mpc = "exit")

(* signal_handler: "Signal %d received, preparing to exit...".             *)
AnySignalEndsProgram == force_quit ~> (mpc = "exit")

(* qstats_t: q_opackets counts the queue's Tx packets. *)
TxPacketsCounted ==
  \A l \in Lcores : lpc[l] = "loop" /\ mode(l) \in {"TX", "BOTH"} =>
    curr[txpq(l)].q_opackets = sent[txpq(l)]

(* pq_t: curr, prev and rate are current, previous and rate statistics;    *)
(* what was counted up to prev is the sum of the rates printed.            *)
RatesAddUp ==
  mpc # "copy" => \A pq \in PQ : shown[pq] = prev[pq]

(* "Port    : Rate Statistics per queue": print_stats comes to every port  *)
(* a mapping names; it sets the rate without which the port sends nothing. *)
EachPortPrinted ==
  \A p \in Ports :
    (mpc = "sleep" /\ p \in mapped) ~> (mpc = "rate" /\ mport = p) \/ mpc \in {"wait", "exit"}
=============================================================================
