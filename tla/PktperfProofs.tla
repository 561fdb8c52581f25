--------------------------- MODULE PktperfProofs ----------------------------
(***************************************************************************)
(* Proofs about pktperf, for any number of lcores, ports and mbufs and any *)
(* command line.                                                           *)
(*                                                                         *)
(* The properties speak of the threads, and rest on the order in which     *)
(* main and the lcores take turns.  PktperfInv has three layers: ConfigInv,*)
(* what the configuration leaves behind (every lcore a queue of its own,   *)
(* below the count of its port); PhasesInOrder, ModesMatch and LockHeld,   *)
(* which thread may be where while another is where it is; and BuiltOnce,  *)
(* NoneLost, NoneTwice and HeldOnlyInBursts, where the mbufs are.          *)
(***************************************************************************)
EXTENDS Pktperf, SequenceTheorems, FiniteSetTheorems, WellFoundedInduction, TLAPS

(* The configuration.  An lcore has a queue below the count of its port,   *)
(* and a port's queues are set up when its lcores are known.               *)
QidsCounted ==
  \A c \in Lcores :
    /\ Rx(c) => lports[c].rx_qid < num_rx_qids[lports[c].port]
    /\ Tx(c) => lports[c].tx_qid < num_tx_qids[lports[c].port]

SetupInOrder ==
  /\ pc = "args" => mi = 1
  /\ pc \in {"args", "map", "cores", "exit"} => started = {} /\ pid = 0
  /\ pc = "setup" => pid < NumPorts
  /\ \A p \in started : p < pid /\ \A q \in 0..num_rx_qids[p] - 1 : q \in rxset[p]

ConfigInv ==
  /\ ConfigTypeOK
  /\ QidsCounted
  /\ QueuesNotShared
  /\ SetupInOrder

-----------------------------------------------------------------------------
(* The threads.  Those that transmit are in these steps, and those that    *)
(* have been through the lock in these.                                    *)
Transmits == {"lock", "check", "build", "unlock", "due", "get", "burst", "txcount", "putback"}
Ready == {"unlock", "loop", "rx", "rxcount", "due", "get", "burst", "txcount", "putback", "exited"}

(* The lcores run between their launch and the closing of the ports, and   *)
(* only on queues that exist.                                              *)
PhasesInOrder ==
  /\ mpc \in {"boot", "launch"} => \A l \in Lcores : lpc[l] = "off"
  /\ mpc \in {"close", "exit"} => \A l \in Lcores : lpc[l] \in {"off", "exited"}
  /\ closed # {} => mpc \in {"close", "exit"}
  /\ mpc = "launch" \/ (\E l \in Lcores : lpc[l] # "off") => Usable

ModesMatch ==
  \A l \in Lcores :
    /\ lpc[l] \in Transmits => Tx(l)
    /\ lpc[l] \in {"rx", "rxcount"} => Rx(l)
    /\ lpc[l] = "loop" => mode(l) # "UNKNOWN"

LockHeld == \A l \in Lcores : lpc[l] \in {"check", "build", "unlock"} => tx_lock[port(l)] = l

(* The packets of a port are built once, by the lcore that set tx_inited,  *)
(* and until they are the port's mbufs stay in the pool.                   *)
BuiltOnce ==
  /\ \A k \in Lcores : Tx(k) /\ lpc[k] \in Ready => built[port(k)] = Mbufs /\ tx_inited[port(k)]
  /\ \A l, k \in Lcores :
       lpc[l] = "build" /\ Tx(k) /\ port(k) = port(l) => lpc[k] \notin Ready
  /\ \A p \in PortSlots :
       IF tx_inited[p] THEN built[p] = Mbufs \/ \E l \in Lcores : lpc[l] = "build" /\ port(l) = p
       ELSE tx_mp[p] = Mbufs
  /\ \A l \in Lcores : lpc[l] = "build" => tx_mp[port(l)] = Mbufs /\ tx_inited[port(l)]
  /\ \A p \in PortSlots, q \in Qids : ring[<<p, q>>] \subseteq built[p]

(* MbufsConserved, mbuf by mbuf. *)
NoneLost ==
  \A p \in PortSlots, m \in Mbufs :
    \/ m \in tx_mp[p]
    \/ \E l \in Lcores : Tx(l) /\ port(l) = p /\ m \in held[l]
    \/ \E q \in Qids : m \in ring[<<p, q>>]

NoneTwice ==
  \A p \in PortSlots, m \in Mbufs :
    /\ \A l \in Lcores : Tx(l) /\ port(l) = p /\ m \in held[l] =>
         /\ m \notin tx_mp[p]
         /\ \A k \in Lcores : Tx(k) /\ port(k) = p /\ m \in held[k] => k = l
         /\ \A q \in Qids : m \notin ring[<<p, q>>]
    /\ \A q \in Qids : m \in ring[<<p, q>>] =>
         /\ m \notin tx_mp[p]
         /\ \A r \in Qids : m \in ring[<<p, r>>] => r = q

HeldOnlyInBursts ==
  /\ \A l \in Lcores : held[l] # {} => lpc[l] \in {"burst", "putback"}
  /\ mpc \in {"boot", "launch"} => /\ \A p \in PortSlots : tx_mp[p] = Mbufs
                                   /\ \A p \in PortSlots, q \in Qids : ring[<<p, q>>] = {}

CountsGrow == \A pq \in PQ : prev[pq] <= curr[pq].q_opackets

PktperfInv ==
  /\ TypeOK
  /\ ConfigInv
  /\ CountsGrow
  /\ PhasesInOrder
  /\ ModesMatch
  /\ LockHeld
  /\ BuiltOnce
  /\ NoneLost
  /\ NoneTwice
  /\ HeldOnlyInBursts

-----------------------------------------------------------------------------
(* A mapping names a port, and lists of lcores. *)
LEMMA MappingFields ==
  ASSUME NEW m \in Mapping
  PROVE  /\ m.port \in PortSlots /\ m.good \in BOOLEAN /\ m.split \in BOOLEAN
         /\ m.rx # <<>> => m.rx[1] \in Nat
         /\ m.tx # <<>> => m.tx[1] \in Nat
BY ConfigAssumption DEF Mapping, CoreList

(* The ports there are can be named. *)
LEMMA PortsAreSlots == /\ Ports \subseteq PortSlots /\ 0 \in Ports
                       /\ NumPorts \in Nat /\ NumPorts > 0
BY ConfigAssumption DEF Ports, PortSlots

(* Before the options are read no lcore has a queue and no port is set up. *)
LEMMA ConfigInitOK == ConfigInit => ConfigInv
<1> SUFFICES ASSUME ConfigInit PROVE ConfigInv
  OBVIOUS
<1> USE DEF ConfigInit
<1>1. 0 \in PortSlots /\ NoLport \in Lport /\ 0 \in 0..NumPorts
  BY PortsAreSlots DEF NoLport, Lport
<1>2. ConfigTypeOK
  <2>1. <<>> \in Seq(Mapping) /\ 1 \in 1..Len(<<>>) + 1
    OBVIOUS
  <2> QED BY <1>1, <2>1, ConfigAssumption DEF ConfigTypeOK
<1>3. QidsCounted /\ QueuesNotShared
  BY DEF QidsCounted, QueuesNotShared, Rx, Tx, NoLport
<1>4. SetupInOrder
  BY DEF SetupInOrder
<1> QED BY <1>2, <1>3, <1>4 DEF ConfigInv

(* An lcore gets the next queue of a port. *)
LEMMA AssignOK ==
  ASSUME ConfigTypeOK, QidsCounted, QueuesNotShared, NEW c, NEW p \in PortSlots, Assign(c, p)
  PROVE  /\ lports' \in [Lcores -> Lport]
         /\ num_rx_qids' \in [PortSlots -> Nat] /\ num_tx_qids' \in [PortSlots -> Nat]
         /\ QidsCounted' /\ QueuesNotShared'
<1> USE DEF ConfigTypeOK
<1>1. num_rx_qids' \in [PortSlots -> Nat] /\ num_tx_qids' \in [PortSlots -> Nat]
  BY DEF Assign, CountQid
<1>2. lports' \in [Lcores -> Lport]
  <2>1. PICK old : old = lports[c]
    OBVIOUS
  <2>2. PICK rqid, tqid :
          /\ rqid = IF side \in {"RX", "BOTH"} THEN num_rx_qids[p] ELSE old.rx_qid
          /\ tqid = IF side \in {"TX", "BOTH"} THEN num_tx_qids[p] ELSE old.tx_qid
    OBVIOUS
  <2>3. PICK e : e = [mode |-> side, port |-> p, rx_qid |-> rqid, tx_qid |-> tqid]
    OBVIOUS
  <2>4. lports' = [lports EXCEPT ![c] = e]
    BY <2>1, <2>2, <2>3, Zenon DEF Assign
  <2>5. c \in Lcores => e \in Lport
    <3>1. c \in Lcores => old.rx_qid \in Nat /\ old.tx_qid \in Nat
      BY <2>1 DEF Lport
    <3>2. num_rx_qids[p] \in Nat /\ num_tx_qids[p] \in Nat
      OBVIOUS
    <3>3. c \in Lcores => rqid \in Nat /\ tqid \in Nat
      BY <2>2, <3>1, <3>2
    <3> QED BY <2>3, <3>3 DEF Lport
  <2> QED BY <2>4, <2>5
<1>3. QidsCounted'
  BY DEF Assign, CountQid, Lport, QidsCounted, Rx, Tx
<1>4. QueuesNotShared'
  BY SMTT(30) DEF Assign, CountQid, Lport, QidsCounted, QueuesNotShared, Rx, Tx
<1> QED BY <1>1, <1>2, <1>3, <1>4

(* Where parse_cores leaves a mapping. *)
LEMMA CoresParsedOK ==
  ASSUME ConfigTypeOK, pc = "cores", CoresParsed
  PROVE  /\ pc' \in {"map", "cores"} /\ mi' \in 1..Len(mappings) + 1
         /\ pc' = "cores" => mi' <= Len(mappings)
         /\ side' \in {"RX", "TX", "BOTH"} /\ core' \in Nat
<1>1. mi \in 1..Len(mappings) /\ mappings[mi] \in Mapping /\ Len(mappings) \in Nat
  BY DEF ConfigTypeOK
<1>2. mappings[mi].tx # <<>> => mappings[mi].tx[1] \in Nat
  BY <1>1, MappingFields
<1> QED BY <1>1, <1>2 DEF ConfigTypeOK, CoresParsed

(* Each step of the configuration, by its action. *)
LEMMA ConfigNextOK ==
  ASSUME ConfigInv, ConfigNext
  PROVE  ConfigInv'
<1> USE DEF ConfigInv
<1>0. NumPorts \in Nat /\ NumPorts > 0 /\ Lcores \subseteq Nat /\ Len(mappings) \in Nat
  BY ConfigAssumption, PortsAreSlots DEF ConfigTypeOK
<1>1. CASE parse_args
  <2> DEFINE Read(cl, n) == /\ mappings' = [i \in 1..n - 1 |-> cl[i].map]
                            /\ fgen' \in BOOLEAN
                            /\ pc' \in {"map", "exit"}
  <2>0. PICK cl \in CommandLines : \E n \in 1..Len(cl) + 1 : Read(cl, n)
    BY <1>1 DEF parse_args
  <2>1. PICK n \in 1..Len(cl) + 1 : Read(cl, n)
    BY <2>0
  <2>2. cl \in Seq(Option) /\ Len(cl) \in Nat
    BY ConfigAssumption
  <2>3. mappings' \in Seq(Mapping)
    <3>1. n - 1 \in Nat /\ \A i \in 1..n - 1 : cl[i] \in Option
      BY <2>2
    <3>2. \A i \in 1..n - 1 : cl[i].map \in Mapping
      BY <3>1 DEF Option
    <3> QED BY <2>1, <3>1, <3>2
  <2>4. mi = 1 /\ mi' = mi /\ Len(mappings') \in Nat
    BY <1>1, <2>3 DEF parse_args, SetupInOrder
  <2>5. ConfigTypeOK'
    BY <1>1, <2>1, <2>2, <2>3, <2>4
       DEF parse_args, ConfigTypeOK, mapVars, portVars
  <2>6. QidsCounted' /\ QueuesNotShared'
    BY <1>1 DEF parse_args, mapVars, QidsCounted, QueuesNotShared, Rx, Tx
  <2>7. SetupInOrder'
    BY <1>1, <2>4 DEF parse_args, mapVars, portVars, SetupInOrder
  <2> QED BY <2>5, <2>6, <2>7
<1>2. CASE parse_mapping
  <2>1. mi \in 1..Len(mappings) /\ mappings[mi] \in Mapping
    BY <1>2 DEF parse_mapping, ConfigTypeOK
  <2>2. /\ mappings[mi].port \in PortSlots
        /\ mappings[mi].rx # <<>> => mappings[mi].rx[1] \in Nat
    BY <2>1, MappingFields
  <2>3. ConfigTypeOK'
    BY <1>0, <1>2, <2>1, <2>2, SMTT(30)
       DEF parse_mapping, ConfigTypeOK, argVars, mapVars, portVars
  <2>4. QidsCounted' /\ QueuesNotShared'
    BY <1>2 DEF parse_mapping, mapVars, QidsCounted, QueuesNotShared, Rx, Tx
  <2>5. SetupInOrder'
    BY <1>2 DEF parse_mapping, mapVars, portVars, SetupInOrder
  <2> QED BY <2>3, <2>4, <2>5
<1>3. CASE ParseCore
  <2>1. mi \in 1..Len(mappings) /\ mappings[mi] \in Mapping /\ pc = "cores"
    BY <1>3 DEF ParseCore, ConfigTypeOK
  <2>2. mappings[mi].port \in PortSlots
    BY <2>1, MappingFields
  <2>3. /\ lports' \in [Lcores -> Lport]
        /\ num_rx_qids' \in [PortSlots -> Nat] /\ num_tx_qids' \in [PortSlots -> Nat]
        /\ QidsCounted' /\ QueuesNotShared'
    BY <1>3, <2>2, AssignOK DEF ParseCore
  <2>4. /\ pc' \in {"map", "cores"} /\ mi' \in 1..Len(mappings) + 1
        /\ pc' = "cores" => mi' <= Len(mappings)
        /\ side' \in {"RX", "TX", "BOTH"} /\ core' \in Nat
    <3>1. CASE core < List[2]
      BY <3>1, <1>3, <2>1 DEF ParseCore, ConfigTypeOK
    <3>2. CASE ~(core < List[2])
      BY <3>2, <1>3, <2>1, CoresParsedOK DEF ParseCore
    <3> QED BY <3>1, <3>2
  <2>5. ConfigTypeOK'
    BY <1>3, <2>2, <2>3, <2>4 DEF ParseCore, ConfigTypeOK, argVars, portVars
  <2>6. SetupInOrder'
    BY <1>3, <2>1, <2>4 DEF ParseCore, portVars, SetupInOrder
  <2> QED BY <2>3, <2>5, <2>6
<1>4. CASE ParseCoreFails
  <2>1. mi \in 1..Len(mappings) /\ mappings[mi] \in Mapping /\ pc = "cores"
    BY <1>4 DEF ParseCoreFails, ConfigTypeOK
  <2>2. mappings[mi].port \in PortSlots
    BY <2>1, MappingFields
  <2>3. /\ lports' \in [Lcores -> Lport]
        /\ num_rx_qids' \in [PortSlots -> Nat] /\ num_tx_qids' \in [PortSlots -> Nat]
        /\ rx_pools' \subseteq PortSlots /\ tx_pools' \subseteq PortSlots
        /\ QidsCounted' /\ QueuesNotShared'
    <3>1. CASE UNCHANGED mapVars
      BY <3>1 DEF mapVars, ConfigTypeOK, QidsCounted, QueuesNotShared, Rx, Tx
    <3>2. CASE /\ Assign(core, mappings[mi].port)
               /\ rx_pools' \in {rx_pools, rx_pools \union {mappings[mi].port}}
               /\ UNCHANGED tx_pools
      <4>1. rx_pools' \subseteq PortSlots /\ tx_pools' \subseteq PortSlots
        BY <3>2, <2>2 DEF ConfigTypeOK
      <4> QED BY <3>2, <4>1, <2>2, AssignOK
    <3> QED BY <1>4, <3>1, <3>2 DEF ParseCoreFails
  <2>4. /\ pc' \in {"map", "cores"} /\ mi' \in 1..Len(mappings) + 1
        /\ pc' = "cores" => mi' <= Len(mappings)
        /\ side' \in {"RX", "TX", "BOTH"} /\ core' \in Nat
    BY <1>4, <2>1, CoresParsedOK DEF ParseCoreFails
  <2>5. ConfigTypeOK'
    BY <1>4, <2>3, <2>4 DEF ParseCoreFails, ConfigTypeOK, argVars, portVars
  <2>6. SetupInOrder'
    BY <1>4, <2>1, <2>4 DEF ParseCoreFails, portVars, SetupInOrder
  <2> QED BY <2>3, <2>5, <2>6
<1>5. CASE MappingsParsed \/ CreateFgen
  <2>1. ConfigTypeOK'
    BY <1>5 DEF MappingsParsed, CreateFgen, ConfigTypeOK, argVars, mapVars, portVars
  <2>2. QidsCounted' /\ QueuesNotShared'
    BY <1>5 DEF MappingsParsed, CreateFgen, mapVars, QidsCounted, QueuesNotShared, Rx, Tx
  <2>3. SetupInOrder'
    BY <1>0, <1>5 DEF MappingsParsed, CreateFgen, mapVars, portVars, SetupInOrder
  <2> QED BY <2>1, <2>2, <2>3
<1>6. CASE port_setup \/ PortSetupFails
  <2>1. pc = "setup" /\ pid \in Ports /\ pid + 1 \in 0..NumPorts
        /\ pid' = pid + 1 /\ pc' \in {"fgen", "setup"} /\ (pc' = "setup" => pid + 1 < NumPorts)
    BY <1>0, <1>6 DEF port_setup, PortSetupFails, NextPort, SetupInOrder, ConfigTypeOK, Ports
  <2>2. UNCHANGED <<mi, side, core, mappings, fgen, lports, num_rx_qids, num_tx_qids,
                    rx_pools, tx_pools, mapped>>
    BY <1>6 DEF port_setup, PortSetupFails, argVars, mapVars
  <2>3. \A p, n : RxSetUp(p, n) \subseteq Nat /\ TxSetUp(p, n) \subseteq Nat
    BY DEF RxSetUp, TxSetUp
  <2>4. /\ rxset' \in [PortSlots -> SUBSET Nat] /\ txset' \in [PortSlots -> SUBSET Nat]
        /\ \A p \in PortSlots : p # pid => rxset'[p] = rxset[p]
        /\ started' \in {started, started \union {pid}} /\ started' \subseteq Ports
        /\ failed' \subseteq Ports
    <3>1. \E S, T \in SUBSET Nat :
            \/ UNCHANGED <<rxset, txset>>
            \/ rxset' = [rxset EXCEPT ![pid] = S] /\ txset' = [txset EXCEPT ![pid] = T]
      <4>1. CASE port_setup
        BY <4>1, <2>3 DEF port_setup
      <4>2. CASE PortSetupFails
        BY <4>2, <2>3 DEF PortSetupFails
      <4> QED BY <1>6, <4>1, <4>2
    <3>2. rxset \in [PortSlots -> SUBSET Nat] /\ txset \in [PortSlots -> SUBSET Nat]
      BY DEF ConfigTypeOK
    <3>3. /\ rxset' \in [PortSlots -> SUBSET Nat] /\ txset' \in [PortSlots -> SUBSET Nat]
          /\ \A p \in PortSlots : p # pid => rxset'[p] = rxset[p]
      BY <3>1, <3>2
    <3>4. /\ started' \in {started, started \union {pid}} /\ started' \subseteq Ports
          /\ failed' \subseteq Ports
      BY <1>6, <2>1 DEF port_setup, PortSetupFails, ConfigTypeOK
    <3> QED BY <3>3, <3>4
  <2>5. ConfigTypeOK'
    BY <2>1, <2>2, <2>4 DEF ConfigTypeOK
  <2>6. QidsCounted' /\ QueuesNotShared'
    BY <2>2 DEF QidsCounted, QueuesNotShared, Rx, Tx
  <2>7. ASSUME NEW p \in started', NEW q \in 0..num_rx_qids'[p] - 1
        PROVE  p < pid' /\ q \in rxset'[p]
    <3>1. /\ p \in Ports /\ p \in PortSlots
          /\ num_rx_qids'[p] = num_rx_qids[p] /\ num_rx_qids[p] \in Nat
      BY PortsAreSlots, <2>2, <2>4 DEF ConfigTypeOK
    <3>2. CASE p \in started
      <4>1. p < pid /\ q \in rxset[p]
        BY <3>1, <3>2, <2>7 DEF SetupInOrder
      <4>2. rxset'[p] = rxset[p]
        BY PortsAreSlots, <2>1, <2>4, <3>1, <4>1 DEF Ports
      <4> QED BY <2>1, <3>1, <4>1, <4>2 DEF Ports
    <3>3. CASE p \notin started
      <4>1. port_setup /\ p = pid
        BY <1>6, <3>3 DEF port_setup, PortSetupFails
      <4>2. rxset'[p] = 0..num_rx_qids[p] - 1
        BY <4>1, <3>1 DEF port_setup, ConfigTypeOK, RxSetUp
      <4> QED BY <2>1, <2>7, <3>1, <4>1, <4>2 DEF Ports
    <3> QED BY <3>2, <3>3
  <2>8. ASSUME NEW p \in started' PROVE p < pid'
    BY <1>0, <2>1, <2>4 DEF SetupInOrder, ConfigTypeOK, Ports
  <2>9. SetupInOrder'
    BY <2>1, <2>7, <2>8 DEF SetupInOrder
  <2> QED BY <2>5, <2>6, <2>9
<1> QED BY <1>1, <1>2, <1>3, <1>4, <1>5, <1>6 DEF ConfigNext

-----------------------------------------------------------------------------
(* Only initialize_dpdk changes the configuration. *)
LEMMA ConfigKept ==
  ASSUME Next, ~initialize_dpdk
  PROVE  UNCHANGED configVars
<1> USE DEF ctlVars
<1>1. CASE signal_handler
  BY <1>1 DEF signal_handler
<1>2. CASE Main
  BY <1>2 DEF Main, Configured, InitFails, Launch, PrintLink, PrintRate, PrintCopy, PrintPort,
              StatsLoop, WaitLcores, ClosePort
<1>3. ASSUME NEW l \in Lcores, Lcore(l) PROVE UNCHANGED configVars
  BY <1>3 DEF Lcore, LcoreStart, LockTx, CheckInited, BuildPacket, UnlockTx, LoopTurn, RxBurst,
              RxCount, TxDue, TxGet, TxBurst, TxCount, TxPutBack
<1>4. ASSUME NEW pq \in PQ, PacketArrives(pq) \/ Transmitted(pq) PROVE UNCHANGED configVars
  BY <1>4 DEF PacketArrives, Transmitted
<1> QED BY <1>1, <1>2, <1>3, <1>4 DEF Next

(* The lcore of a step goes on to a step its mode has; where it is neither *)
(* off nor exited.                                                         *)
LEMMA LcoreMoves ==
  ASSUME TypeOK, ModesMatch, NEW l \in Lcores, Lcore(l)
  PROVE  /\ lpc[l] \notin {"off", "exited"}
         /\ \E w \in LcorePC \ {"off"} :
              /\ lpc' = [lpc EXCEPT ![l] = w]
              /\ w \in Transmits => Tx(l)
              /\ w \in {"rx", "rxcount"} => Rx(l)
              /\ w = "loop" => mode(l) # "UNKNOWN"
         /\ UNCHANGED <<mpc, closed, lports>>
<1> DEFINE M(w) == /\ lpc' = [lpc EXCEPT ![l] = w]
                   /\ w \in Transmits => Tx(l)
                   /\ w \in {"rx", "rxcount"} => Rx(l)
                   /\ w = "loop" => mode(l) # "UNKNOWN"
<1>1. UNCHANGED <<mpc, closed, lports>> /\ lpc[l] \notin {"off", "exited"}
  BY DEF Lcore, LcoreStart, LockTx, CheckInited, BuildPacket, UnlockTx, LoopTurn, RxBurst,
         RxCount, TxDue, TxGet, TxBurst, TxCount, TxPutBack, mainVars, ctlVars, configVars
<1>2. lports[l] \in Lport /\ lpc \in [Lcores -> LcorePC] /\ lpc = [lpc EXCEPT ![l] = lpc[l]]
  BY DEF TypeOK, ConfigTypeOK
<1> USE DEF LcorePC, Transmits, Goto, mode, Tx, Rx, Lport
<1>3. \E w \in LcorePC \ {"off"} : M(w)
  <2>1. CASE LcoreStart(l)
    <3>1. CASE mode(l) = "UNKNOWN"
      <4>1. lpc' = [lpc EXCEPT ![l] = "exited"]
        BY <2>1, <3>1 DEF LcoreStart
      <4> QED BY <4>1, <3>1, <1>2
    <3>2. CASE mode(l) = "RX"
      BY <2>1, <3>2, <1>2 DEF LcoreStart
    <3>3. CASE mode(l) \in {"TX", "BOTH"}
      <4>1. lpc' = [lpc EXCEPT ![l] = "lock"]
        BY <2>1, <3>3 DEF LcoreStart
      <4> QED BY <4>1, <3>3, <1>2
    <3> QED BY <3>1, <3>2, <3>3, <1>2
  <2>2. CASE LockTx(l) \/ CheckInited(l) \/ UnlockTx(l)
    BY <2>2, <1>2 DEF LockTx, CheckInited, UnlockTx, ModesMatch
  <2>3. CASE BuildPacket(l)
    BY <2>3, <1>2 DEF BuildPacket, ModesMatch
  <2>4. CASE LoopTurn(l)
    BY <2>4, <1>2 DEF LoopTurn, NextTurn, ModesMatch
  <2>5. CASE RxBurst(l) \/ RxCount(l)
    BY <2>5, <1>2 DEF RxBurst, RxCount, AfterRx, ModesMatch
  <2>6. CASE TxDue(l) \/ TxGet(l) \/ TxBurst(l)
    BY <2>6, <1>2 DEF TxDue, TxGet, TxBurst, ModesMatch
  <2>7. CASE TxCount(l) \/ TxPutBack(l)
    BY <2>7, <1>2 DEF TxCount, TxPutBack, ModesMatch
  <2> QED BY <2>1, <2>2, <2>3, <2>4, <2>5, <2>6, <2>7 DEF Lcore
<1> QED BY <1>1, <1>3

(* The phases of the program and the modes of its threads. *)
LEMMA PhasesKept ==
  ASSUME PktperfInv, Next
  PROVE  PhasesInOrder' /\ ModesMatch'
<1> USE DEF PktperfInv
<1>1. CASE initialize_dpdk
  <2>1. mpc = "boot" /\ UNCHANGED <<mpc, lpc, closed>>
    BY <1>1 DEF initialize_dpdk, mainVars
  <2> QED BY <2>1 DEF PhasesInOrder, ModesMatch, Transmits
<1>2. ASSUME UNCHANGED lports, UNCHANGED lpc PROVE ModesMatch'
  BY <1>2 DEF ModesMatch, Tx, Rx, mode
<1>3. ASSUME UNCHANGED configVars PROVE Usable' <=> Usable
  BY <1>3 DEF configVars, Usable, Rx, Tx
<1>4. CASE Main /\ ~initialize_dpdk
  <2>1. UNCHANGED configVars
    BY <1>4, ConfigKept
  <2>2. UNCHANGED lports
    BY <2>1 DEF configVars
  <2>3. CASE Launch
    <3>1. CASE mpc' = "link" /\ lpc' = [l \in Lcores |-> "start"]
      BY <2>1, <2>2, <2>3, <3>1, <1>3 DEF Launch, PhasesInOrder, ModesMatch, Transmits
    <3>2. CASE mpc' = "exit" /\ UNCHANGED lpc
      BY <2>1, <2>2, <2>3, <3>2, <1>2, <1>3 DEF Launch, PhasesInOrder
    <3> QED BY <2>3, <3>1, <3>2 DEF Launch
  <2>4. CASE ~Launch
    <3>1. UNCHANGED lpc
      BY <1>4, <2>4 DEF Main, Configured, InitFails, PrintLink, PrintRate, PrintCopy, PrintPort,
                        StatsLoop, WaitLcores, ClosePort
    <3>2. /\ mpc' = "launch" => mpc = "launch" \/ Usable
          /\ mpc' \in {"boot", "launch"} => mpc \in {"boot", "launch"}
          /\ mpc' \in {"close", "exit"} =>
               mpc \in {"close", "exit", "boot"} \/ \A l \in Lcores : lpc[l] = "exited"
          /\ closed' # {} => mpc \in {"close", "exit"} /\ mpc' \in {"close", "exit"}
      BY <1>4, <2>4 DEF Main, Configured, InitFails, PrintLink, PrintRate, PrintCopy, PrintPort,
                        StatsLoop, WaitLcores, ClosePort, WaitOver, PhasesInOrder, TypeOK
    <3>3. PhasesInOrder'
      BY <2>1, <3>1, <3>2, <1>3 DEF PhasesInOrder
    <3> QED BY <2>2, <3>1, <3>3, <1>2
  <2> QED BY <2>3, <2>4
<1>5. ASSUME NEW l \in Lcores, Lcore(l) PROVE PhasesInOrder' /\ ModesMatch'
  <2>1. lpc[l] \notin {"off", "exited"} /\ UNCHANGED <<mpc, closed, lports>>
    BY <1>5, LcoreMoves
  <2>2. PICK w \in LcorePC \ {"off"} :
              /\ lpc' = [lpc EXCEPT ![l] = w]
              /\ w \in Transmits => Tx(l)
              /\ w \in {"rx", "rxcount"} => Rx(l)
              /\ w = "loop" => mode(l) # "UNKNOWN"
    BY <1>5, LcoreMoves
  <2>3. UNCHANGED configVars
    BY <1>5 DEF Lcore, LcoreStart, LockTx, CheckInited, BuildPacket, UnlockTx, LoopTurn, RxBurst,
              RxCount, TxDue, TxGet, TxBurst, TxCount, TxPutBack, ctlVars
  <2>4. ModesMatch'
    BY <2>1, <2>2 DEF ModesMatch, Tx, Rx, mode, TypeOK
  <2>5. PhasesInOrder'
    BY <2>1, <2>2, <2>3, <1>3 DEF PhasesInOrder, TypeOK
  <2> QED BY <2>4, <2>5
<1>6. CASE signal_handler
  BY <1>6, <1>2, <1>3 DEF signal_handler, mainVars, configVars, PhasesInOrder
<1>7. ASSUME NEW pq \in PQ, PacketArrives(pq) \/ Transmitted(pq)
      PROVE  PhasesInOrder' /\ ModesMatch'
  <2>1. UNCHANGED configVars /\ UNCHANGED <<lports, lpc, mpc, closed>>
    BY <1>7 DEF PacketArrives, Transmitted, mainVars, ctlVars, configVars
  <2> QED BY <2>1, <1>2, <1>3 DEF PhasesInOrder
<1> QED BY <1>1, <1>4, <1>5, <1>6, <1>7 DEF Next

(* The configuration stays well formed. *)
LEMMA ConfigInvKept ==
  ASSUME ConfigInv, [Next]_vars
  PROVE  ConfigInv'
<1>1. CASE initialize_dpdk
  BY <1>1, ConfigNextOK DEF initialize_dpdk
<1>2. CASE UNCHANGED configVars
  BY <1>2 DEF configVars, ConfigInv, ConfigTypeOK, QidsCounted, QueuesNotShared, SetupInOrder,
              Rx, Tx
<1> QED BY <1>1, <1>2, ConfigKept DEF vars, ctlVars

-----------------------------------------------------------------------------
(* A set of naturals that is not empty has a least element. *)
LEMMA NatMinimum ==
  ASSUME NEW S \in SUBSET Nat, S # {}
  PROVE  \E x \in S : \A y \in S : x <= y
<1>1. PICK x \in S : \A y \in S : ~(<<y, x>> \in OpToRel(<, Nat))
  BY NatLessThanWellFounded, WFMin
<1>2. ASSUME NEW y \in S PROVE x <= y
  <2>1. x \in Nat /\ y \in Nat /\ <<y, x>> \in Nat \X Nat
    OBVIOUS
  <2>2. OpToRel(<, Nat) = {ss \in Nat \X Nat : ss[1] < ss[2]}
    BY DEF OpToRel
  <2>3. ~(<<y, x>>[1] < <<y, x>>[2])
    BY <1>1, <2>1, <2>2, Zenon
  <2> QED BY <2>1, <2>3
<1> QED BY <1>2

(* A set of mbufs has a size. *)
LEMMA MbufsCounted ==
  ASSUME NEW ms \in SUBSET Mbufs
  PROVE  Cardinality(ms) \in Nat
BY PktperfAssumption, FS_Subset, FS_CardinalityType

(* A counter of a queue is added to: the counters stay numbers, and the    *)
(* packets sent do not become fewer.                                       *)
LEMMA CounterAdded ==
  ASSUME TypeOK, CountsGrow, NEW x, NEW n \in Nat, UNCHANGED prev,
         \/ curr' = [curr EXCEPT ![x].q_ipackets = @ + n]
         \/ curr' = [curr EXCEPT ![x].q_opackets = @ + n]
         \/ curr' = [curr EXCEPT ![x].q_tx_drops = @ + n]
         \/ curr' = [curr EXCEPT ![x].q_no_txmbufs = @ + n]
  PROVE  curr' \in [PQ -> Counters] /\ CountsGrow'
<1>1. curr \in [PQ -> Counters] /\ prev \in [PQ -> Nat]
  BY DEF TypeOK
<1>2. ASSUME NEW pq \in PQ
      PROVE  curr'[pq] \in Counters /\ prev'[pq] <= curr'[pq].q_opackets
  <2>1. curr[pq] \in Counters /\ prev[pq] <= curr[pq].q_opackets /\ prev[pq] \in Nat
    BY <1>1 DEF CountsGrow
  <2> QED BY <1>1, <2>1 DEF Counters
<1>3. \E g : curr' = [pq \in PQ |-> g[pq]]
  <2>1. curr' = [pq \in PQ |-> curr'[pq]]
    BY <1>1
  <2> QED BY <2>1
<1> QED BY <1>2, <1>3 DEF CountsGrow

(* Types, and that what was printed had been counted. *)
LEMMA TypesKept ==
  ASSUME PktperfInv, Next
  PROVE  TypeOK' /\ CountsGrow'
<1> USE DEF PktperfInv, mainVars, ctlVars, poolVars, lockVars, rxVars, statVars
<1>1. ConfigTypeOK' /\ ConfigTypeOK
  BY ConfigInvKept DEF ConfigInv
<1>2. BurstCount \in Nat /\ NumPorts \in Nat /\ NumPorts > 0 /\ Lcores \subseteq Nat
      /\ 0 \in Ports
  BY ConfigAssumption, PktperfAssumption DEF Ports
<1>3. ASSUME UNCHANGED <<curr, prev>> PROVE CountsGrow'
  BY <1>3 DEF CountsGrow
<1>4. CASE signal_handler \/ initialize_dpdk
  BY <1>4, <1>1, <1>3 DEF signal_handler, initialize_dpdk, ParseDefaults, TypeOK
<1>5. CASE Configured \/ InitFails \/ StatsLoop \/ WaitLcores
  BY <1>5, <1>1, <1>2, <1>3 DEF Configured, InitFails, StatsLoop, WaitLcores, TypeOK
<1>6. CASE Launch
  BY <1>6, <1>1, <1>3 DEF Launch, TypeOK, LcorePC
<1>7. CASE PrintLink
  <2>1. tx_cycles' \in [PortSlots -> BOOLEAN]
    BY <1>7 DEF PrintLink, packet_rate, TypeOK
  <2> QED BY <1>7, <2>1, <1>1, <1>3 DEF PrintLink, TypeOK
<1>8. CASE PrintRate
  <2>1. shown' \in [PQ -> Nat]
    <3>1. ASSUME NEW pq \in PQ PROVE shown[pq] + Rate(pq) \in Nat
      BY DEF Rate, TypeOK, Counters, CountsGrow
    <3> QED BY <1>8, <3>1 DEF PrintRate, TypeOK
  <2> QED BY <1>8, <2>1, <1>1, <1>3 DEF PrintRate, TypeOK
<1>9. CASE PrintCopy
  <2>1. \A pq \in PQ : curr[pq].q_opackets \in Nat
    BY DEF TypeOK, Counters
  <2>2. prev' \in [PQ -> Nat]
    BY <1>9, <2>1 DEF PrintCopy, TypeOK
  <2>3. CountsGrow'
    <3> SUFFICES ASSUME NEW pq \in PQ PROVE prev'[pq] <= curr'[pq].q_opackets
      BY DEF CountsGrow
    <3>1. prev'[pq] = IF pq = <<mport, mq>> THEN curr[pq].q_opackets ELSE prev[pq]
      BY <1>9 DEF PrintCopy, TypeOK
    <3> QED BY <1>9, <2>1, <3>1 DEF PrintCopy, CountsGrow
  <2> QED BY <1>9, <2>2, <2>3, <1>1 DEF PrintCopy, TypeOK
<1>10. CASE PrintPort
  <2>1. mport' \in Ports
    BY <1>10, <1>2 DEF PrintPort, TypeOK, Ports
  <2> QED BY <1>10, <2>1, <1>1, <1>3 DEF PrintPort, TypeOK
<1>11. CASE ClosePort
  <2>1. closed' \subseteq Ports
    <3>1. CASE Ports \ closed = {}
      BY <1>11, <3>1 DEF ClosePort, TypeOK
    <3>2. CASE Ports \ closed # {}
      <4> DEFINE S == Ports \ closed
      <4>1. \E p \in S : \A o \in S : p <= o
        <5>1. S # {} /\ S \in SUBSET Nat
          BY <3>2, <1>2 DEF Ports
        <5> QED BY <5>1, NatMinimum
      <4>2. (CHOOSE p \in S : \A o \in S : p <= o) \in Ports
        BY <4>1
      <4> QED BY <1>11, <3>2, <4>2 DEF ClosePort, TypeOK
    <3> QED BY <3>1, <3>2
  <2> QED BY <1>11, <2>1, <1>1, <1>3 DEF ClosePort, TypeOK
<1>12. ASSUME NEW l \in Lcores, Lcore(l) PROVE TypeOK' /\ CountsGrow'
  <2>1. lpc' \in [Lcores -> LcorePC]
    BY <1>12, LcoreMoves DEF TypeOK
  <2>2. port(l) \in PortSlots /\ held[l] \in SUBSET Mbufs
    BY <1>1 DEF ConfigTypeOK, Lport, port, TypeOK
  <2>3. CASE LcoreStart(l) \/ LoopTurn(l) \/ TxDue(l)
    BY <2>3, <1>1, <1>3, <2>1 DEF LcoreStart, LoopTurn, TxDue, TypeOK
  <2>4. CASE LockTx(l) \/ UnlockTx(l) \/ CheckInited(l)
    BY <2>4, <1>1, <1>3, <2>1, <2>2 DEF LockTx, UnlockTx, CheckInited, TypeOK
  <2>5. CASE BuildPacket(l)
    BY <2>5, <1>1, <1>3, <2>1, <2>2 DEF BuildPacket, packet_constructor, TypeOK
  <2>6. CASE RxBurst(l)
    <3>1. PICK k \in 0..2 * BurstCount : RxBurst(l)!2!(k)
      BY <2>6 DEF RxBurst
    <3>2. k \in Nat
      BY <1>2
    <3>3. rxq' \in [PQ -> Nat] /\ rxheld' \in [Lcores -> Nat]
      <4>1. ASSUME NEW pq \in PQ PROVE rxq'[pq] \in Nat
        <5>1. rxq'[pq] = IF pq = rxpq(l) THEN rxq[pq] - k ELSE rxq[pq]
          BY <3>1 DEF TypeOK
        <5> QED BY <5>1, <3>1, <3>2 DEF TypeOK
      <4> QED BY <4>1, <3>1, <3>2 DEF TypeOK
    <3> QED BY <2>6, <3>3, <1>1, <1>3, <2>1 DEF RxBurst, TypeOK
  <2>7. CASE RxCount(l)
    <3>1. curr' \in [PQ -> Counters] /\ CountsGrow'
      BY <2>7, CounterAdded DEF RxCount, TypeOK
    <3> QED BY <2>7, <3>1, <1>1, <2>1 DEF RxCount, TypeOK
  <2>8. CASE TxGet(l)
    <3>1. curr' \in [PQ -> Counters] /\ CountsGrow'
      <4>1. CASE UNCHANGED curr
        BY <2>8, <4>1, <1>3 DEF TxGet, TypeOK
      <4>2. CASE curr' = [curr EXCEPT ![txpq(l)].q_no_txmbufs = @ + 1]
        BY <2>8, <4>2, CounterAdded DEF TxGet
      <4> QED BY <2>8, <4>1, <4>2 DEF TxGet
    <3>2. held' \in [Lcores -> SUBSET Mbufs] /\ tx_mp' \in [PortSlots -> SUBSET Mbufs]
      BY <2>8, <2>2 DEF TxGet, TypeOK
    <3> QED BY <2>8, <3>1, <3>2, <1>1, <2>1 DEF TxGet, TypeOK
  <2>9. CASE TxBurst(l)
    <3>1. PICK ms \in SUBSET held[l] : TxBurst(l)!2!(ms)
      BY <2>9 DEF TxBurst
    <3>2. Cardinality(ms) \in Nat
      BY <2>2, MbufsCounted
    <3>3. /\ sent' \in [PQ -> Nat] /\ ring' \in [PQ -> SUBSET Mbufs]
          /\ held' \in [Lcores -> SUBSET Mbufs]
      <4>1. ASSUME NEW pq \in PQ PROVE ring'[pq] \in SUBSET Mbufs /\ sent'[pq] \in Nat
        <5>1. ring'[pq] = IF pq = txpq(l) THEN ring[pq] \union ms ELSE ring[pq]
          BY <3>1 DEF TypeOK
        <5>2. sent'[pq] = IF pq = txpq(l) THEN sent[pq] + Cardinality(ms) ELSE sent[pq]
          BY <3>1 DEF TypeOK
        <5> QED BY <5>1, <5>2, <3>2, <2>2 DEF TypeOK
      <4>2. held' \in [Lcores -> SUBSET Mbufs]
        BY <3>1, <2>2 DEF TypeOK
      <4> QED BY <4>1, <4>2, <3>1 DEF TypeOK
    <3> QED BY <2>9, <3>3, <1>1, <1>3, <2>1 DEF TxBurst, TypeOK
  <2>10. CASE TxCount(l)
    <3>1. curr' \in [PQ -> Counters] /\ CountsGrow'
      BY <2>10, <1>2, CounterAdded DEF TxCount
    <3> QED BY <2>10, <3>1, <1>1, <2>1 DEF TxCount, TypeOK
  <2>11. CASE TxPutBack(l)
    <3>1. Cardinality(held[l]) \in Nat
      BY <2>2, MbufsCounted
    <3>2. curr' \in [PQ -> Counters] /\ CountsGrow'
      BY <2>11, <3>1, CounterAdded DEF TxPutBack
    <3>3. held' \in [Lcores -> SUBSET Mbufs] /\ tx_mp' \in [PortSlots -> SUBSET Mbufs]
      BY <2>11, <2>2 DEF TxPutBack, PutBack, TypeOK
    <3> QED BY <2>11, <3>2, <3>3, <1>1, <2>1 DEF TxPutBack, TypeOK
  <2> QED BY <1>12, <2>3, <2>4, <2>5, <2>6, <2>7, <2>8, <2>9, <2>10, <2>11 DEF Lcore
<1>13. ASSUME NEW pq \in PQ, PacketArrives(pq) PROVE TypeOK' /\ CountsGrow'
  <2>1. rxq' \in [PQ -> Nat]
    BY <1>13 DEF PacketArrives, TypeOK
  <2> QED BY <1>13, <2>1, <1>1, <1>3 DEF PacketArrives, TypeOK
<1>14. ASSUME NEW pq \in PQ, Transmitted(pq) PROVE TypeOK' /\ CountsGrow'
  <2>1. ring' \in [PQ -> SUBSET Mbufs] /\ tx_mp' \in [PortSlots -> SUBSET Mbufs]
    <3>1. pq[1] \in PortSlots /\ ring[pq] \in SUBSET Mbufs
      BY DEF PQ, TypeOK
    <3> QED BY <1>14, <3>1 DEF Transmitted, TypeOK
  <2> QED BY <1>14, <2>1, <1>1, <1>3 DEF Transmitted, TypeOK
<1> QED BY <1>4, <1>5, <1>6, <1>7, <1>8, <1>9, <1>10, <1>11, <1>12, <1>13, <1>14 DEF Next, Main

-----------------------------------------------------------------------------
(* What the steps leave alone that are neither an lcore's, nor of the      *)
(* configuration, nor the launch.                                          *)
LEMMA LcoresKept ==
  ASSUME \/ Main /\ ~initialize_dpdk /\ ~Launch
         \/ signal_handler
         \/ \E pq \in PQ : PacketArrives(pq) \/ Transmitted(pq)
  PROVE  UNCHANGED <<lpc, lports, tx_lock, tx_inited, built, held>>
<1> USE DEF ctlVars, configVars, lockVars, poolVars
<1>1. CASE Main /\ ~initialize_dpdk /\ ~Launch
  BY <1>1 DEF Main, Configured, InitFails, PrintLink, PrintRate, PrintCopy, PrintPort, StatsLoop,
              WaitLcores, ClosePort
<1>2. CASE signal_handler
  BY <1>2 DEF signal_handler
<1>3. ASSUME NEW pq \in PQ, PacketArrives(pq) \/ Transmitted(pq)
      PROVE  UNCHANGED <<lpc, lports, tx_lock, tx_inited, built, held>>
  BY <1>3 DEF PacketArrives, Transmitted
<1> QED BY <1>1, <1>2, <1>3

(* And of the mbufs. *)
LEMMA PoolsKept ==
  ASSUME \/ Main
         \/ signal_handler
         \/ \E pq \in PQ : PacketArrives(pq)
  PROVE  UNCHANGED <<tx_mp, ring, held>>
<1> USE DEF poolVars
<1>1. CASE Main
  BY <1>1 DEF Main, initialize_dpdk, Launch, Configured, InitFails, PrintLink, PrintRate,
              PrintCopy, PrintPort, StatsLoop, WaitLcores, ClosePort
<1>2. CASE signal_handler
  BY <1>2 DEF signal_handler
<1>3. ASSUME NEW pq \in PQ, PacketArrives(pq) PROVE UNCHANGED <<tx_mp, ring, held>>
  BY <1>3 DEF PacketArrives
<1> QED BY <1>1, <1>2, <1>3

(* The spin lock: who is between locking and unlocking owns it. *)
LEMMA LockKept ==
  ASSUME PktperfInv, Next
  PROVE  LockHeld'
<1> USE DEF PktperfInv
<1>1. CASE initialize_dpdk \/ Launch
  <2>1. \A l \in Lcores : lpc'[l] \in {"off", "start"}
    BY <1>1 DEF initialize_dpdk, Launch, PhasesInOrder
  <2> QED BY <2>1 DEF LockHeld
<1>2. CASE \/ Main /\ ~initialize_dpdk /\ ~Launch
           \/ signal_handler
           \/ \E pq \in PQ : PacketArrives(pq) \/ Transmitted(pq)
  BY <1>2, LcoresKept DEF LockHeld, port
<1>3. ASSUME NEW l \in Lcores, Lcore(l) PROVE LockHeld'
  <2>1. lpc \in [Lcores -> LcorePC] /\ tx_lock \in [PortSlots -> Lcores \union {NoLcore}]
        /\ port(l) \in PortSlots /\ NoLcore \notin Lcores /\ UNCHANGED lports
    <3>1. NoLcore \notin Lcores
      BY ConfigAssumption DEF NoLcore
    <3>2. UNCHANGED lports
      BY <1>3, LcoreMoves
    <3> QED BY <3>1, <3>2 DEF TypeOK, ConfigTypeOK, Lport, port
  <2> USE DEF LockHeld, Goto, port
  <2>2. CASE LockTx(l)
    BY <2>1, <2>2 DEF LockTx, LockIsFree
  <2>3. CASE UnlockTx(l)
    BY <2>1, <2>3 DEF UnlockTx
  <2>4. CASE CheckInited(l)
    BY <2>1, <2>4 DEF CheckInited
  <2>5. CASE BuildPacket(l)
    BY <2>1, <2>5 DEF BuildPacket, lockVars
  <2>6. CASE ~LockTx(l) /\ ~UnlockTx(l) /\ ~CheckInited(l) /\ ~BuildPacket(l)
    <3>1. UNCHANGED tx_lock
      BY <1>3, <2>6 DEF lockVars, Lcore, LcoreStart, LoopTurn, RxBurst, RxCount, TxDue, TxGet,
                        TxBurst, TxCount, TxPutBack
    <3>2. \E w \in {"exited", "loop", "lock", "due", "rx", "rxcount", "get", "burst", "txcount",
                    "putback"} : lpc' = [lpc EXCEPT ![l] = w]
      <4>1. CASE LcoreStart(l)
        <5>1. CASE mode(l) = "UNKNOWN"
          BY <4>1, <5>1 DEF LcoreStart
        <5>2. CASE mode(l) # "UNKNOWN"
          BY <4>1, <5>2 DEF LcoreStart
        <5> QED BY <5>1, <5>2
      <4>2. CASE LoopTurn(l) \/ RxBurst(l) \/ RxCount(l)
        BY <4>2 DEF LoopTurn, RxBurst, RxCount, NextTurn, AfterRx
      <4>3. CASE TxDue(l) \/ TxGet(l) \/ TxBurst(l) \/ TxCount(l) \/ TxPutBack(l)
        BY <4>3 DEF TxDue, TxGet, TxBurst, TxCount, TxPutBack
      <4> QED BY <1>3, <2>6, <4>1, <4>2, <4>3 DEF Lcore
    <3> QED BY <2>1, <3>1, <3>2
  <2> QED BY <2>2, <2>3, <2>4, <2>5, <2>6
<1> QED BY <1>1, <1>2, <1>3 DEF Next

(* The packets of a port are built once, before its mbufs leave the pool.  *)
LEMMA BuiltKept ==
  ASSUME PktperfInv, Next
  PROVE  BuiltOnce'
<1> USE DEF PktperfInv
<1>1. CASE initialize_dpdk \/ Launch
  <2>1. /\ \A l \in Lcores : lpc[l] = "off" /\ lpc'[l] \in {"off", "start"}
        /\ UNCHANGED <<built, tx_inited, tx_mp, ring>>
        /\ \A p \in PortSlots : tx_mp[p] = Mbufs
        /\ \A p \in PortSlots, q \in Qids : ring[<<p, q>>] = {}
    BY <1>1 DEF initialize_dpdk, Launch, PhasesInOrder, HeldOnlyInBursts, poolVars, lockVars
  <2> QED BY <2>1 DEF BuiltOnce, Ready
<1>2. ASSUME UNCHANGED <<lpc, lports, tx_inited, built>>,
             \A p \in PortSlots : tx_mp'[p] \in SUBSET Mbufs /\ tx_mp[p] \subseteq tx_mp'[p],
             \A p \in PortSlots, q \in Qids : ring'[<<p, q>>] \subseteq ring[<<p, q>>]
      PROVE  BuiltOnce'
  <2>1. \A l \in Lcores : port(l) \in PortSlots
    BY DEF TypeOK, ConfigTypeOK, Lport, port
  <2>2. \A k \in Lcores : Tx(k)' = Tx(k) /\ port(k)' = port(k) /\ lpc'[k] = lpc[k]
    BY <1>2 DEF Tx, port
  <2>3. \A p \in PortSlots : tx_mp[p] = Mbufs => tx_mp'[p] = Mbufs
    BY <1>2
  <2>4. BuiltOnce!1' /\ BuiltOnce!2' /\ BuiltOnce!5'
    BY <1>2, <2>2 DEF BuiltOnce
  <2>5. BuiltOnce!3' /\ BuiltOnce!4'
    BY <1>2, <2>1, <2>2, <2>3 DEF BuiltOnce
  <2> QED BY <2>4, <2>5 DEF BuiltOnce
<1>3. CASE \/ Main /\ ~initialize_dpdk /\ ~Launch
           \/ signal_handler
           \/ \E pq \in PQ : PacketArrives(pq)
  <2>1. UNCHANGED <<lpc, lports, tx_inited, built, tx_mp, ring>>
    BY <1>3, LcoresKept, PoolsKept
  <2> QED BY <2>1, <1>2 DEF TypeOK
<1>4. ASSUME NEW pq \in PQ, Transmitted(pq) PROVE BuiltOnce'
  <2>1. UNCHANGED <<lpc, lports, tx_inited, built>>
    BY <1>4, LcoresKept
  <2>2. /\ pq[1] \in PortSlots /\ ring \in [PQ -> SUBSET Mbufs]
        /\ tx_mp \in [PortSlots -> SUBSET Mbufs]
    BY DEF PQ, TypeOK
  <2>3. \A p \in PortSlots : tx_mp'[p] \in SUBSET Mbufs /\ tx_mp[p] \subseteq tx_mp'[p]
    BY <1>4, <2>2 DEF Transmitted
  <2>4. \A p \in PortSlots, q \in Qids : ring'[<<p, q>>] \subseteq ring[<<p, q>>]
    <3> SUFFICES ASSUME NEW p \in PortSlots, NEW q \in Qids
                 PROVE  ring'[<<p, q>>] \subseteq ring[<<p, q>>]
      OBVIOUS
    <3>1. <<p, q>> \in PQ
      BY DEF PQ
    <3> QED BY <3>1, <1>4, <2>2 DEF Transmitted
  <2> QED BY <2>1, <2>3, <2>4, <1>2
<1>5. ASSUME NEW l \in Lcores, Lcore(l) PROVE BuiltOnce'
  <2>1. /\ lpc \in [Lcores -> LcorePC] /\ tx_inited \in [PortSlots -> BOOLEAN]
        /\ built \in [PortSlots -> SUBSET Mbufs] /\ tx_mp \in [PortSlots -> SUBSET Mbufs]
        /\ ring \in [PQ -> SUBSET Mbufs] /\ held \in [Lcores -> SUBSET Mbufs]
        /\ \A k \in Lcores : port(k) \in PortSlots
    BY DEF TypeOK, ConfigTypeOK, Lport, port
  <2>2. UNCHANGED lports
    BY <1>5, LcoreMoves
  <2> DEFINE Own(p) == p = port(l) /\ Tx(l) /\ lpc[l] \in Ready
             Moved(w) == /\ lpc' = [lpc EXCEPT ![l] = w] /\ w # "build" /\ lpc[l] # "build"
                         /\ Tx(l) /\ w \in Ready => lpc[l] \in Ready
             PoolKept == \A p \in PortSlots : /\ tx_mp'[p] \in SUBSET Mbufs
                                              /\ tx_mp[p] \subseteq tx_mp'[p] \/ Own(p)
             RingsKept == \A p \in PortSlots, q \in Qids :
                            \/ ring'[<<p, q>>] \subseteq ring[<<p, q>>]
                            \/ Own(p) /\ ring'[<<p, q>>] \subseteq Mbufs
  <2>3. ASSUME NEW w, Moved(w), UNCHANGED <<tx_inited, built>>, PoolKept, RingsKept
        PROVE  BuiltOnce'
    <3>1. \A k \in Lcores : Tx(k)' = Tx(k) /\ port(k)' = port(k)
      BY <2>2 DEF Tx, port
    <3>2. \A k \in Lcores : lpc'[k] = IF k = l THEN w ELSE lpc[k]
      BY <2>1, <2>3
    <3>3. \A k \in Lcores : Tx(k) /\ lpc'[k] \in Ready => lpc[k] \in Ready
      BY <2>3, <3>2
    <3>4. \A k \in Lcores : lpc'[k] = "build" <=> lpc[k] = "build"
      BY <2>3, <3>2
    <3>5. BuiltOnce!1' /\ BuiltOnce!2'
      BY <2>3, <3>1, <3>3, <3>4 DEF BuiltOnce
    <3>6. BuiltOnce!3' /\ BuiltOnce!4'
      <4>1. \A p \in PortSlots : tx_mp[p] = Mbufs /\ ~(p = port(l) /\ Tx(l) /\ lpc[l] \in Ready) =>
              tx_mp'[p] = Mbufs
        BY <2>3
      <4>2. BuiltOnce!3'
        BY <2>1, <2>3, <3>1, <3>4, <4>1 DEF BuiltOnce
      <4>3. BuiltOnce!4'
        BY <2>1, <2>3, <3>1, <3>4, <4>1 DEF BuiltOnce
      <4> QED BY <4>2, <4>3
    <3>7. BuiltOnce!5'
      BY <2>1, <2>3 DEF BuiltOnce
    <3> QED BY <3>5, <3>6, <3>7 DEF BuiltOnce
  <2>4. /\ UNCHANGED tx_mp => PoolKept
        /\ UNCHANGED ring => RingsKept
    BY <2>1
  <2> HIDE DEF PoolKept, RingsKept
  <2> USE DEF Goto, poolVars, lockVars
  <2>5. CASE LcoreStart(l)
    <3>1. \E w \in {"exited", "loop", "lock"} :
            lpc' = [lpc EXCEPT ![l] = w] /\ (w \in Ready => ~Tx(l))
      <4>1. CASE mode(l) = "UNKNOWN"
        <5>1. lpc' = [lpc EXCEPT ![l] = "exited"]
          BY <2>5, <4>1 DEF LcoreStart
        <5> QED BY <5>1, <4>1 DEF Tx, mode
      <4>2. CASE mode(l) = "RX"
        <5>1. lpc' = [lpc EXCEPT ![l] = "loop"]
          BY <2>5, <4>2 DEF LcoreStart
        <5> QED BY <5>1, <4>2 DEF Tx, mode
      <4>3. CASE mode(l) \notin {"UNKNOWN", "RX"}
        <5>1. lpc' = [lpc EXCEPT ![l] = "lock"]
          BY <2>5, <4>3 DEF LcoreStart
        <5> QED BY <5>1 DEF Ready
      <4> QED BY <4>1, <4>2, <4>3
    <3>2. PICK w \in {"exited", "loop", "lock"} :
            lpc' = [lpc EXCEPT ![l] = w] /\ (w \in Ready => ~Tx(l))
      BY <3>1
    <3>3. Moved(w)
      BY <2>5, <3>2 DEF LcoreStart
    <3> QED BY <2>5, <3>3, <2>3, <2>4 DEF LcoreStart
  <2>6. CASE LockTx(l)
    <3>1. Moved("check")
      BY <2>6 DEF LockTx, Ready
    <3> QED BY <2>6, <3>1, <2>3, <2>4 DEF LockTx
  <2>7. CASE UnlockTx(l) \/ LoopTurn(l) \/ RxBurst(l) \/ RxCount(l) \/ TxDue(l) \/ TxCount(l)
    <3>1. UNCHANGED <<tx_inited, built, tx_mp, ring>> /\ lpc[l] \in Ready \ {"build"}
      BY <2>7 DEF UnlockTx, LoopTurn, RxBurst, RxCount, TxDue, TxCount, Ready
    <3>2. \E w \in Ready \ {"build"} : lpc' = [lpc EXCEPT ![l] = w]
      BY <2>7 DEF UnlockTx, LoopTurn, RxBurst, RxCount, TxDue, TxCount, Ready, NextTurn, AfterRx
    <3>3. PICK w \in Ready \ {"build"} : lpc' = [lpc EXCEPT ![l] = w]
      BY <3>2
    <3>4. Moved(w)
      BY <3>1, <3>3
    <3> QED BY <3>1, <3>4, <2>3, <2>4
  <2>8. CASE TxGet(l)
    <3>1. lpc[l] \in Ready \ {"build"} /\ Tx(l) /\ UNCHANGED <<tx_inited, built, ring>>
      BY <2>8 DEF TxGet, Ready, ModesMatch, Transmits
    <3>2. \E w \in Ready \ {"build"} : lpc' = [lpc EXCEPT ![l] = w]
      BY <2>8 DEF TxGet, Ready
    <3>3. \A p \in PortSlots : /\ tx_mp'[p] \in SUBSET Mbufs
                               /\ p # port(l) => tx_mp[p] \subseteq tx_mp'[p]
      BY <2>8, <2>1 DEF TxGet
    <3>4. PICK w \in Ready \ {"build"} : lpc' = [lpc EXCEPT ![l] = w]
      BY <3>2
    <3>5. Moved(w) /\ PoolKept
      BY <3>1, <3>3, <3>4 DEF PoolKept
    <3> QED BY <3>1, <3>5, <2>3, <2>4
  <2>9. CASE TxBurst(l)
    <3>1. /\ lpc[l] \in Ready \ {"build"} /\ Tx(l) /\ UNCHANGED <<tx_inited, built, tx_mp>>
      BY <2>9 DEF TxBurst, Ready, ModesMatch, Transmits
    <3>2. \E w \in Ready \ {"build"} : lpc' = [lpc EXCEPT ![l] = w]
      BY <2>9 DEF TxBurst, Ready
    <3>3. ASSUME NEW p \in PortSlots, NEW q \in Qids
          PROVE  ring'[<<p, q>>] \subseteq ring[<<p, q>>]
                 \/ (p = port(l) /\ ring'[<<p, q>>] \subseteq Mbufs)
      <4>1. PICK ms \in SUBSET held[l] : ring' = [ring EXCEPT ![txpq(l)] = @ \union ms]
        BY <2>9 DEF TxBurst
      <4>2. <<p, q>> \in PQ
        BY DEF PQ
      <4>3. CASE <<p, q>> = txpq(l)
        <5>1. p = port(l)
          BY <4>3 DEF txpq
        <5> QED BY <4>1, <4>2, <4>3, <5>1, <2>1
      <4>4. CASE <<p, q>> # txpq(l)
        BY <4>1, <4>2, <4>4, <2>1
      <4> QED BY <4>3, <4>4
    <3>4. PICK w \in Ready \ {"build"} : lpc' = [lpc EXCEPT ![l] = w]
      BY <3>2
    <3>5. Moved(w) /\ RingsKept
      BY <3>1, <3>3, <3>4 DEF RingsKept
    <3> QED BY <3>1, <3>5, <2>3, <2>4
  <2>10. CASE TxPutBack(l)
    <3>1. lpc[l] \in Ready \ {"build"} /\ UNCHANGED <<tx_inited, built, ring>>
      BY <2>10 DEF TxPutBack, Ready
    <3>2. lpc' = [lpc EXCEPT ![l] = "loop"]
      BY <2>10 DEF TxPutBack
    <3>3. \A p \in PortSlots : tx_mp'[p] \in SUBSET Mbufs /\ tx_mp[p] \subseteq tx_mp'[p]
      BY <2>10, <2>1 DEF TxPutBack, PutBack
    <3>4. Moved("loop") /\ PoolKept
      BY <3>1, <3>2, <3>3 DEF PoolKept
    <3> QED BY <3>1, <3>4, <2>3, <2>4
  <2>11. \A k \in Lcores : Tx(k)' = Tx(k) /\ port(k)' = port(k)
    BY <2>2 DEF Tx, port
  <2>12. ASSUME NEW k \in Lcores, k # l, port(k) = port(l), lpc[l] \in {"check", "build"}
         PROVE  lpc[k] # "build"
    BY <2>12 DEF LockHeld
  <2>13. CASE CheckInited(l)
    <3>1. /\ lpc[l] = "check" /\ Tx(l) /\ UNCHANGED <<built, tx_mp, ring>>
          /\ tx_inited' = [tx_inited EXCEPT ![port(l)] = TRUE]
      BY <2>13 DEF CheckInited, ModesMatch, Transmits
    <3>2. CASE tx_inited[port(l)]
      <4>1. lpc' = [lpc EXCEPT ![l] = "unlock"] /\ tx_inited' = tx_inited
        BY <2>13, <3>1, <3>2, <2>1 DEF CheckInited
      <4>2. built[port(l)] = Mbufs
        BY <3>1, <3>2, <2>1, <2>12 DEF BuiltOnce
      <4>3. \A k \in Lcores : lpc'[k] = "build" <=> lpc[k] = "build"
        BY <4>1, <3>1, <2>1
      <4>4. BuiltOnce!1' /\ BuiltOnce!3' /\ BuiltOnce!4' /\ BuiltOnce!5'
        BY <2>1, <2>11, <3>1, <3>2, <4>1, <4>2, <4>3 DEF BuiltOnce
      <4>5. BuiltOnce!2'
        BY <2>1, <2>11, <2>12, <3>1, <4>1, <4>3 DEF BuiltOnce
      <4> QED BY <4>4, <4>5 DEF BuiltOnce
    <3>3. CASE ~tx_inited[port(l)]
      <4>1. lpc' = [lpc EXCEPT ![l] = "build"]
        BY <2>13, <3>3 DEF CheckInited
      <4>2. \A k \in Lcores : Tx(k) /\ port(k) = port(l) => lpc[k] \notin Ready
        BY <3>3 DEF BuiltOnce
      <4>3. tx_mp[port(l)] = Mbufs
        BY <3>3, <2>1 DEF BuiltOnce
      <4>4. BuiltOnce!1' /\ BuiltOnce!5'
        BY <2>1, <2>11, <3>1, <4>1 DEF BuiltOnce, Ready
      <4>5. BuiltOnce!2'
        BY <2>1, <2>11, <3>1, <4>1, <4>2 DEF BuiltOnce, Ready
      <4>6. BuiltOnce!3' /\ BuiltOnce!4'
        BY <2>1, <2>11, <3>1, <4>1, <4>3 DEF BuiltOnce
      <4> QED BY <4>4, <4>5, <4>6 DEF BuiltOnce
    <3> QED BY <3>2, <3>3
  <2>14. CASE BuildPacket(l)
    <3>1. /\ lpc[l] = "build" /\ Tx(l) /\ UNCHANGED <<tx_inited, tx_mp, ring>>
      BY <2>14 DEF BuildPacket, ModesMatch, Transmits
    <3>2. CASE built[port(l)] = Mbufs
      <4>1. lpc' = [lpc EXCEPT ![l] = "unlock"] /\ built' = built
        BY <2>14, <3>2 DEF BuildPacket
      <4>2. BuiltOnce!1' /\ BuiltOnce!4' /\ BuiltOnce!5'
        BY <2>1, <2>11, <3>1, <3>2, <4>1 DEF BuiltOnce
      <4>3. BuiltOnce!2'
        BY <2>1, <2>11, <2>12, <3>1, <4>1 DEF BuiltOnce
      <4>4. BuiltOnce!3'
        BY <2>1, <2>11, <3>1, <3>2, <4>1 DEF BuiltOnce
      <4> QED BY <4>2, <4>3, <4>4 DEF BuiltOnce
    <3>3. CASE built[port(l)] # Mbufs
      <4>1. UNCHANGED lpc /\ \E m \in Mbufs : built' = [built EXCEPT ![port(l)] = @ \union {m}]
        BY <2>14, <3>3 DEF BuildPacket, packet_constructor
      <4>2. \A p \in PortSlots : built[p] \subseteq built'[p] /\ built'[p] \subseteq Mbufs
        BY <4>1, <2>1
      <4>3. BuiltOnce!1' /\ BuiltOnce!2' /\ BuiltOnce!4' /\ BuiltOnce!5'
        BY <2>1, <2>11, <3>1, <4>1, <4>2 DEF BuiltOnce
      <4>4. BuiltOnce!3'
        BY <2>1, <2>11, <3>1, <4>1, <4>2 DEF BuiltOnce
      <4> QED BY <4>3, <4>4 DEF BuiltOnce
    <3> QED BY <3>2, <3>3
  <2> QED BY <1>5, <2>5, <2>6, <2>7, <2>8, <2>9, <2>10, <2>13, <2>14 DEF Lcore
<1> QED BY <1>1, <1>3, <1>4, <1>5 DEF Next

-----------------------------------------------------------------------------
(* Every mbuf of a port stays in one place. *)
LEMMA MbufsKept ==
  ASSUME PktperfInv, Next
  PROVE  NoneLost' /\ NoneTwice' /\ HeldOnlyInBursts'
<1> USE DEF PktperfInv
<1>1. /\ tx_mp \in [PortSlots -> SUBSET Mbufs] /\ held \in [Lcores -> SUBSET Mbufs]
      /\ ring \in [PQ -> SUBSET Mbufs] /\ lpc \in [Lcores -> LcorePC]
      /\ \A k \in Lcores : port(k) \in PortSlots
  BY DEF TypeOK, ConfigTypeOK, Lport, port
<1>2. \A p \in PortSlots, q \in Qids : <<p, q>> \in PQ
  BY DEF PQ
<1>3. CASE initialize_dpdk
  <2>1. /\ mpc = "boot" /\ UNCHANGED <<mpc, lpc, tx_mp, held, ring>>
    BY <1>3 DEF initialize_dpdk, mainVars, poolVars
  <2>2. /\ \A k \in Lcores : held[k] = {}
        /\ \A p \in PortSlots : tx_mp[p] = Mbufs
        /\ \A p \in PortSlots, q \in Qids : ring[<<p, q>>] = {}
    BY <2>1 DEF PhasesInOrder, HeldOnlyInBursts
  <2> QED BY <2>1, <2>2 DEF NoneLost, NoneTwice, HeldOnlyInBursts
<1>4. ASSUME UNCHANGED <<lports, tx_mp, ring, held>> PROVE NoneLost' /\ NoneTwice'
  BY <1>4 DEF NoneLost, NoneTwice, Tx, port
<1>5. CASE /\ ~initialize_dpdk
           /\ Main \/ signal_handler \/ \E pq \in PQ : PacketArrives(pq)
  <2>1. UNCHANGED <<tx_mp, ring, held>>
    BY <1>5, PoolsKept
  <2>2. UNCHANGED lports
    BY <1>5, ConfigKept DEF Next, configVars
  <2>3. mpc' \in {"boot", "launch"} => mpc \in {"boot", "launch"}
    BY <1>5 DEF Main, Configured, InitFails, Launch, PrintLink, PrintRate, PrintCopy, PrintPort,
                StatsLoop, WaitLcores, ClosePort, signal_handler, PacketArrives, mainVars
  <2>4. HeldOnlyInBursts'
    <3>1. CASE Launch
      <4>1. \A k \in Lcores : held[k] = {}
        BY <3>1 DEF Launch, PhasesInOrder, HeldOnlyInBursts
      <4> QED BY <2>1, <2>3, <4>1 DEF HeldOnlyInBursts
    <3>2. CASE ~Launch
      <4>1. UNCHANGED lpc
        BY <1>5, <3>2, LcoresKept
      <4> QED BY <2>1, <2>3, <4>1 DEF HeldOnlyInBursts
    <3> QED BY <3>1, <3>2
  <2> QED BY <2>1, <2>2, <2>4, <1>4
<1>6. ASSUME NEW pq \in PQ, Transmitted(pq) PROVE NoneLost' /\ NoneTwice' /\ HeldOnlyInBursts'
  <2>1. PICK m \in ring[pq] : /\ ring' = [ring EXCEPT ![pq] = @ \ {m}]
                              /\ tx_mp' = [tx_mp EXCEPT ![pq[1]] = @ \union {m}]
    BY <1>6 DEF Transmitted
  <2>2. PICK p \in PortSlots, q \in Qids : pq = <<p, q>>
    BY DEF PQ
  <2>3. UNCHANGED <<lports, lpc, held, mpc>>
    BY <1>6 DEF Transmitted, ctlVars, configVars, mainVars
  <2>4. \A k \in Lcores : Tx(k)' = Tx(k) /\ port(k)' = port(k)
    BY <2>3 DEF Tx, port
  <2>5. /\ m \in Mbufs
        /\ \A o \in PortSlots : tx_mp'[o] = IF o = p THEN tx_mp[p] \union {m} ELSE tx_mp[o]
        /\ \A o \in PortSlots, r \in Qids :
             ring'[<<o, r>>] = IF o = p /\ r = q THEN ring[<<p, q>>] \ {m} ELSE ring[<<o, r>>]
    BY <1>1, <1>2, <2>1, <2>2
  <2>6. NoneLost'
    BY ZenonT(60), <2>3, <2>4, <2>5 DEF NoneLost
  <2>7. NoneTwice'
    BY <2>1, <2>2, <2>3, <2>4, <2>5 DEF NoneTwice
  <2>8. HeldOnlyInBursts'
    BY <2>1, <2>2, <2>3, <2>5 DEF HeldOnlyInBursts
  <2> QED BY <2>6, <2>7, <2>8
<1>7. ASSUME NEW l \in Lcores, Lcore(l) PROVE NoneLost' /\ NoneTwice' /\ HeldOnlyInBursts'
  <2>1. UNCHANGED lports /\ UNCHANGED mpc /\ lpc[l] \notin {"off", "exited"}
    BY <1>7, LcoreMoves
  <2>2. mpc \notin {"boot", "launch"} /\ Usable
    BY <2>1 DEF PhasesInOrder
  <2>3. \A k \in Lcores : Tx(k)' = Tx(k) /\ port(k)' = port(k)
    BY <2>1 DEF Tx, port
  <2>4. CASE TxGet(l)
    <3>1. Tx(l) /\ held[l] = {}
      BY <2>4 DEF TxGet, ModesMatch, Transmits, HeldOnlyInBursts
    <3>2. UNCHANGED ring
      BY <2>4 DEF TxGet
    <3>3. CASE UNCHANGED <<held, tx_mp>>
      <4>1. \A k \in Lcores : k # l => lpc'[k] = lpc[k]
        BY <2>4, <1>1 DEF TxGet, Goto
      <4>2. HeldOnlyInBursts'
        BY <2>1, <2>2, <3>1, <3>3, <4>1 DEF HeldOnlyInBursts
      <4> QED BY <2>1, <3>2, <3>3, <4>2, <1>4
    <3>4. CASE \E ms \in SUBSET tx_mp[port(l)] :
                 /\ held' = [held EXCEPT ![l] = ms]
                 /\ tx_mp' = [tx_mp EXCEPT ![port(l)] = @ \ ms]
                 /\ lpc' = [lpc EXCEPT ![l] = "burst"]
      <4>1. PICK ms \in SUBSET tx_mp[port(l)] :
                 /\ held' = [held EXCEPT ![l] = ms]
                 /\ tx_mp' = [tx_mp EXCEPT ![port(l)] = @ \ ms]
                 /\ lpc' = [lpc EXCEPT ![l] = "burst"]
        BY <3>4
      <4>2. /\ \A k \in Lcores : held'[k] = IF k = l THEN ms ELSE held[k]
            /\ \A k \in Lcores : lpc'[k] = IF k = l THEN "burst" ELSE lpc[k]
            /\ \A o \in PortSlots : tx_mp'[o] = IF o = port(l) THEN tx_mp[o] \ ms ELSE tx_mp[o]
        BY <4>1, <1>1
      <4>3. NoneLost'
        BY ZenonT(60), <2>3, <3>1, <3>2, <4>2 DEF NoneLost
      <4>4. NoneTwice'
        BY <2>3, <3>1, <3>2, <4>1, <4>2 DEF NoneTwice
      <4>5. HeldOnlyInBursts'
        BY <2>1, <2>2, <4>2 DEF HeldOnlyInBursts
      <4> QED BY <4>3, <4>4, <4>5
    <3> QED BY <2>4, <3>3, <3>4 DEF TxGet, Goto
  <2>5. CASE TxBurst(l)
    <3>1. Tx(l)
      BY <2>5 DEF TxBurst, ModesMatch, Transmits
    <3>2. PICK ms \in SUBSET held[l] : TxBurst(l)!2!(ms)
      BY <2>5 DEF TxBurst
    <3> DEFINE qid == lports[l].tx_qid
    <3>3. qid \in Qids /\ txpq(l) = <<port(l), qid>>
      BY <2>2, <3>1 DEF Usable, Tx, txpq
    <3>4. UNCHANGED tx_mp
      BY <2>5 DEF TxBurst
    <3> HIDE DEF qid
    <3>5. /\ \A k \in Lcores : held'[k] = IF k = l THEN held[l] \ ms ELSE held[k]
          /\ \A o \in PortSlots, r \in Qids :
               ring'[<<o, r>>] = IF o = port(l) /\ r = qid THEN ring[<<o, r>>] \union ms
                                 ELSE ring[<<o, r>>]
          /\ \A k \in Lcores : k # l => lpc'[k] = lpc[k]
          /\ lpc'[l] = IF ms = held[l] THEN "txcount" ELSE "putback"
      <4>1. /\ \A k \in Lcores : held'[k] = IF k = l THEN held[l] \ ms ELSE held[k]
            /\ \A k \in Lcores : k # l => lpc'[k] = lpc[k]
            /\ lpc'[l] = IF ms = held[l] THEN "txcount" ELSE "putback"
        BY <3>2, <1>1 DEF Goto
      <4>2. ASSUME NEW o \in PortSlots, NEW r \in Qids
            PROVE  ring'[<<o, r>>] = IF o = port(l) /\ r = qid THEN ring[<<o, r>>] \union ms
                                     ELSE ring[<<o, r>>]
        <5>1. ring' = [ring EXCEPT ![<<port(l), qid>>] = @ \union ms]
          BY <3>2, <3>3
        <5>2. <<o, r>> \in PQ
          BY <1>2
        <5> QED BY <5>1, <5>2, <1>1
      <4> QED BY <4>1, <4>2
    <3>6. NoneLost'
      <4> SUFFICES ASSUME NEW p \in PortSlots, NEW m \in Mbufs PROVE NoneLost!(p, m)'
        BY DEF NoneLost
      <4>1. CASE p = port(l) /\ m \in held[l]
        <5>1. CASE m \in ms
          <6>1. m \in ring'[<<p, qid>>]
            BY <4>1, <5>1, <3>3, <3>5
          <6> QED BY <6>1, <3>3
        <5>2. CASE m \notin ms
          <6>1. m \in held'[l] /\ Tx(l)' /\ port(l)' = p
            BY <4>1, <5>2, <2>3, <3>1, <3>5
          <6> QED BY <6>1
        <5> QED BY <5>1, <5>2
      <4>2. CASE ~(p = port(l) /\ m \in held[l])
        <5>1. CASE m \in tx_mp[p]
          BY <5>1, <3>4
        <5>2. CASE \E k \in Lcores : Tx(k) /\ port(k) = p /\ m \in held[k]
          <6>1. PICK k \in Lcores : Tx(k) /\ port(k) = p /\ m \in held[k]
            BY <5>2
          <6>2. k # l /\ held'[k] = held[k] /\ Tx(k)' /\ port(k)' = p
            BY <4>2, <6>1, <2>3, <3>5
          <6> QED BY <6>1, <6>2
        <5>3. CASE \E q \in Qids : m \in ring[<<p, q>>]
          <6>1. PICK q \in Qids : m \in ring[<<p, q>>]
            BY <5>3
          <6>2. m \in ring'[<<p, q>>]
            BY <6>1, <3>5
          <6> QED BY <6>2
        <5> QED BY <5>1, <5>2, <5>3 DEF NoneLost
      <4> QED BY <4>1, <4>2
    <3>7. NoneTwice'
      <4> SUFFICES ASSUME NEW p \in PortSlots, NEW m \in Mbufs PROVE NoneTwice!(p, m)'
        BY DEF NoneTwice
      <4>1. NoneTwice!(p, m)
        BY DEF NoneTwice
      <4>2. CASE p = port(l) /\ m \in ms
        <5>1. m \in held[l] /\ m \notin tx_mp[p]
              /\ (\A k \in Lcores : Tx(k) /\ port(k) = p /\ m \in held[k] => k = l)
              /\ (\A q \in Qids : m \notin ring[<<p, q>>])
          BY <4>1, <4>2, <3>1
        <5>2. \A k \in Lcores : Tx(k)' /\ port(k)' = p => m \notin held'[k]
          BY <4>2, <5>1, <2>3, <3>5
        <5>3. \A q \in Qids : m \in ring'[<<p, q>>] => q = qid
          BY <5>1, <3>5
        <5> QED BY <5>1, <5>2, <5>3, <3>4
      <4>3. CASE ~(p = port(l) /\ m \in ms)
        <5>1. \A q \in Qids : m \in ring'[<<p, q>>] <=> m \in ring[<<p, q>>]
          BY <4>3, <3>5
        <5> QED BY <4>1, <4>3, <5>1, <2>3, <3>4, <3>5
      <4> QED BY <4>2, <4>3
    <3>8. HeldOnlyInBursts'
      BY <2>1, <2>2, <3>5 DEF HeldOnlyInBursts
    <3> QED BY <3>6, <3>7, <3>8
  <2>6. CASE TxPutBack(l)
    <3>1. Tx(l)
      BY <2>6 DEF TxPutBack, ModesMatch, Transmits
    <3>2. UNCHANGED ring
      BY <2>6 DEF TxPutBack
    <3>3. /\ \A k \in Lcores : held'[k] = IF k = l THEN {} ELSE held[k]
          /\ \A o \in PortSlots :
               tx_mp'[o] = IF o = port(l) THEN tx_mp[o] \union held[l] ELSE tx_mp[o]
          /\ \A k \in Lcores : k # l => lpc'[k] = lpc[k]
      BY <2>6, <1>1 DEF TxPutBack, PutBack, Goto
    <3>4. NoneLost'
      BY ZenonT(60), <2>3, <3>1, <3>2, <3>3 DEF NoneLost
    <3>5. NoneTwice'
      <4> SUFFICES ASSUME NEW p \in PortSlots, NEW m \in Mbufs PROVE NoneTwice!(p, m)'
        BY DEF NoneTwice
      <4>1. NoneTwice!(p, m)
        BY DEF NoneTwice
      <4>2. CASE p = port(l) /\ m \in held[l]
        BY <4>1, <4>2, <2>3, <3>1, <3>2, <3>3
      <4>3. CASE ~(p = port(l) /\ m \in held[l])
        <5>1. m \in tx_mp'[p] <=> m \in tx_mp[p]
          BY <4>3, <3>3
        <5> QED BY <4>1, <4>3, <5>1, <2>3, <3>2, <3>3
      <4> QED BY <4>2, <4>3
    <3>6. HeldOnlyInBursts'
      BY <2>1, <2>2, <3>3 DEF HeldOnlyInBursts
    <3> QED BY <3>4, <3>5, <3>6
  <2>7. CASE ~TxGet(l) /\ ~TxBurst(l) /\ ~TxPutBack(l)
    <3>1. UNCHANGED <<tx_mp, held, ring>> /\ lpc[l] \notin {"burst", "putback"}
      BY <1>7, <2>7 DEF Lcore, LcoreStart, LockTx, CheckInited, BuildPacket, UnlockTx, LoopTurn,
                        RxBurst, RxCount, TxDue, TxCount, poolVars
    <3>2. \A k \in Lcores : k # l => lpc'[k] = lpc[k]
      BY <1>7, <1>1, LcoreMoves
    <3>3. HeldOnlyInBursts'
      BY <2>1, <2>2, <3>1, <3>2 DEF HeldOnlyInBursts
    <3> QED BY <2>1, <3>1, <3>3, <1>4
  <2> QED BY <2>4, <2>5, <2>6, <2>7
<1> QED BY <1>3, <1>5, <1>6, <1>7 DEF Next

-----------------------------------------------------------------------------
(* All mbufs are in their pools when the program starts. *)
LEMMA InitOK == Init => PktperfInv
<1> SUFFICES ASSUME Init PROVE PktperfInv
  OBVIOUS
<1>1. ConfigInv /\ ConfigTypeOK
  BY ConfigInitOK DEF Init, ConfigInv
<1>2. 0 \in PortSlots /\ 0 \in Ports /\ Zero \in Counters /\ Zero.q_opackets = 0
  BY PortsAreSlots DEF Zero, Counters
<1>3. TypeOK
  BY <1>1, <1>2 DEF Init, TypeOK, LcorePC
<1>4. CountsGrow
  BY <1>2 DEF Init, CountsGrow
<1>5. PhasesInOrder /\ ModesMatch /\ LockHeld
  BY DEF Init, PhasesInOrder, ModesMatch, LockHeld, Transmits
<1>6. \A p \in PortSlots, q \in Qids : ring[<<p, q>>] = {}
  BY DEF Init, PQ
<1>7. \A k \in Lcores : port(k) \in PortSlots
  BY <1>1 DEF ConfigTypeOK, Lport, port
<1>8. BuiltOnce
  BY <1>6, <1>7 DEF Init, BuiltOnce, Ready
<1>9. NoneLost /\ NoneTwice /\ HeldOnlyInBursts
  BY <1>6, <1>7 DEF Init, NoneLost, NoneTwice, HeldOnlyInBursts
<1> QED BY <1>1, <1>3, <1>4, <1>5, <1>8, <1>9 DEF PktperfInv

(* A step of main or of an lcore thread keeps each part of the invariant. *)
LEMMA NextOK == PktperfInv /\ [Next]_vars => PktperfInv'
<1> SUFFICES ASSUME PktperfInv, [Next]_vars PROVE PktperfInv'
  OBVIOUS
<1>1. ConfigInv'
  BY ConfigInvKept DEF PktperfInv
<1>2. CASE Next
  BY <1>1, <1>2, TypesKept, PhasesKept, LockKept, BuiltKept, MbufsKept DEF PktperfInv
<1>3. CASE UNCHANGED vars
  <2> USE <1>3 DEF PktperfInv, vars, mainVars, ctlVars, configVars, lockVars, poolVars, rxVars,
                   statVars
  <2>1. TypeOK' /\ CountsGrow'
    BY <1>1 DEF TypeOK, CountsGrow, ConfigInv
  <2>2. PhasesInOrder' /\ ModesMatch' /\ LockHeld'
    BY DEF PhasesInOrder, ModesMatch, LockHeld, Usable, Rx, Tx, port, mode
  <2>3. BuiltOnce'
    BY DEF BuiltOnce, Tx, port
  <2>4. NoneLost'
    BY DEF NoneLost, Tx, port
  <2>5. NoneTwice'
    BY DEF NoneTwice, Tx, port
  <2>6. HeldOnlyInBursts'
    BY DEF HeldOnlyInBursts
  <2> QED BY <1>1, <2>1, <2>2, <2>3, <2>4, <2>5, <2>6
<1> QED BY <1>2, <1>3

(* The invariant holds throughout. *)
LEMMA PktperfInvariant == Spec => []PktperfInv
BY InitOK, NextOK, PTL DEF Spec

(* The variables of the configuration, the threads and the ports keep      *)
(* their types; in particular no rate printed is negative.                 *)
THEOREM TypesHold == Spec => []TypeOK
<1>1. PktperfInv => TypeOK
  BY DEF PktperfInv
<1> QED BY <1>1, PktperfInvariant, PTL

(* parse_cores never gives a queue to two lcores, whatever the mappings.   *)
THEOREM NoQueueShared == Spec => []QueuesNotShared
<1>1. PktperfInv => QueuesNotShared
  BY DEF PktperfInv, ConfigInv
<1> QED BY <1>1, PktperfInvariant, PTL

(* port_setup leaves no started port without an Rx queue an lcore polls.   *)
THEOREM RxQueuesSetUp == Spec => []StartedPortsReceive
<1>1. PktperfInv => StartedPortsReceive
  <2> SUFFICES ASSUME PktperfInv, NEW c \in Lcores, Rx(c), lports[c].port \in started
               PROVE  lports[c].rx_qid \in rxset[lports[c].port]
    BY DEF StartedPortsReceive
  <2>1. /\ lports[c].rx_qid \in Nat /\ num_rx_qids[lports[c].port] \in Nat
        /\ lports[c].rx_qid < num_rx_qids[lports[c].port]
    BY DEF PktperfInv, ConfigInv, ConfigTypeOK, Lport, QidsCounted
  <2>2. lports[c].rx_qid \in 0..num_rx_qids[lports[c].port] - 1
    BY <2>1
  <2> QED BY <2>2 DEF PktperfInv, ConfigInv, SetupInOrder
<1> QED BY <1>1, PktperfInvariant, PTL

(* Three sets that hold every element of M, and no other, make up M. *)
LEMMA ThreePlaces ==
  ASSUME NEW A, NEW B, NEW C, NEW M, A \subseteq M, B \subseteq M, C \subseteq M,
         \A m \in M : m \in A \/ m \in B \/ m \in C
  PROVE  A \union B \union C = M
OBVIOUS

(* No mbuf of a port is lost or in two places, whatever the threads and    *)
(* the port do meanwhile.                                                  *)
THEOREM MbufsInOnePlace == Spec => []MbufsConserved
<1>1. PktperfInv => MbufsConserved
  <2> SUFFICES ASSUME PktperfInv, NEW p \in PortSlots PROVE MbufsConserved!(p)
    BY DEF MbufsConserved
  <2>1. /\ tx_mp[p] \in SUBSET Mbufs /\ held \in [Lcores -> SUBSET Mbufs]
        /\ ring \in [PQ -> SUBSET Mbufs]
    BY DEF PktperfInv, TypeOK
  <2>2. LcoresOf(p) = {l \in Lcores : Tx(l) /\ port(l) = p}
    BY DEF LcoresOf, Tx, mode
  <2>3. QueuesOf(p) = {<<p, q>> : q \in Qids}
    BY DEF QueuesOf, PQ
  <2>4. ASSUME NEW m \in Mbufs
        PROVE  /\ \/ m \in tx_mp[p]
                  \/ \E l \in LcoresOf(p) : m \in held[l]
                  \/ \E pq \in QueuesOf(p) : m \in ring[pq]
               /\ \A l \in LcoresOf(p) : m \in held[l] =>
                    /\ m \notin tx_mp[p]
                    /\ \A k \in LcoresOf(p) : m \in held[k] => k = l
                    /\ \A pq \in QueuesOf(p) : m \notin ring[pq]
               /\ \A pq \in QueuesOf(p) : m \in ring[pq] =>
                    /\ m \notin tx_mp[p]
                    /\ \A qq \in QueuesOf(p) : m \in ring[qq] => qq = pq
    <3>1. NoneLost!(p, m) /\ NoneTwice!(p, m)
      BY DEF PktperfInv, NoneLost, NoneTwice
    <3>2. ASSUME NEW q \in Qids PROVE <<p, q>> \in QueuesOf(p)
      BY <2>3
    <3>3. ASSUME NEW pq \in QueuesOf(p) PROVE \E q \in Qids : pq = <<p, q>>
      BY <2>3
    <3>4. \/ m \in tx_mp[p]
          \/ \E l \in LcoresOf(p) : m \in held[l]
          \/ \E pq \in QueuesOf(p) : m \in ring[pq]
      BY <3>1, <3>2, <2>2
    <3>5. \A l \in LcoresOf(p) : m \in held[l] =>
            /\ m \notin tx_mp[p]
            /\ \A k \in LcoresOf(p) : m \in held[k] => k = l
            /\ \A pq \in QueuesOf(p) : m \notin ring[pq]
      BY <3>1, <3>3, <2>2
    <3>6. \A pq \in QueuesOf(p) : m \in ring[pq] =>
            /\ m \notin tx_mp[p]
            /\ \A qq \in QueuesOf(p) : m \in ring[qq] => qq = pq
      BY <3>1, <3>3
    <3> QED BY <3>4, <3>5, <3>6
  <2>5. \A l \in LcoresOf(p) : held[l] \subseteq Mbufs
    BY <2>1, <2>2
  <2>6. \A pq \in QueuesOf(p) : ring[pq] \subseteq Mbufs
    BY <2>1 DEF QueuesOf
  <2>7. tx_mp[p] \union (UNION {held[l] : l \in LcoresOf(p)})
                 \union (UNION {ring[pq] : pq \in QueuesOf(p)}) = Mbufs
    <3> DEFINE H == {held[l] : l \in LcoresOf(p)}
               R == {ring[pq] : pq \in QueuesOf(p)}
    <3>1. UNION H \subseteq Mbufs /\ UNION R \subseteq Mbufs
      BY <2>5, <2>6
    <3>2. ASSUME NEW m \in Mbufs PROVE m \in tx_mp[p] \/ m \in UNION H \/ m \in UNION R
      BY <2>4
    <3> HIDE DEF H, R
    <3>3. tx_mp[p] \union (UNION H) \union (UNION R) = Mbufs
      BY <2>1, <3>1, <3>2, ThreePlaces
    <3> QED BY <3>3 DEF H, R
  <2>8. /\ \A l \in LcoresOf(p) : held[l] \intersect tx_mp[p] = {}
        /\ \A l, k \in LcoresOf(p) : l # k => held[l] \intersect held[k] = {}
    BY <2>4, <2>5
  <2>9. \A pq \in QueuesOf(p) :
          /\ ring[pq] \intersect tx_mp[p] = {}
          /\ \A l \in LcoresOf(p) : held[l] \intersect ring[pq] = {}
          /\ \A qq \in QueuesOf(p) : pq # qq => ring[pq] \intersect ring[qq] = {}
    <3> SUFFICES ASSUME NEW pq \in QueuesOf(p) PROVE <2>9!(pq)
      OBVIOUS
    <3>1. ring[pq] \intersect tx_mp[p] = {}
      BY <2>4, <2>6
    <3>2. \A l \in LcoresOf(p) : held[l] \intersect ring[pq] = {}
      BY <2>4, <2>6
    <3>3. \A qq \in QueuesOf(p) : pq # qq => ring[pq] \intersect ring[qq] = {}
      BY <2>4, <2>6
    <3> QED BY <3>1, <3>2, <3>3
  <2> QED BY <2>7, <2>8, <2>9
<1> QED BY <1>1, PktperfInvariant, PTL

(* The spin lock and tx_inited let no packet out before it is built. *)
THEOREM PacketsBuiltBeforeSent == Spec => []OnlyBuiltPacketsSent
<1>1. PktperfInv => OnlyBuiltPacketsSent
  BY DEF PktperfInv, BuiltOnce, OnlyBuiltPacketsSent, PQ
<1> QED BY <1>1, PktperfInvariant, PTL

(* No lcore runs on a port that was closed. *)
THEOREM PortsClosedLast == Spec => []ClosedPortsUnused
<1>1. PktperfInv => ClosedPortsUnused
  BY DEF PktperfInv, PhasesInOrder, ClosedPortsUnused
<1> QED BY <1>1, PktperfInvariant, PTL
=============================================================================
