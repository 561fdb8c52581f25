--------------------------- MODULE PktperfConfig ----------------------------
(***************************************************************************)
(* The configuration phase of examples/pktperf (parse.c and port.c): the   *)
(* command line, the core mappings, the set-up of the ports.  It runs in   *)
(* the main thread before any lcore is launched; module Pktperf extends    *)
(* this one with the threads that run on its result.                       *)
(*                                                                         *)
(* Many of its functions report an error with ERR_RET, which returns       *)
(* EXIT_FAILURE, that is 1, while the callers test for a result below 0:   *)
(* such an error ends the function and is not seen by its caller.          *)
(***************************************************************************)
EXTENDS Integers, Sequences

CONSTANTS
  Lcores,         \* numbers of the worker lcores
  NumPorts,       \* info->num_ports
  RTE_MAX_ETHPORTS,
  CommandLines    \* the options given, in order

Ports == 0..NumPorts - 1                 \* the ports there are
PortSlots == 0..RTE_MAX_ETHPORTS - 1     \* info->ports: those a mapping can name

(* "Rx-Cores:Tx-Cores.port"; no tx for "Cores.port".  A core list is       *)
(* <<first, last>>, or <<>> when it does not parse; a mapping that is not  *)
(* of that form, or names a port past info->ports, is not good.            *)
CoreList == {<<>>} \union (Lcores \X Lcores)
Mapping == [good : BOOLEAN, port : PortSlots, split : BOOLEAN, rx : CoreList, tx : CoreList]

(* An option: -m, -f or -F, a -d that does not parse, or one that calls    *)
(* usage: a -T or -M too large, -h, and what is no option.  The others     *)
(* only set a number or a flag and are left out.                           *)
Option == [k : {"map", "fgen", "desc", "usage"}, map : Mapping]

ASSUME ConfigAssumption ==
  /\ Lcores \subseteq Nat
  /\ RTE_MAX_ETHPORTS \in Nat
  /\ NumPorts \in 1..RTE_MAX_ETHPORTS
  /\ CommandLines \subseteq Seq(Option)

VARIABLES
  pc,            \* "args", "map", "cores", "setup", "fgen", "run" or "exit"
  mappings, mi,  \* info->mappings, and the one parsed
  side, core,    \* parse_cores: mode, and lcore reached
  fgen,          \* an FGEN option was read
  lports,        \* info->lports
  num_rx_qids, num_tx_qids,
  mapped,        \* ports whose pid was set
  rx_pools, tx_pools,  \* ports that have an Rx, a Tx mbuf pool
  pid,           \* the port being set up
  rxset, txset,  \* queues of each port that were set up
  started,       \* ports that were started
  failed         \* ports for which port_setup reported an error

configVars == <<pc, mappings, mi, side, core, fgen, lports, num_rx_qids, num_tx_qids, mapped,
                rx_pools, tx_pools, pid, rxset, txset, started, failed>>
argVars == <<mappings, fgen>>
mapVars == <<lports, num_rx_qids, num_tx_qids, rx_pools, tx_pools>>
portVars == <<pid, rxset, txset, started, failed>>

NoLport == [mode |-> "UNKNOWN", port |-> 0, rx_qid |-> 0, tx_qid |-> 0]
Lport == [mode : {"UNKNOWN", "RX", "TX", "BOTH"}, port : PortSlots, rx_qid : Nat, tx_qid : Nat]

ConfigInit ==
  /\ pc = "args"
  /\ mappings = <<>> /\ mi = 1
  /\ side = "BOTH" /\ core = 0
  /\ fgen = FALSE
  /\ lports = [c \in Lcores |-> NoLport]
  /\ num_rx_qids = [p \in PortSlots |-> 0]
  /\ num_tx_qids = [p \in PortSlots |-> 0]
  /\ mapped = {} /\ rx_pools = {} /\ tx_pools = {}
  /\ pid = 0
  /\ rxset = [p \in PortSlots |-> {}] /\ txset = [p \in PortSlots |-> {}]
  /\ started = {} /\ failed = {}

(* parse_args.  The options before the n-th are mappings, and the n-th     *)
(* ends the parsing: usage ends the program; -f and -F load into           *)
(* info->fgen, which is created only later, so the load fails and usage is *)
(* called; -d returns 1, which is ignored with the options behind it.      *)
(* Without such an option there must be a mapping.                         *)
parse_args ==
  /\ pc = "args"
  /\ \E cl \in CommandLines : \E n \in 1..Len(cl) + 1 :
       LET ending == IF n = Len(cl) + 1 THEN "none" ELSE cl[n].k
       IN  /\ ending # "map"
           /\ \A i \in 1..n - 1 : cl[i].k = "map"
           /\ mappings' = [i \in 1..n - 1 |-> cl[i].map]
           /\ fgen' = (ending = "fgen")
           /\ pc' = IF ending \in {"fgen", "usage"} \/ (ending = "none" /\ n = 1)
                    THEN "exit" ELSE "map"
  /\ UNCHANGED <<mi, side, core, mapVars, mapped, portVars>>

(* parse_mapping up to its first call of parse_cores; its result is not    *)
(* looked at.                                                              *)
parse_mapping ==
  /\ pc = "map"
  /\ mi <= Len(mappings)
  /\ LET m == mappings[mi] IN
     IF m.good
     THEN /\ mapped' = mapped \union {m.port}
          /\ side' = IF m.split THEN "RX" ELSE "BOTH"
          /\ core' = IF m.rx = <<>> THEN 0 ELSE m.rx[1]
          /\ pc' = "cores"
          /\ UNCHANGED mi
     ELSE mi' = mi + 1 /\ UNCHANGED <<mapped, side, core, pc>>
  /\ UNCHANGED <<argVars, mapVars, portVars>>

List == IF side = "TX" THEN mappings[mi].tx ELSE mappings[mi].rx

(* parse_cores returned: the other side of the mapping, or the next one. *)
CoresParsed ==
  IF side = "RX"
  THEN LET tx == mappings[mi].tx IN
         side' = "TX" /\ core' = (IF tx = <<>> THEN 0 ELSE tx[1]) /\ UNCHANGED <<pc, mi>>
  ELSE pc' = "map" /\ mi' = mi + 1 /\ UNCHANGED <<side, core>>

CountQidForgotten(n, counts) == n              \* slip: the count does not grow
CountQid(n, counts) == IF counts THEN n + 1 ELSE n

(* One turn of the loop: an lcore gets the next queue of the port, for Rx, *)
(* Tx or both.  An lcore already in use is only reported, and reused.      *)
Assign(c, p) ==
  LET rx == side \in {"RX", "BOTH"}
      tx == side \in {"TX", "BOTH"}
      old == lports[c]
  IN  /\ lports' = [lports EXCEPT ![c] =
                      [mode |-> side, port |-> p,
                       rx_qid |-> IF rx THEN num_rx_qids[p] ELSE old.rx_qid,
                       tx_qid |-> IF tx THEN num_tx_qids[p] ELSE old.tx_qid]]
      /\ num_rx_qids' = [num_rx_qids EXCEPT ![p] = CountQid(@, rx)]
      /\ num_tx_qids' = [num_tx_qids EXCEPT ![p] = CountQid(@, tx)]

ParseCore ==
  /\ pc = "cores"
  /\ List # <<>>
  /\ Assign(core, mappings[mi].port)
  /\ rx_pools' = rx_pools \union {mappings[mi].port}
  /\ tx_pools' = tx_pools \union {mappings[mi].port}
  /\ IF core < List[2] THEN core' = core + 1 /\ UNCHANGED <<pc, mi, side>> ELSE CoresParsed
  /\ UNCHANGED <<argVars, mapped, portVars>>

(* The errors of parse_cores: a list that does not parse, no memory for    *)
(* the lcore, no memory for a pool.  Each returns 1, one core to           *)
(* parse_mapping.                                                          *)
ParseCoreFails ==
  /\ pc = "cores"
  /\ \/ UNCHANGED mapVars
     \/ LET p == mappings[mi].port IN
          /\ List # <<>> /\ p \notin tx_pools
          /\ Assign(core, p)
          /\ rx_pools' \in {rx_pools, rx_pools \union {p}}
          /\ UNCHANGED tx_pools
  /\ CoresParsed
  /\ UNCHANGED <<argVars, mapped, portVars>>

MappingsParsed ==
  /\ pc = "map"
  /\ mi > Len(mappings)
  /\ pc' = "setup"
  /\ UNCHANGED <<mi, side, core, argVars, mapVars, mapped, portVars>>

-----------------------------------------------------------------------------
NextPort == pid' = pid + 1 /\ pc' = IF pid + 1 = NumPorts THEN "fgen" ELSE "setup"

(* The queue loop runs over the Rx queues and sets up both kinds; Tx queue *)
(* q exists when q < num_tx_qids, otherwise its set-up fails.              *)
RxSetUpShort(p, n) == 0..n - 1                 \* slip: one Rx queue too few
RxSetUp(p, n) == 0..n
TxSetUp(p, n) == {q \in 0..n : q < num_tx_qids[p]}

(* port_setup when every call succeeds. *)
port_setup ==
  /\ pc = "setup"
  /\ pid \in mapped /\ (num_rx_qids[pid] = 0 \/ pid \in rx_pools)
  /\ num_rx_qids[pid] <= num_tx_qids[pid]
  /\ rxset' = [rxset EXCEPT ![pid] = RxSetUp(pid, num_rx_qids[pid] - 1)]
  /\ txset' = [txset EXCEPT ![pid] = TxSetUp(pid, num_rx_qids[pid] - 1)]
  /\ started' = started \union {pid}
  /\ NextPort
  /\ UNCHANGED <<mi, side, core, argVars, mapVars, mapped, failed>>

(* port_setup reports an error: for a port no mapping names (its pid is    *)
(* not one of a port), before the queues, at one of them, or at the start  *)
(* of the device.  Its caller goes on with the next port.                  *)
PortSetupFails ==
  /\ pc = "setup"
  /\ \/ UNCHANGED <<rxset, txset>>
     \/ /\ pid \in mapped
        /\ \E n \in 0..num_rx_qids[pid] - 1 :
             /\ rxset' = [rxset EXCEPT ![pid] = RxSetUp(pid, n)]
             /\ txset' = [txset EXCEPT ![pid] = TxSetUp(pid, n)]
  /\ failed' = failed \union {pid}
  /\ NextPort
  /\ UNCHANGED <<mi, side, core, argVars, mapVars, mapped, started>>

(* fgen_create; also its failure is reported with 1, and the program runs. *)
CreateFgen ==
  /\ pc = "fgen"
  /\ pc' = "run"
  /\ UNCHANGED <<mi, side, core, argVars, mapVars, mapped, portVars>>

ConfigNext ==
  \/ parse_args \/ parse_mapping \/ ParseCore \/ ParseCoreFails \/ MappingsParsed
  \/ port_setup \/ PortSetupFails \/ CreateFgen

ConfigSpec == ConfigInit /\ [][ConfigNext]_configVars

-----------------------------------------------------------------------------
ConfigTypeOK ==
  /\ pc \in {"args", "map", "cores", "setup", "fgen", "run", "exit"}
  /\ mappings \in Seq(Mapping) /\ mi \in 1..Len(mappings) + 1
  /\ pc = "cores" => mi <= Len(mappings)
  /\ side \in {"RX", "TX", "BOTH"} /\ core \in Nat
  /\ fgen \in BOOLEAN
  /\ lports \in [Lcores -> Lport]
  /\ num_rx_qids \in [PortSlots -> Nat] /\ num_tx_qids \in [PortSlots -> Nat]
  /\ mapped \subseteq PortSlots /\ rx_pools \subseteq PortSlots /\ tx_pools \subseteq PortSlots
  /\ pid \in 0..NumPorts
  /\ rxset \in [PortSlots -> SUBSET Nat] /\ txset \in [PortSlots -> SUBSET Nat]
  /\ started \subseteq Ports /\ failed \subseteq Ports

Rx(c) == lports[c].mode \in {"RX", "BOTH"}
Tx(c) == lports[c].mode \in {"TX", "BOTH"}

(* Two lcores never share a queue, in one direction, of a port: a queue is *)
(* not safe for two threads.  Holds over any list of mappings, lcores      *)
(* reused and mappings broken off included.                                *)
QueuesNotShared ==
  \A c, d \in Lcores : c # d /\ lports[c].port = lports[d].port =>
    /\ Rx(c) /\ Rx(d) => lports[c].rx_qid # lports[d].rx_qid
    /\ Tx(c) /\ Tx(d) => lports[c].tx_qid # lports[d].tx_qid

(* A port that was started has all the Rx queues its lcores poll. *)
StartedPortsReceive ==
  \A c \in Lcores : Rx(c) /\ lports[c].port \in started =>
    lports[c].rx_qid \in rxset[lports[c].port]

(* The same for Tx ("Setup Rx/Tx Queues"). *)
StartedPortsTransmit ==
  pc = "run" => \A c \in Lcores : Tx(c) /\ lports[c].port \in started =>
    lports[c].tx_qid \in txset[lports[c].port]

(* No threads are launched when the set-up of a port failed ("Port setup   *)
(* failed").                                                               *)
FailedSetupStops == pc = "run" => failed = {}

(* Every Rx queue of a started port is polled by an lcore ("A single core  *)
(* can only be attached to one network device or port").                   *)
QueuesPolled ==
  pc = "run" => \A p \in started : \A q \in 0..num_rx_qids[p] - 1 :
    \E c \in Lcores : Rx(c) /\ lports[c].port = p /\ lports[c].rx_qid = q

(* The usage text offers -f "FGEN string to load" and -F. *)
FgenOptionAccepted == fgen => pc # "exit"
=============================================================================
