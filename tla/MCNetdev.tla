------------------------------ MODULE MCNetdev -------------------------------
(***************************************************************************)
(* One thread that calls every function beside one that changes a flag, on *)
(* one interface.                                                          *)
(***************************************************************************)
EXTENDS Netdev

MCCalls == [t \in {1, 2} |-> IF t = 1 THEN Setters \cup Getters
                             ELSE {"netdev_promiscuous_disable", "netdev_set_link_up"}]
=============================================================================
