------------------------------- MODULE Netdev --------------------------------
(***************************************************************************)
(* lib/osal/netdev_funcs.c: threads of the program ask the kernel for the  *)
(* state of a network interface and change it, through a socket of their   *)
(* own and one or two ioctl calls on it.  A system call is a step; each    *)
(* may fail, with an errno that is the thread's own.  The kernel and       *)
(* sysfs are external.                                                     *)
(***************************************************************************)
EXTENDS Integers, FiniteSetsExt

CONSTANTS
  Threads,
  Calls,       \* by thread: the functions it calls
  Interfaces,
  Counts,      \* numbers of channels, none of them 0
  Errnos       \* errors of system calls, EOPNOTSUPP among them

EINVAL == 22
EOPNOTSUPP == 95

UP == "IFF_UP"
PROMISC == "IFF_PROMISC"

(* The callers of netdev_change_flags: the flags they set and clear. *)
Sets == [netdev_promiscuous_enable |-> {PROMISC}, netdev_promiscuous_disable |-> {},
         netdev_set_link_up |-> {UP}, netdev_set_link_down |-> {}]
Clears == [netdev_promiscuous_enable |-> {}, netdev_promiscuous_disable |-> {PROMISC},
           netdev_set_link_up |-> {}, netdev_set_link_down |-> {UP}]
Changers == DOMAIN Sets
Setters == Changers \cup {"netdev_set_channels"}
Getters == {"netdev_promiscuous_get", "netdev_get_mac_addr", "netdev_get_link",
            "netdev_get_offloads", "netdev_get_channels", "netdev_get_ring_params"}

ASSUME NetdevAssumption ==
  /\ Calls \in [Threads -> SUBSET (Setters \cup Getters)]
  /\ Interfaces # {}
  /\ Counts \subseteq Nat \ {0}
  /\ Errnos \subseteq Nat \ {0} /\ EOPNOTSUPP \in Errnos

VARIABLES
  flags,      \* the kernel's flags of each interface
  channels,   \* and its number of combined channels
  socks,      \* threads that have a socket open
  errno,      \* each thread's errno
  th          \* each thread's call, with these fields:
              \*   pc        between which of its system calls it is
              \*   fn, if, n the function, its interface, netdev_set_channels' count
              \*   ifr       the flags it has read
              \*   ret       what it returns
              \*   filled    how many results it has stored for its caller
              \*   failed    the last error of its system calls, or 0
              \*   was       flags and channels of the interface when it began
              \*   alone     no other thread has been changing the interface since

vars == <<flags, channels, socks, errno, th>>
kernelVars == <<flags, channels>>

Idle == [pc |-> "idle", fn |-> "none", if |-> CHOOSE i \in Interfaces : TRUE, n |-> 0,
         ifr |-> {}, ret |-> 0, filled |-> 0, failed |-> 0, was |-> <<{}, 0>>, alone |-> TRUE]

Init ==
  /\ flags \in [Interfaces -> SUBSET {UP, PROMISC}]
  /\ channels \in [Interfaces -> Counts]
  /\ socks = {}
  /\ errno = [t \in Threads |-> 0]
  /\ th = [t \in Threads |-> Idle]

-----------------------------------------------------------------------------
(* A function is called, with arguments it accepts. *)
Call(t, f, i, n) ==
  LET others == {u \in Threads \ {t} : th[u].fn \in Setters /\ th[u].if = i}
  IN  /\ th[t].pc = "idle"
      /\ f \in Calls[t]
      /\ th' = [u \in Threads |->
                  IF u = t THEN [Idle EXCEPT !.pc = "socket", !.fn = f, !.if = i, !.n = n,
                                             !.was = <<flags[i], channels[i]>>,
                                             !.alone = others = {}]
                  ELSE [th[u] EXCEPT !.alone = @ /\ ~(u \in others /\ f \in Setters)]]
      /\ UNCHANGED <<kernelVars, socks, errno>>

(* A NULL or empty name, or no place for a result: two functions report an *)
(* errno that nothing of theirs has set.                                   *)
BadArgument(t, f) ==
  /\ th[t].pc = "idle"
  /\ f \in Calls[t]
  /\ \/ f \in {"netdev_get_mac_addr", "netdev_get_offloads"} /\ th' = [th EXCEPT ![t] =
          [Idle EXCEPT !.pc = "bad", !.fn = f, !.ret = -errno[t]]]
     \/ f = "netdev_get_link" /\ th' = [th EXCEPT ![t] =
          [Idle EXCEPT !.pc = "bad", !.fn = f, !.ret = -1]]
     \/ f = "netdev_get_ring_params" /\ th' = [th EXCEPT ![t] =
          [Idle EXCEPT !.pc = "bad", !.fn = f, !.ret = -EINVAL]]
  /\ UNCHANGED <<kernelVars, socks, errno>>

(* A system call of t fails with e. *)
Fails(t, e) == errno' = [errno EXCEPT ![t] = e]

Socket(t) ==
  /\ th[t].pc = "socket"
  /\ \/ /\ socks' = socks \cup {t}
        /\ th' = [th EXCEPT ![t].pc = "first"]
        /\ UNCHANGED errno
     \/ \E e \in Errnos :
          /\ Fails(t, e)
          /\ th' = [th EXCEPT ![t].pc = "done", ![t].failed = e,
                              ![t].ret = IF th[t].fn = "netdev_get_link" THEN -1 ELSE -e]
          /\ UNCHANGED socks
  /\ UNCHANGED kernelVars

-----------------------------------------------------------------------------
(* The first ioctl of the functions, and where it leads. *)
At(t, where, f) == th[t].pc = where /\ th[t].fn \in f
Kept == UNCHANGED <<kernelVars, socks, errno>>
Stored(t) == th' = [th EXCEPT ![t].pc = "close", ![t].filled = @ + 1]

(* netdev_change_flags: SIOCGIFFLAGS. *)
ReadFlags(t) ==
  /\ At(t, "first", Changers)
  /\ th' = [th EXCEPT ![t].pc = "write", ![t].ifr = flags[th[t].if]]
  /\ Kept

netdev_promiscuous_get(t) ==
  /\ At(t, "first", {"netdev_promiscuous_get"})
  /\ th' = [th EXCEPT ![t].pc = "close", ![t].filled = 1,
                      ![t].ret = IF PROMISC \in flags[th[t].if] THEN 1 ELSE 0]
  /\ Kept

(* SIOCGIFHWADDR. *)
netdev_get_mac_addr(t) ==
  /\ At(t, "first", {"netdev_get_mac_addr"})
  /\ Stored(t)
  /\ Kept

(* ETHTOOL_GTXCSUM, and ETHTOOL_GRXCSUM through a socket of its own. *)
get_device_offloads(t) ==
  /\ At(t, "first", {"netdev_get_offloads"})
  /\ Stored(t)
  /\ Kept

(* ETHTOOL_GRINGPARAM. *)
netdev_get_ring_params(t) ==
  /\ At(t, "first", {"netdev_get_ring_params"})
  /\ Stored(t)
  /\ Kept

(* ETHTOOL_GCHANNELS: the greatest number the device allows. *)
netdev_get_channels(t) ==
  /\ At(t, "first", {"netdev_get_channels"})
  /\ \E most \in Counts : th' = [th EXCEPT ![t].pc = "close", ![t].filled = 1, ![t].ret = most]
  /\ Kept

(* ETHTOOL_GCHANNELS; nothing is set when the count is already there. *)
ReadChannels(t) ==
  /\ At(t, "first", {"netdev_set_channels"})
  /\ th' = [th EXCEPT ![t].pc = IF channels[th[t].if] = th[t].n THEN "close" ELSE "write"]
  /\ Kept

(* ETHTOOL_GLINKSETTINGS asks how many words the masks have; asked again   *)
(* with them, it fills the settings, of which a speed may not be known.    *)
LinkSettings(t) ==
  /\ At(t, "first", {"netdev_get_link"})
  /\ th' = [th EXCEPT ![t].pc = "masks"]
  /\ Kept

LinkMasks(t) ==
  /\ At(t, "masks", {"netdev_get_link"})
  /\ \/ th' = [th EXCEPT ![t].pc = "status", ![t].filled = 1]
     \/ th' = [th EXCEPT ![t].pc = "close"]
  /\ Kept

(* The older ETHTOOL_GSET, when GLINKSETTINGS failed: the speed looked at  *)
(* is that of the settings that were not filled, so nothing is stored.     *)
LinkGset(t) ==
  /\ At(t, "gset", {"netdev_get_link"})
  /\ th' = [th EXCEPT ![t].pc = "close"]
  /\ Kept

LinkStatus(t) ==
  /\ At(t, "status", {"netdev_get_link"})
  /\ Stored(t)
  /\ Kept

-----------------------------------------------------------------------------
NewFlagsKeep(old, f) == old \cup Sets[f]     \* slip: the mask is not applied
NewFlags(old, f) == (old \ Clears[f]) \cup Sets[f]

(* SIOCSIFFLAGS, with the flags read before. *)
WriteFlags(t) ==
  /\ At(t, "write", Changers)
  /\ flags' = [flags EXCEPT ![th[t].if] = NewFlags(th[t].ifr, th[t].fn)]
  /\ th' = [th EXCEPT ![t].pc = "close"]
  /\ UNCHANGED <<channels, socks, errno>>

(* ETHTOOL_SCHANNELS. *)
WriteChannels(t) ==
  /\ At(t, "write", {"netdev_set_channels"})
  /\ channels' = [channels EXCEPT ![th[t].if] = th[t].n]
  /\ th' = [th EXCEPT ![t].pc = "close"]
  /\ UNCHANGED <<flags, socks, errno>>

(* The queues sysfs lists, 0 when it cannot be read. *)
netdev_get_channels_from_sysfs == Counts \cup {0}

(* What a function does about an ioctl that failed: netdev_get_mac_addr    *)
(* goes on to return 0, netdev_get_link tries ETHTOOL_GSET,                *)
(* netdev_get_channels counts the queues in sysfs, at least 1, when the    *)
(* device has no channels; the others end with the error.                  *)
AfterErrorLeaks(t) == "done"                 \* slip: the error path closes nothing
AfterError(t) == "err"

IoctlFails(t) ==
  /\ th[t].pc \in {"first", "masks", "gset", "status", "write"}
  /\ \E e \in Errnos :
       /\ Fails(t, e)
       /\ \/ /\ At(t, "first", {"netdev_get_mac_addr"})
             /\ th' = [th EXCEPT ![t].pc = "close", ![t].failed = e]
          \/ /\ At(t, "first", {"netdev_get_link"})
             /\ th' = [th EXCEPT ![t].pc = "gset", ![t].failed = e]
          \/ /\ At(t, "first", {"netdev_get_channels"}) /\ e = EOPNOTSUPP
             /\ \E queues \in netdev_get_channels_from_sysfs :
                  th' = [th EXCEPT ![t].pc = "close", ![t].failed = e, ![t].filled = 1,
                                   ![t].ret = Max({queues, 1})]
          \/ /\ ~At(t, "first", {"netdev_get_mac_addr", "netdev_get_link"})
             /\ ~(At(t, "first", {"netdev_get_channels"}) /\ e = EOPNOTSUPP)
             /\ th' = [th EXCEPT ![t].pc = AfterError(t), ![t].failed = e]
  /\ UNCHANGED <<kernelVars, socks>>

ErrRetOfClose(t) == 0                        \* slip: what close returned, not errno
ErrRet(t) == -errno[t]

(* err: close, which leaves errno alone, and then -errno. *)
CloseErr(t) ==
  /\ th[t].pc = "err"
  /\ socks' = socks \ {t}
  /\ th' = [th EXCEPT ![t].pc = "done", ![t].ret = ErrRet(t)]
  /\ UNCHANGED <<kernelVars, errno>>

(* netdev_get_offloads asks for its second value when it has the first. *)
AfterClose(t) ==
  IF th[t].fn = "netdev_get_offloads" /\ th[t].ret = 0 /\ th[t].filled = 1
  THEN "socket" ELSE "done"

Close(t) ==
  /\ th[t].pc = "close"
  /\ socks' = socks \ {t}
  /\ th' = [th EXCEPT ![t].pc = AfterClose(t)]
  /\ UNCHANGED <<kernelVars, errno>>

(* The caller takes the result. *)
Return(t) ==
  /\ th[t].pc \in {"done", "bad"}
  /\ th' = [th EXCEPT ![t] = Idle]
  /\ UNCHANGED <<kernelVars, socks, errno>>

Next ==
  \E t \in Threads :
    \/ \E f \in Calls[t] :
         \/ \E i \in Interfaces :
              \E n \in IF f = "netdev_set_channels" THEN Counts ELSE {0} : Call(t, f, i, n)
         \/ BadArgument(t, f)
    \/ Socket(t) \/ ReadFlags(t) \/ netdev_promiscuous_get(t) \/ netdev_get_mac_addr(t)
    \/ get_device_offloads(t) \/ netdev_get_ring_params(t) \/ netdev_get_channels(t)
    \/ ReadChannels(t) \/ LinkSettings(t) \/ LinkMasks(t)
    \/ LinkGset(t) \/ LinkStatus(t) \/ WriteFlags(t) \/ WriteChannels(t) \/ IoctlFails(t)
    \/ CloseErr(t) \/ Close(t) \/ Return(t)

Spec == Init /\ [][Next]_vars

-----------------------------------------------------------------------------
CallState ==
  [pc : {"idle", "socket", "first", "masks", "gset", "status", "write", "err", "close", "done",
         "bad"},
   fn : Setters \cup Getters \cup {"none"}, if : Interfaces, n : Counts \cup {0},
   ifr : SUBSET {UP, PROMISC}, ret : Int, filled : 0..2, failed : Errnos \cup {0},
   was : (SUBSET {UP, PROMISC}) \X (Counts \cup {0}), alone : BOOLEAN]

TypeOK ==
  /\ flags \in [Interfaces -> SUBSET {UP, PROMISC}]
  /\ channels \in [Interfaces -> Counts]
  /\ socks \subseteq Threads
  /\ errno \in [Threads -> Errnos \cup {0}]
  /\ th \in [Threads -> CallState]

(* Every socket is closed when its function returns, on whichever of the   *)
(* system calls it broke off.                                              *)
NoSocketLeft ==
  \A t \in socks : th[t].pc \in {"first", "masks", "gset", "status", "write", "err", "close"}

Done(t, f) == th[t].pc = "done" /\ th[t].fn \in f

(* A change that no other thread's change overlaps is made as asked: the   *)
(* flags the function is about, and no others, or the number of channels;  *)
(* and a change that reports an error leaves the interface as it was.      *)
ChangedAsAsked ==
  \A t \in Threads : Done(t, Setters) /\ th[t].alone =>
    LET now == <<flags[th[t].if], channels[th[t].if]>>
        was == th[t].was
    IN  IF th[t].ret # 0 THEN now = was
        ELSE IF th[t].fn = "netdev_set_channels" THEN now = <<was[1], th[t].n>>
        ELSE now = <<(was[1] \ Clears[th[t].fn]) \cup Sets[th[t].fn], was[2]>>

(* Those that netdev_funcs.h promises a "negative error number" from; the  *)
(* others are to return -1.                                                *)
ErrorNumbers == {"netdev_get_channels", "netdev_set_channels", "netdev_get_ring_params"}

(* A function returns a negative value only for a system call of its own   *)
(* that failed, and where an error number is promised it is that of the    *)
(* last that did, although errno is read after the socket was closed and   *)
(* other threads' calls have failed meanwhile; and it swallows a failure   *)
(* only where it has another way to answer, or is netdev_get_mac_addr.     *)
FailureReported ==
  \A t \in Threads : Done(t, Setters \cup Getters) =>
    /\ th[t].ret < 0 =>
         /\ th[t].failed # 0
         /\ th[t].fn \in ErrorNumbers => th[t].ret = -th[t].failed
    /\ th[t].ret >= 0 /\ th[t].failed # 0 =>
         \/ th[t].fn \in {"netdev_get_mac_addr", "netdev_get_link"}
         \/ th[t].fn = "netdev_get_channels" /\ th[t].failed = EOPNOTSUPP

(* netdev_funcs.h: a change of one flag is about that flag, whatever other *)
(* threads change.                                                         *)
OtherFlagsKept ==
  [][\A t \in Threads : WriteFlags(t) =>
       LET old == flags[th[t].if]
           new == flags'[th[t].if]
       IN  new \ old \subseteq Sets[th[t].fn] /\ old \ new \subseteq Clears[th[t].fn]]_vars

(* netdev_funcs.h: "0 success or -1 on error", of all functions but the    *)
(* three that return error numbers.                                        *)
DocumentedErrors ==
  \A t \in Threads : th[t].pc \in {"done", "bad"} /\ th[t].fn \notin ErrorNumbers =>
    th[t].ret >= -1

(* netdev_funcs.h: "0 on success".  Success means that the result is there. *)
SuccessFills ==
  \A t \in Threads : th[t].pc \in {"done", "bad"} /\ th[t].fn \in Getters /\ th[t].ret = 0 =>
    th[t].filled >= 1
=============================================================================
