-------------------------------- MODULE Mmap --------------------------------
(***************************************************************************)
(* The huge page allocator of lib/mmap/fgen_mmap.c.  mmap_alloc asks the   *)
(* kernel for the page size wanted and degrades to the next smaller one,   *)
(* once when mmap fails and once when the first touch of the page raises   *)
(* SIGBUS, which a handler installed around the touch turns into a jump    *)
(* back into the function.  The kernel (mmap, munmap, SIGBUS) is external; *)
(* sigaction on a valid signal does not fail.                              *)
(***************************************************************************)
EXTENDS Integers, FiniteSets, FiniteSetsExt

CONSTANTS
  Handles,     \* handles of type mmap_t the program may hold
  Lengths,     \* values of bufcnt * bufsz, 0 included
  PageSize,    \* page size by type, smallest first, in units of the smallest
  MaxStat      \* bound: no allocation once this much was allocated

MMAP_HUGEPAGE_4KB == 0
MMAP_HUGEPAGE_CNT == 3
Types == 0..MMAP_HUGEPAGE_CNT - 1   \* MMAP_HUGEPAGE_4KB, _2MB, _1GB
AnyType == 0..MMAP_HUGEPAGE_CNT     \* what a caller may pass
NoHandle == "none"

ASSUME MmapAssumption ==
  /\ Lengths \subseteq Nat
  /\ PageSize \in [Types -> Nat \ {0}]
  /\ PageSize[0] <= PageSize[1] /\ PageSize[1] <= PageSize[2]
  /\ MaxStat \in Nat
  /\ NoHandle \notin Handles

VARIABLES
  pc,        \* mmap_alloc: "idle", "try" or "touch"
  cur,       \* the handle being allocated
  typ,       \* the local variable typ of mmap_alloc
  want,      \* the page size type mmap_alloc asks the kernel for next
  mm,        \* struct mmap_data of each handle, or NoMM
  mapped,    \* bytes the kernel has mapped for each handle
  lost,      \* handles freed although their munmap failed
  sizes,     \* mmap_stats.sizes
  handler,   \* SIGBUS handler: the program's own or the allocator's
  dflt       \* mmap_default_type

mmapVars == <<pc, cur, typ, want, mm, mapped, lost, sizes, handler, dflt>>

NoMM == [live |-> FALSE, len |-> 0, sz |-> 0, typ |-> 0]
MM == [live : BOOLEAN, len : Nat, sz : Nat, typ : Types]
Stat == [allocated : Nat, freed : Nat, num_allocated : Nat, num_freed : Nat]
NoStat == [allocated |-> 0, freed |-> 0, num_allocated |-> 0, num_freed |-> 0]

MmapInit ==
  /\ pc = "idle" /\ cur = NoHandle /\ typ = 0 /\ want = 0
  /\ mm = [h \in Handles |-> NoMM]
  /\ mapped = [h \in Handles |-> 0]
  /\ lost = {}
  /\ sizes = [t \in Types |-> NoStat]
  /\ handler = "own"
  /\ dflt = MMAP_HUGEPAGE_4KB

-----------------------------------------------------------------------------
(* mmap_type_by_name: any other name, and "default", give the default. *)
mmap_type_by_name(name) ==
  CASE name = "4KB" -> 0 [] name = "2MB" -> 1 [] name = "1GB" -> 2 [] OTHER -> dflt

mmap_set_default ==
  /\ pc = "idle"
  /\ dflt' \in AnyType
  /\ UNCHANGED <<pc, cur, typ, want, mm, mapped, lost, sizes, handler>>

mmap_set_default_by_name ==
  /\ pc = "idle"
  /\ \E name \in {"4KB", "2MB", "1GB", "default"} : dflt' = mmap_type_by_name(name)
  /\ UNCHANGED <<pc, cur, typ, want, mm, mapped, lost, sizes, handler>>

KnownType(t) == IF t \in Types THEN t ELSE MMAP_HUGEPAGE_4KB

(* mmap_alloc up to the label retry.  A type out of range is replaced; no  *)
(* memory for the structure, or a length of 0, gives NULL.                 *)
mmap_alloc(h, len, t) ==
  /\ pc = "idle"
  /\ ~mm[h].live /\ h \notin lost
  /\ len # 0
  /\ sizes[0].allocated + sizes[1].allocated + sizes[2].allocated < MaxStat
  /\ cur' = h
  /\ typ' = KnownType(t)
  /\ want' = typ'
  /\ mm' = [mm EXCEPT ![h] = [NoMM EXCEPT !.len = len]]
  /\ pc' = "try"
  /\ UNCHANGED <<mapped, lost, sizes, handler, dflt>>

AlignedToSmallest(len, t) ==        \* slip: rounded up to the system page
  ((len + PageSize[0] - 1) \div PageSize[0]) * PageSize[0]

(* FGEN_ALIGN_CEIL(len, mm->align). *)
Aligned(len, t) == ((len + PageSize[t] - 1) \div PageSize[t]) * PageSize[t]

(* __alloc_mem with a page size the kernel grants. *)
AllocMem ==
  /\ pc = "try"
  /\ LET sz == Aligned(mm[cur].len, want) IN
       /\ mm' = [mm EXCEPT ![cur].sz = sz, ![cur].typ = want]
       /\ mapped' = [mapped EXCEPT ![cur] = sz]
  /\ pc' = "touch"
  /\ handler' = "huge"
  /\ UNCHANGED <<cur, typ, want, lost, sizes, dflt>>

(* free(mm); return NULL. *)
Leave ==
  /\ mm' = [mm EXCEPT ![cur] = NoMM]
  /\ pc' = "idle"
  /\ cur' = NoHandle

(* mmap failed: the switch falls through to the next smaller page size and *)
(* the local typ keeps its value; after the smallest there is none.        *)
AllocFails ==
  /\ pc = "try"
  /\ IF want = MMAP_HUGEPAGE_4KB
     THEN Leave /\ UNCHANGED want
     ELSE /\ want' = want - 1
          /\ mm' = [mm EXCEPT ![cur].typ = want, ![cur].sz = Aligned(mm[cur].len, want)]
          /\ UNCHANGED <<pc, cur>>
  /\ UNCHANGED <<typ, mapped, lost, sizes, handler, dflt>>

CountedSize == mm[cur].sz

(* The page can be written: stop_sigbus_handler, and the size is counted   *)
(* under the local typ.                                                    *)
TouchWorks ==
  /\ pc = "touch"
  /\ handler' = "own"
  /\ mm' = [mm EXCEPT ![cur].live = TRUE]
  /\ sizes' = [sizes EXCEPT ![typ].allocated = @ + CountedSize, ![typ].num_allocated = @ + 1]
  /\ pc' = "idle"
  /\ cur' = NoHandle
  /\ UNCHANGED <<typ, want, mapped, lost, dflt>>

BusKeepsHandler == UNCHANGED handler   \* slip: only the normal path restores it
BusRestores == handler' = "own"

SameAgain(t) == t                   \* slip: the size that failed is tried again
NextSmaller(t) == t - 1

BusKeepsRegion == UNCHANGED mapped  \* slip: the failing region stays mapped
BusUnmaps == mapped' = [mapped EXCEPT ![cur] = 0]

(* SIGBUS at the touch: sigbus_handler jumps back, the handler is removed, *)
(* the region unmapped, and the next smaller size tried, if there is one.  *)
TouchFaults ==
  /\ pc = "touch"
  /\ BusRestores
  /\ BusUnmaps
  /\ IF mm[cur].typ = MMAP_HUGEPAGE_4KB
     THEN Leave /\ UNCHANGED <<typ, want>>
     ELSE /\ typ' = NextSmaller(mm[cur].typ)
          /\ want' = typ'
          /\ pc' = "try"
          /\ UNCHANGED <<mm, cur>>
  /\ UNCHANGED <<lost, sizes, dflt>>

(* The same when munmap fails: the structure is freed, the region stays. *)
TouchFaultsStuck ==
  /\ pc = "touch"
  /\ BusRestores
  /\ lost' = lost \union {cur}
  /\ Leave
  /\ UNCHANGED <<typ, want, mapped, sizes, dflt>>

(* mmap_free; when munmap fails the handle stays, "so application can      *)
(* handle it", and nothing changes.                                        *)
mmap_free(h) ==
  /\ pc = "idle"
  /\ mm[h].live
  /\ sizes' = [sizes EXCEPT ![mm[h].typ].freed = @ + mm[h].sz, ![mm[h].typ].num_freed = @ + 1]
  /\ mapped' = [mapped EXCEPT ![h] = 0]
  /\ mm' = [mm EXCEPT ![h] = NoMM]
  /\ UNCHANGED <<pc, cur, typ, want, lost, handler, dflt>>

Step == AllocMem \/ AllocFails \/ TouchWorks \/ TouchFaults \/ TouchFaultsStuck

MmapNext ==
  \/ mmap_set_default
  \/ mmap_set_default_by_name
  \/ \E h \in Handles, len \in Lengths, t \in AnyType : mmap_alloc(h, len, t)
  \/ Step
  \/ \E h \in Handles : mmap_free(h)

MmapSpec == MmapInit /\ [][MmapNext]_mmapVars

(* A call that was made runs on. *)
MmapFairSpec == MmapSpec /\ WF_mmapVars(Step)

-----------------------------------------------------------------------------
MmapTypeOK ==
  /\ pc \in {"idle", "try", "touch"}
  /\ cur \in Handles \union {NoHandle}
  /\ typ \in Types /\ want \in Types
  /\ mm \in [Handles -> MM]
  /\ mapped \in [Handles -> Nat]
  /\ lost \subseteq Handles
  /\ sizes \in [Types -> Stat]
  /\ handler \in {"own", "huge"}
  /\ dflt \in AnyType

Live == {h \in Handles : mm[h].live}

(* Whatever sequence of page sizes was tried, a region handed out is whole *)
(* pages of the size it is recorded under, holds the buffers asked for     *)
(* with less than a page to spare, and is what the kernel mapped.          *)
RegionsFit ==
  \A h \in Live :
    LET m == mm[h] IN
      /\ m.sz % PageSize[m.typ] = 0
      /\ m.len <= m.sz /\ m.sz < m.len + PageSize[m.typ]
      /\ mapped[h] = m.sz

(* No page stays mapped without a handle: a region whose touch faulted is  *)
(* unmapped before a smaller size is tried (munmap failing excepted).      *)
NoRegionLeft ==
  \A h \in Handles : mapped[h] # 0 =>
    mm[h].live \/ h \in lost \/ (pc = "touch" /\ h = cur)

(* The program's own SIGBUS action is in place whenever mmap_alloc is not  *)
(* touching a page, on every way out of it.                                *)
OwnHandlerOutside == pc # "touch" => handler = "own"

(* mmap_stats_t: "Stats for each page size": no more is freed of a page    *)
(* size than was allocated of it.                                          *)
StatsPerPageSize == \A t \in Types : sizes[t].num_freed <= sizes[t].num_allocated

(* mmap_alloc returns: degrading ends, however often mmap fails or the     *)
(* touch faults.                                                           *)
AllocReturns == pc # "idle" ~> pc = "idle"

(* mmap_addr_at_offset: the offset added to the address, or NULL. *)
mmap_addr_at_offset(h, off) == mm[h].live /\ off <= mm[h].sz

(* "The address at offset in mmap memory": an address that is returned is  *)
(* one of the region's bytes.                                              *)
AddressInRegion ==
  \A h \in Live : \A off \in 0..mm[h].sz + 1 : mmap_addr_at_offset(h, off) => off < mm[h].sz
=============================================================================
