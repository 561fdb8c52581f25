--------------------------- MODULE ResourceProofs ---------------------------
(***************************************************************************)
(* Proofs about what the program takes from the system and gives back: the *)
(* two allocators and the network devices, which know nothing of one       *)
(* another.                                                                *)
(*                                                                         *)
(* The block allocator, for every set of request sizes, every default      *)
(* block size and every bound.  That ranges are apart is not inductive: a  *)
(* range a caller already holds must be known to end at or below used,     *)
(* because used is where the next range starts.  SallocInv adds that.      *)
(*                                                                         *)
(* The huge page allocator, for any page sizes, lengths and number of      *)
(* handles.  What a handle shows when mmap_alloc has returned rests on     *)
(* what the call keeps while it degrades: MmapInv adds the state between   *)
(* the mapping of a region and its touch, and that a handle that is        *)
(* neither live nor lost has nothing mapped.                               *)
(*                                                                         *)
(* The network device functions, for any number of threads, interfaces and *)
(* channels and any mix of calls.  Their properties are about what a       *)
(* function leaves behind when it returns; what makes them true is what it *)
(* knows between its system calls.  CallOK says that for what a call has   *)
(* stored, returned and seen fail, Overlaps that two changes of an         *)
(* interface know of each other, and Progress what a change that runs      *)
(* alone has made of the interface.                                        *)
(***************************************************************************)
EXTENDS Salloc, Mmap, Netdev, TLAPS

-----------------------------------------------------------------------------
(* The block allocator. *)


(* Every range ends at or below used. *)
AllocsBelowUsed == \A r \in allocs : r.off + r.len <= used

SallocInv ==
  /\ SallocTypeOK
  /\ UsedWithinSize
  /\ AllocsBelowUsed
  /\ AllocsApart

(* The range TakeAtUsed adds starts where all others have ended, and it    *)
(* ends at the new fill level.                                             *)
LEMMA TakeKeepsApart ==
  ASSUME SallocInv, NEW n \in Nat, n > 0, TakeAtUsed(n)
  PROVE  /\ allocs' \in SUBSET Extent
         /\ used' \in Nat
         /\ AllocsBelowUsed'
         /\ AllocsApart'
<1> DEFINE r == [off |-> used, len |-> n]
<1>1. r \in Extent /\ used' = used + n /\ allocs' = allocs \union {r}
  BY DEF SallocInv, SallocTypeOK, Extent, TakeAtUsed
<1>2. \A s \in allocs : s \in Extent /\ s.off + s.len <= used
  BY DEF SallocInv, SallocTypeOK, AllocsBelowUsed
<1>3. used \in Nat
  BY DEF SallocInv, SallocTypeOK
<1>4. AllocsBelowUsed'
  <2> SUFFICES ASSUME NEW s \in allocs' PROVE s.off + s.len <= used'
    BY DEF AllocsBelowUsed
  <2> QED BY <1>1, <1>2, <1>3 DEF Extent
<1>5. AllocsApart'
  <2> SUFFICES ASSUME NEW s \in allocs', NEW t \in allocs', s # t
               PROVE  Apart(s, t)
    BY DEF AllocsApart
  <2>1. CASE s \in allocs /\ t \in allocs
    BY <2>1 DEF SallocInv, AllocsApart
  <2>2. CASE s = r \/ t = r
    BY <2>2, <1>1, <1>2, <1>3 DEF Extent, Apart
  <2> QED BY <2>1, <2>2, <1>1
<1> QED BY <1>1, <1>2, <1>3, <1>4, <1>5 DEF SallocInv, SallocTypeOK

(* The invariant holds of a structure that does not exist yet. *)
LEMMA SallocInitInv == SallocInit => SallocInv
<1> SUFFICES ASSUME SallocInit PROVE SallocInv
  OBVIOUS
<1>1. live \in BOOLEAN /\ ptr \in BOOLEAN
  BY DEF SallocInit
<1>2. size \in Nat /\ used \in Nat /\ cap \in Nat /\ ret \in {0, -1} /\ used <= size
  BY DEF SallocInit
<1>3. allocs \in SUBSET Extent /\ AllocsBelowUsed /\ AllocsApart
  BY DEF SallocInit, AllocsBelowUsed, AllocsApart
<1> QED BY <1>1, <1>2, <1>3 DEF SallocInv, SallocTypeOK, UsedWithinSize

(* Every call of salloc_create, salloc and salloc_destroy keeps it. *)
LEMMA SallocNextInv == SallocInv /\ [SallocNext]_sallocVars => SallocInv'
<1> SUFFICES ASSUME SallocInv, [SallocNext]_sallocVars PROVE SallocInv'
  OBVIOUS
<1> USE SallocAssumption
<1>t. SallocTypeOK /\ UsedWithinSize
  BY DEF SallocInv
<1>1. ASSUME NEW n \in Sizes, Create(n) PROVE SallocInv'
  <2>1. live' \in BOOLEAN /\ ptr' \in BOOLEAN
    BY <1>1 DEF Create
  <2>2. size' \in Nat /\ used' \in Nat /\ cap' \in Nat /\ ret' \in {0, -1} /\ used' <= size'
    BY <1>1 DEF Create
  <2>3. allocs' \in SUBSET Extent /\ AllocsBelowUsed' /\ AllocsApart'
    BY <1>1 DEF Create, AllocsBelowUsed, AllocsApart
  <2> QED BY <2>1, <2>2, <2>3 DEF SallocInv, SallocTypeOK, UsedWithinSize
<1>2. CASE Destroy
  <2>1. live' \in BOOLEAN /\ ptr' \in BOOLEAN
    BY <1>2 DEF Destroy
  <2>2. size' \in Nat /\ used' \in Nat /\ cap' \in Nat /\ ret' \in {0, -1} /\ used' <= size'
    BY <1>2 DEF Destroy
  <2>3. allocs' \in SUBSET Extent /\ AllocsBelowUsed' /\ AllocsApart'
    BY <1>2 DEF Destroy, AllocsBelowUsed, AllocsApart
  <2> QED BY <2>1, <2>2, <2>3 DEF SallocInv, SallocTypeOK, UsedWithinSize
<1>3. CASE SallocZero
  BY <1>3, <1>t
     DEF SallocInv, SallocTypeOK, UsedWithinSize, AllocsBelowUsed, AllocsApart, SallocZero
<1>4. ASSUME NEW n \in Sizes, SallocFits(n) PROVE SallocInv'
  <2>1. /\ n \in Nat /\ n > 0 /\ TakeAtUsed(n)
        /\ UNCHANGED <<live, ptr, size, cap>>
        /\ used' = used + n /\ ret' = 0 /\ n <= size - used
    BY <1>4 DEF SallocFits, TakeAtUsed, salloc_unused
  <2>2. AllocsBelowUsed' /\ AllocsApart' /\ allocs' \in SUBSET Extent /\ used' \in Nat
    BY <2>1, TakeKeepsApart
  <2>3. SallocTypeOK' /\ UsedWithinSize'
    BY <2>1, <2>2, <1>t DEF SallocTypeOK, UsedWithinSize
  <2> QED BY <2>2, <2>3 DEF SallocInv
<1>5. ASSUME NEW n \in Sizes, SallocGrow(n) PROVE SallocInv'
  <2>1. /\ n \in Nat /\ n > 0 /\ TakeAtUsed(n)
        /\ live' = live /\ ptr' = TRUE /\ cap' = n /\ size' = size + n
        /\ used' = used + n /\ ret' = 0
    BY <1>5 DEF SallocGrow, TakeAtUsed, GrownSize
  <2>2. AllocsBelowUsed' /\ AllocsApart' /\ allocs' \in SUBSET Extent /\ used' \in Nat
    BY <2>1, TakeKeepsApart
  <2>3. SallocTypeOK' /\ UsedWithinSize'
    BY <2>1, <2>2, <1>t DEF SallocTypeOK, UsedWithinSize
  <2> QED BY <2>2, <2>3 DEF SallocInv
<1>6. ASSUME NEW n \in Sizes, SallocNoMem(n) PROVE SallocInv'
  BY <1>6, <1>t
     DEF SallocInv, SallocTypeOK, UsedWithinSize, AllocsBelowUsed, AllocsApart, SallocNoMem
<1>7. CASE UNCHANGED sallocVars
  BY <1>7, <1>t
     DEF SallocInv, SallocTypeOK, UsedWithinSize, AllocsBelowUsed, AllocsApart, sallocVars
<1> QED BY <1>1, <1>2, <1>3, <1>4, <1>5, <1>6, <1>7 DEF SallocNext

(* The strengthened invariant holds in every reachable state. *)
THEOREM SallocInvariant == SallocSpec => []SallocInv
  BY SallocInitInv, SallocNextInv, PTL DEF SallocSpec

(* The fields of salloc_t keep their types through every sequence of       *)
(* calls and heap failures.                                                *)
THEOREM SallocTypeCorrect == SallocSpec => []SallocTypeOK
  BY SallocInvariant, PTL DEF SallocInv

(* salloc_unused never wraps: used stays within size. *)
THEOREM SallocUsedWithinSize == SallocSpec => []UsedWithinSize
  BY SallocInvariant, PTL DEF SallocInv

(* The ranges salloc hands out are pairwise apart, for ever. *)
THEOREM SallocAllocsApart == SallocSpec => []AllocsApart
  BY SallocInvariant, PTL DEF SallocInv

(* salloc.c implements the arena: the initial states are the arena's, and  *)
(* every step is an arena step or changes nothing the arena shows.         *)
THEOREM SallocImplementsArena == SallocSpec => ImplementsArena
<1>1. SallocInit => Promise!Init
  BY DEF SallocInit, Promise!Init
<1>2. SallocInv /\ [SallocNext]_sallocVars => [Promise!Next]_(Promise!vars)
  <2> SUFFICES ASSUME SallocInv, [SallocNext]_sallocVars PROVE [Promise!Next]_(Promise!vars)
    OBVIOUS
  <2> USE SallocAssumption
  <2>1. ASSUME NEW n \in Sizes, Create(n) PROVE Promise!Create
    BY <2>1 DEF Create, Promise!Create
  <2>2. CASE Destroy
    BY <2>2 DEF Destroy, Promise!Next, Promise!Destroy
  <2>3. ASSUME NEW n \in Sizes, SallocFits(n) \/ SallocGrow(n) PROVE Promise!Grant
    <3> DEFINE r == [off |-> used, len |-> n]
    <3>1. n \in Nat /\ n > 0 /\ live /\ live' = live /\ allocs' = allocs \union {r}
      BY <2>3 DEF SallocFits, SallocGrow, TakeAtUsed
    <3>2. used \in Nat /\ allocs \subseteq Extent /\ \A s \in allocs : s.off + s.len <= used
      BY DEF SallocInv, SallocTypeOK, AllocsBelowUsed
    <3>3. r \in Promise!Range
      BY <3>1, <3>2 DEF Promise!Range
    <3>4. \A s \in allocs : Promise!Apart(r, s)
      BY <3>1, <3>2 DEF Promise!Apart, Extent
    <3>5. r \notin allocs
      BY <3>1, <3>2
    <3> QED BY <3>1, <3>3, <3>4, <3>5 DEF Promise!Grant
  <2>4. CASE SallocZero \/ (\E n \in Sizes : SallocNoMem(n)) \/ UNCHANGED sallocVars
    BY <2>4 DEF SallocZero, SallocNoMem, sallocVars, Promise!vars
  <2> QED BY <2>1, <2>2, <2>3, <2>4 DEF SallocNext, Promise!Next
<1> QED BY <1>1, <1>2, SallocInvariant, PTL DEF SallocSpec, ImplementsArena, Promise!Spec

-----------------------------------------------------------------------------
(* The huge page allocator. *)


(* A region that the kernel has mapped for h is what h records. *)
Recorded(h) ==
  /\ mm[h].sz = Aligned(mm[h].len, mm[h].typ)
  /\ mapped[h] = mm[h].sz

InCall ==
  /\ pc # "idle" => cur \in Handles /\ ~mm[cur].live /\ cur \notin lost
  /\ pc = "touch" => Recorded(cur)
  /\ pc # "touch" => handler = "own"

NothingMapped ==
  \A h \in Handles :
    ~mm[h].live /\ h \notin lost /\ ~(pc = "touch" /\ h = cur) => mapped[h] = 0

MmapInv ==
  /\ MmapTypeOK
  /\ InCall
  /\ NothingMapped
  /\ \A h \in Live : Recorded(h)

-----------------------------------------------------------------------------
(* FGEN_ALIGN_CEIL: the least multiple of the page size that holds len.    *)
LEMMA AlignCeil ==
  ASSUME NEW len \in Nat, NEW P \in Nat \ {0}
  PROVE  LET a == ((len + P - 1) \div P) * P
         IN  a \in Nat /\ a % P = 0 /\ len <= a /\ a < len + P
<1> DEFINE n == len + P - 1
           q == n \div P
           r == n % P
<1>1. n \in Nat /\ q \in Nat /\ r \in 0..P - 1 /\ n = q * P + r
  OBVIOUS
<1>2. q * P \in Nat /\ q * P = n - r
  BY <1>1
<1>3. (q * P) % P = 0
  BY <1>1
<1> QED BY <1>1, <1>2, <1>3

(* The same of the page sizes that mmap_alloc uses. *)
LEMMA AlignedFits ==
  ASSUME NEW len \in Nat, NEW t \in Types
  PROVE  /\ Aligned(len, t) \in Nat
         /\ Aligned(len, t) % PageSize[t] = 0
         /\ len <= Aligned(len, t) /\ Aligned(len, t) < len + PageSize[t]
<1>1. PageSize[t] \in Nat \ {0}
  BY MmapAssumption
<1> QED BY <1>1, AlignCeil DEF Aligned

-----------------------------------------------------------------------------
(* Before the first call nothing is mapped. *)
LEMMA MmapInitOK == MmapInit => MmapInv
BY DEF MmapInit, MmapInv, MmapTypeOK, InCall, NothingMapped, Live, NoMM, MM, NoStat, Stat, Types,
       AnyType, MMAP_HUGEPAGE_CNT, MMAP_HUGEPAGE_4KB

(* The call's own handle afterwards, c, and the bytes mapped for it, b.    *)
LEMMA HandleStep ==
  ASSUME MmapInv, NEW h \in Handles, NEW c \in MM, NEW b \in Nat,
         mm' = [mm EXCEPT ![h] = c], mapped' = [mapped EXCEPT ![h] = b],
         lost' = lost \/ (lost' = lost \union {h} /\ ~c.live),
         pc = "idle" \/ h = cur, pc' = "idle" \/ h = cur',
         c.live \/ pc' = "touch" => c.sz = Aligned(c.len, c.typ) /\ b = c.sz,
         ~c.live /\ h \notin lost' /\ pc' # "touch" => b = 0,
         pc' # "idle" => ~c.live /\ h \notin lost',
         pc' # "touch" => handler' = "own",
         MmapTypeOK'
  PROVE  MmapInv'
<1> USE DEF MmapInv
<1>1. /\ mm \in [Handles -> MM] /\ mapped \in [Handles -> Nat]
      /\ \A k \in Handles : mm'[k] = IF k = h THEN c ELSE mm[k]
      /\ \A k \in Handles : mapped'[k] = IF k = h THEN b ELSE mapped[k]
  BY DEF MmapTypeOK
<1>2. InCall'
  BY <1>1 DEF InCall, Recorded
<1>3. NothingMapped'
  BY <1>1 DEF NothingMapped
<1>4. \A k \in Live' : Recorded(k)'
  BY <1>1 DEF Live, Recorded
<1> QED BY <1>2, <1>3, <1>4

(* Every step of a call keeps the invariant; each changes one handle.     *)
LEMMA MmapNextOK == MmapInv /\ [MmapNext]_mmapVars => MmapInv'
<1> SUFFICES ASSUME MmapInv, [MmapNext]_mmapVars PROVE MmapInv'
  OBVIOUS
<1> USE DEF MmapInv
<1>0. /\ mm \in [Handles -> MM] /\ mapped \in [Handles -> Nat] /\ sizes \in [Types -> Stat]
      /\ typ \in Types /\ want \in Types
      /\ 0 \in Types /\ \A t \in Types : t \in Nat /\ (t # 0 => t - 1 \in Types)
  BY DEF MmapTypeOK, Types, MMAP_HUGEPAGE_CNT
<1>1. ASSUME UNCHANGED <<pc, cur, typ, want, mm, mapped, lost, sizes, handler>>,
             dflt' \in AnyType
      PROVE  MmapInv'
  BY <1>1 DEF MmapTypeOK, InCall, NothingMapped, Live, Recorded
<1>2. CASE UNCHANGED mmapVars
  BY <1>1, <1>2 DEF mmapVars, MmapTypeOK
<1>3. CASE mmap_set_default \/ mmap_set_default_by_name
  <2>1. dflt' \in AnyType
    BY <1>3 DEF mmap_set_default, mmap_set_default_by_name, mmap_type_by_name, MmapTypeOK, AnyType,
                MMAP_HUGEPAGE_CNT
  <2> QED BY <1>1, <1>3, <2>1 DEF mmap_set_default, mmap_set_default_by_name
<1>4. NoMM \in MM /\ ~NoMM.live
  BY <1>0 DEF NoMM, MM
<1>5. ASSUME NEW h \in Handles, NEW len \in Lengths, NEW t \in AnyType, mmap_alloc(h, len, t)
      PROVE  MmapInv'
  <2> DEFINE c == [NoMM EXCEPT !.len = len]
  <2>1. c \in MM /\ ~c.live
    BY <1>4, MmapAssumption DEF MM
  <2>2. KnownType(t) \in Types
    BY <1>0 DEF KnownType, MMAP_HUGEPAGE_4KB
  <2>3. /\ mapped[h] = 0 /\ mapped[h] \in Nat /\ mapped' = [mapped EXCEPT ![h] = mapped[h]]
        /\ mm' = [mm EXCEPT ![h] = c]
    BY <1>0, <1>5 DEF mmap_alloc, NothingMapped
  <2> HIDE DEF c
  <2>4. MmapTypeOK'
    BY <1>0, <1>5, <2>1, <2>2, <2>3 DEF mmap_alloc, MmapTypeOK
  <2>5. /\ lost' = lost /\ h \notin lost' /\ pc = "idle" /\ pc' = "try" /\ h = cur'
        /\ handler' = "own"
    BY <1>5 DEF mmap_alloc, InCall
  <2> HIDE DEF MmapInv
  <2> QED BY <2>1, <2>3, <2>4, <2>5, HandleStep
<1>6. CASE AllocMem
  <2> DEFINE sz == Aligned(mm[cur].len, want)
             c == [mm[cur] EXCEPT !.sz = sz, !.typ = want]
  <2>1. cur \in Handles /\ mm[cur] \in MM /\ ~mm[cur].live /\ cur \notin lost
    BY <1>0, <1>6 DEF AllocMem, InCall
  <2>2. sz \in Nat
    BY <1>0, <2>1, AlignedFits DEF MM
  <2>3. mm' = [mm EXCEPT ![cur] = c] /\ mapped' = [mapped EXCEPT ![cur] = sz]
    BY <1>6 DEF AllocMem
  <2>4. c \in MM /\ ~c.live /\ c.sz = sz /\ c.len = mm[cur].len /\ c.typ = want
    <3> HIDE DEF sz
    <3> QED BY <1>0, <2>1, <2>2 DEF MM
  <2>5. c.sz = Aligned(c.len, c.typ)
    BY <2>4
  <2> HIDE DEF c, sz
  <2>6. MmapTypeOK'
    <3>1. mm' \in [Handles -> MM]
      BY <2>1, <2>3, <2>4 DEF MmapTypeOK
    <3>2. mapped' \in [Handles -> Nat]
      BY <2>1, <2>2, <2>3 DEF MmapTypeOK
    <3>3. pc' = "touch" /\ handler' = "huge" /\ UNCHANGED <<cur, typ, want, lost, sizes, dflt>>
      BY <1>6 DEF AllocMem
    <3> QED BY <3>1, <3>2, <3>3 DEF MmapTypeOK
  <2>7. lost' = lost /\ pc' = "touch" /\ cur' = cur
    BY <1>6 DEF AllocMem
  <2> HIDE DEF MmapInv
  <2> QED BY <2>1, <2>2, <2>3, <2>4, <2>5, <2>6, <2>7, HandleStep
<1>7. ASSUME Leave, pc \in {"try", "touch"}, lost' = lost, mapped' = [mapped EXCEPT ![cur] = 0],
             handler' = "own", typ' \in Types, want' \in Types, UNCHANGED <<sizes, dflt>>
      PROVE  MmapInv'
  <2>1. cur \in Handles /\ cur \notin lost
    BY <1>7 DEF InCall
  <2>2. MmapTypeOK'
    BY <1>0, <1>4, <1>7, <2>1 DEF Leave, MmapTypeOK
  <2> QED BY <1>4, <1>7, <2>1, <2>2, HandleStep DEF Leave
<1>8. CASE AllocFails
  <2>1. /\ cur \in Handles /\ mm[cur] \in MM /\ ~mm[cur].live /\ cur \notin lost
        /\ mapped[cur] = 0 /\ mapped[cur] \in Nat
        /\ mapped' = [mapped EXCEPT ![cur] = mapped[cur]]
    BY <1>0, <1>8 DEF AllocFails, InCall, NothingMapped
  <2>2. CASE want = MMAP_HUGEPAGE_4KB
    BY <1>0, <1>7, <1>8, <2>1, <2>2 DEF AllocFails, InCall
  <2>3. CASE want # MMAP_HUGEPAGE_4KB
    <3> DEFINE sz == Aligned(mm[cur].len, want)
               c == [mm[cur] EXCEPT !.typ = want, !.sz = sz]
    <3>1. sz \in Nat
      BY <1>0, <2>1, AlignedFits DEF MM
    <3>2. mm' = [mm EXCEPT ![cur] = c] /\ want' \in Types
      BY <1>0, <1>8, <2>3 DEF AllocFails, MMAP_HUGEPAGE_4KB
    <3>3. c \in MM /\ ~c.live
      <4> HIDE DEF sz
      <4> QED BY <1>0, <2>1, <3>1 DEF MM
    <3> HIDE DEF c, sz
    <3>4. MmapTypeOK'
      BY <1>0, <1>8, <2>1, <2>3, <3>2, <3>3 DEF AllocFails, MmapTypeOK
    <3>5. lost' = lost /\ pc' = "try" /\ cur' = cur /\ handler' = "own"
      BY <1>8, <2>3 DEF AllocFails, InCall
    <3> HIDE DEF MmapInv
    <3> QED BY <2>1, <3>2, <3>3, <3>4, <3>5, HandleStep
  <2> QED BY <2>2, <2>3
<1>9. CASE TouchWorks
  <2> DEFINE c == [mm[cur] EXCEPT !.live = TRUE]
  <2>1. /\ cur \in Handles /\ mm[cur] \in MM /\ cur \notin lost /\ Recorded(cur)
        /\ mapped' = [mapped EXCEPT ![cur] = mapped[cur]] /\ mapped[cur] \in Nat
    BY <1>0, <1>9 DEF TouchWorks, InCall
  <2>2. mm' = [mm EXCEPT ![cur] = c]
    BY <1>9 DEF TouchWorks
  <2>3. c \in MM /\ c.live /\ c.sz = mm[cur].sz /\ c.len = mm[cur].len /\ c.typ = mm[cur].typ
    BY <2>1 DEF MM
  <2>4. sizes' \in [Types -> Stat]
    <3>1. CountedSize \in Nat
      BY <2>1 DEF CountedSize, MM
    <3> QED BY <1>0, <1>9, <3>1 DEF TouchWorks, Stat
  <2> HIDE DEF c
  <2>5. MmapTypeOK'
    <3>1. mm' \in [Handles -> MM]
      BY <2>1, <2>2, <2>3 DEF MmapTypeOK
    <3>2. mapped' \in [Handles -> Nat]
      BY <2>1 DEF MmapTypeOK
    <3>3. UNCHANGED <<typ, want, lost, dflt>>
      BY <1>9 DEF TouchWorks
    <3>4. pc' = "idle" /\ cur' = NoHandle /\ handler' = "own"
      BY <1>9 DEF TouchWorks
    <3> QED BY <2>4, <3>1, <3>2, <3>3, <3>4 DEF MmapTypeOK
  <2>6. /\ lost' = lost /\ pc' = "idle" /\ handler' = "own"
        /\ c.sz = Aligned(c.len, c.typ) /\ mapped[cur] = c.sz
    BY <1>9, <2>1, <2>3 DEF TouchWorks, Recorded
  <2> HIDE DEF MmapInv
  <2> QED BY <2>1, <2>2, <2>3, <2>5, <2>6, HandleStep
<1>10. CASE TouchFaults
  <2>1. cur \in Handles /\ mm[cur] \in MM /\ ~mm[cur].live /\ cur \notin lost
        /\ mm[cur].typ \in Types
    BY <1>0, <1>10 DEF TouchFaults, InCall, MM
  <2>2. mapped' = [mapped EXCEPT ![cur] = 0] /\ handler' = "own"
    BY <1>10 DEF TouchFaults, BusUnmaps, BusRestores
  <2>3. CASE mm[cur].typ = MMAP_HUGEPAGE_4KB
    BY <1>0, <1>7, <1>10, <2>2, <2>3 DEF TouchFaults
  <2>4. CASE mm[cur].typ # MMAP_HUGEPAGE_4KB
    <3>1. typ' \in Types /\ want' \in Types
      BY <1>0, <1>10, <2>1, <2>4 DEF TouchFaults, NextSmaller, MMAP_HUGEPAGE_4KB
    <3>2. mm' = [mm EXCEPT ![cur] = mm[cur]] /\ pc' = "try" /\ cur' = cur /\ lost' = lost
      BY <1>0, <1>10, <2>1, <2>4 DEF TouchFaults
    <3>3. MmapTypeOK'
      BY <1>0, <1>10, <2>1, <2>2, <2>4, <3>1, <3>2 DEF TouchFaults, MmapTypeOK
    <3> QED BY <1>10, <2>1, <2>2, <3>2, <3>3, HandleStep
  <2> QED BY <2>3, <2>4
<1>11. CASE TouchFaultsStuck
  <2>1. /\ cur \in Handles /\ cur \notin lost
        /\ mapped' = [mapped EXCEPT ![cur] = mapped[cur]] /\ mapped[cur] \in Nat
    BY <1>0, <1>11 DEF TouchFaultsStuck, InCall
  <2>2. MmapTypeOK'
    BY <1>0, <1>4, <1>11, <2>1 DEF TouchFaultsStuck, BusRestores, Leave, MmapTypeOK
  <2> QED BY <1>4, <1>11, <2>1, <2>2, HandleStep DEF TouchFaultsStuck, BusRestores, Leave
<1>12. ASSUME NEW h \in Handles, mmap_free(h) PROVE MmapInv'
  <2>1. sizes' \in [Types -> Stat]
    <3>1. mm[h].typ \in Types /\ mm[h].sz \in Nat
      BY <1>0 DEF MM
    <3> QED BY <1>0, <1>12, <3>1 DEF mmap_free, Stat
  <2>2. MmapTypeOK'
    BY <1>0, <1>4, <1>12, <2>1 DEF mmap_free, MmapTypeOK
  <2> QED BY <1>4, <1>12, <2>2, HandleStep DEF mmap_free, InCall
<1> QED BY <1>2, <1>3, <1>5, <1>6, <1>8, <1>9, <1>10, <1>11, <1>12 DEF MmapNext, Step

(* The inductive invariant holds in every reachable state. *)
LEMMA MmapInvariant == MmapSpec => []MmapInv
BY MmapInitOK, MmapNextOK, PTL DEF MmapSpec

(* The allocator's variables keep their types. *)
THEOREM MmapTypesHold == MmapSpec => []MmapTypeOK
<1>1. MmapInv => MmapTypeOK
  BY DEF MmapInv
<1> QED BY <1>1, MmapInvariant, PTL

(* A region mmap_alloc hands out is whole pages of the size recorded with  *)
(* it and holds the buffers, however often it degraded on the way.         *)
THEOREM RegionsHoldBuffers == MmapSpec => []RegionsFit
<1>1. MmapInv => RegionsFit
  <2> SUFFICES ASSUME MmapInv, NEW h \in Live PROVE RegionsFit!(h)
    BY DEF RegionsFit
  <2>1. /\ mm[h].len \in Nat /\ mm[h].typ \in Types
        /\ mm[h].sz = Aligned(mm[h].len, mm[h].typ) /\ mapped[h] = mm[h].sz
    BY DEF MmapInv, MmapTypeOK, MM, Live, Recorded
  <2> QED BY <2>1, AlignedFits
<1> QED BY <1>1, MmapInvariant, PTL

(* mmap_alloc and mmap_free leave nothing mapped without a handle. *)
THEOREM RegionsUnmapped == MmapSpec => []NoRegionLeft
<1>1. MmapInv => NoRegionLeft
  BY DEF MmapInv, NothingMapped, NoRegionLeft
<1> QED BY <1>1, MmapInvariant, PTL

(* Every way out of the touch puts the program's SIGBUS action back. *)
THEOREM HandlerRestored == MmapSpec => []OwnHandlerOutside
<1>1. MmapInv => OwnHandlerOutside
  BY DEF MmapInv, InCall, OwnHandlerOutside
<1> QED BY <1>1, MmapInvariant, PTL

-----------------------------------------------------------------------------
(* The network devices. *)

Sys == {"socket", "first", "masks", "gset", "status", "write", "err", "close"}

(* What the functions have done between two system calls: c is the call, e *)
(* the errno of its thread.                                                *)
CallOK(c, e) ==
  /\ c.pc = "idle" => c.fn = "none"
  /\ c.pc \in Sys => c.fn # "none"
  /\ c.pc = "bad" => c.fn \in Getters
  /\ c.pc \in {"masks", "gset", "status"} => c.fn = "netdev_get_link"
  /\ c.pc = "write" => c.fn \in Setters
  /\ c.fn = "netdev_set_channels" => c.n \in Counts
  /\ c.pc \in {"socket", "first", "masks", "gset", "write"} =>
       c.filled = 0 \/ (c.filled = 1 /\ c.fn = "netdev_get_offloads")
  /\ c.pc = "status" => c.filled = 1
  /\ c.pc \in Sys \ {"close"} => c.ret = 0
  /\ c.pc \in {"socket", "first", "masks", "status", "write"} => c.failed = 0
  /\ c.pc = "err" => c.failed = e /\ e # 0
  /\ c.pc = "close" =>
       /\ c.ret >= 0
       /\ c.fn \in Setters => c.ret = 0
       /\ c.failed # 0 => \/ c.fn \in {"netdev_get_mac_addr", "netdev_get_link"}
                          \/ c.fn = "netdev_get_channels" /\ c.failed = EOPNOTSUPP
  /\ c.pc = "done" =>
       /\ c.fn # "none"
       /\ c.ret < 0 => /\ c.failed # 0
                       /\ c.ret = -c.failed \/ (c.fn = "netdev_get_link" /\ c.ret = -1)
       /\ c.ret >= 0 /\ c.failed # 0 =>
            \/ c.fn \in {"netdev_get_mac_addr", "netdev_get_link"}
            \/ c.fn = "netdev_get_channels" /\ c.failed = EOPNOTSUPP

CallsOK == \A t \in Threads : CallOK(th[t], errno[t])

(* Two calls that change the same interface are not alone. *)
Overlaps ==
  \A t, u \in Threads :
    t # u /\ th[t].fn \in Setters /\ th[u].fn \in Setters /\ th[t].if = th[u].if =>
      ~th[t].alone /\ ~th[u].alone

Asked(c) ==
  IF c.fn = "netdev_set_channels" THEN <<c.was[1], c.n>>
  ELSE <<(c.was[1] \ Clears[c.fn]) \cup Sets[c.fn], c.was[2]>>

(* What the interface of a change that runs alone is: as it was up to the  *)
(* write, and as asked after it; fl and ch are its flags and channels.     *)
ProgressOK(c, fl, ch) ==
  c.fn \in Setters /\ c.alone =>
    /\ c.pc \in {"socket", "first", "write", "err"} => <<fl, ch>> = c.was
    /\ c.pc = "write" /\ c.fn \in Changers => c.ifr = c.was[1]
    /\ c.pc = "close" => <<fl, ch>> = Asked(c)
    /\ c.pc = "done" => <<fl, ch>> = IF c.ret # 0 THEN c.was ELSE Asked(c)

Progress == \A t \in Threads : ProgressOK(th[t], flags[th[t].if], channels[th[t].if])

NetdevInv ==
  /\ TypeOK
  /\ NoSocketLeft
  /\ CallsOK
  /\ Overlaps
  /\ Progress

-----------------------------------------------------------------------------
(* The greater of a number of queues and 1. *)
LEMMA AtLeastOneQueue ==
  ASSUME NEW q \in Nat
  PROVE  Max({q, 1}) \in Nat /\ Max({q, 1}) >= 1
<1>1. \E x \in {q, 1} : \A y \in {q, 1} : x >= y
  <2>1. CASE q >= 1
    BY <2>1
  <2>2. CASE ~(q >= 1)
    BY <2>2
  <2> QED BY <2>1, <2>2
<1> QED BY <1>1 DEF Max

(* A step of thread t that leaves the kernel alone: what has to be shown   *)
(* is about the call c that t is in afterwards.                            *)
LEMMA OwnStep ==
  ASSUME NetdevInv, NEW t \in Threads, NEW c \in CallState, NEW e \in Errnos \cup {0},
         th' = [th EXCEPT ![t] = c], errno' = [errno EXCEPT ![t] = e],
         UNCHANGED kernelVars,
         socks' \in {socks, socks \cup {t}, socks \ {t}},
         t \in socks' => c.pc \in Sys \ {"socket"},
         CallOK(c, e),
         ProgressOK(c, flags[c.if], channels[c.if]),
         \/ c.fn \notin Setters
         \/ c.fn = th[t].fn /\ c.if = th[t].if /\ c.alone = th[t].alone
  PROVE  NetdevInv'
<1> USE DEF NetdevInv, TypeOK, kernelVars
<1>1. TypeOK'
  OBVIOUS
<1>2. NoSocketLeft'
  BY DEF NoSocketLeft, Sys
<1>3. CallsOK'
  <2> SUFFICES ASSUME NEW u \in Threads PROVE CallOK(th'[u], errno'[u])
    BY DEF CallsOK
  <2> QED BY DEF CallsOK
<1>4. Overlaps'
  BY DEF Overlaps
<1>5. Progress'
  <2> SUFFICES ASSUME NEW u \in Threads
               PROVE  ProgressOK(th'[u], flags'[th'[u].if], channels'[th'[u].if])
    BY DEF Progress
  <2> QED BY DEF Progress
<1> QED BY <1>1, <1>2, <1>3, <1>4, <1>5

-----------------------------------------------------------------------------
(* The functions that change something, by name. *)
LEMMA FunctionNames ==
  /\ Changers = {"netdev_promiscuous_enable", "netdev_promiscuous_disable",
                 "netdev_set_link_up", "netdev_set_link_down"}
  /\ Setters = Changers \cup {"netdev_set_channels"}
BY DEF Changers, Setters, Sets

(* The facts about its own call that a step of t starts from. *)
Own(t) ==
  /\ th[t] \in CallState /\ errno[t] \in Errnos \cup {0}
  /\ th \in [Threads -> CallState] /\ errno \in [Threads -> Errnos \cup {0}]
  /\ CallOK(th[t], errno[t])
  /\ ProgressOK(th[t], flags[th[t].if], channels[th[t].if])
  /\ t \in socks => th[t].pc \in Sys \ {"socket"}
  /\ errno = [errno EXCEPT ![t] = errno[t]]
  /\ \A e \in Errnos : e \in Nat /\ e # 0

(* The invariant gives them. *)
LEMMA OwnFacts ==
  ASSUME NetdevInv, NEW t \in Threads
  PROVE  Own(t)
BY NetdevAssumption DEF Own, NetdevInv, TypeOK, CallsOK, Progress, NoSocketLeft, Sys

(* A socket is opened. *)
LEMMA SocketOpened ==
  ASSUME NetdevInv, NEW t \in Threads, th[t].pc = "socket", socks' = socks \cup {t},
         th' = [th EXCEPT ![t].pc = "first"], UNCHANGED <<kernelVars, errno>>
  PROVE  NetdevInv'
<1> DEFINE c == [th[t] EXCEPT !.pc = "first"]
<1>1. Own(t)
  BY OwnFacts
<1> USE DEF Own
<1>2. /\ th' = [th EXCEPT ![t] = c] /\ UNCHANGED kernelVars
      /\ errno' = [errno EXCEPT ![t] = errno[t]] /\ errno[t] \in Errnos \cup {0}
      /\ socks' \in {socks, socks \cup {t}, socks \ {t}}
  BY <1>1 DEF kernelVars
<1>3. c \in CallState
  BY <1>1 DEF CallState, kernelVars
<1>4. CallOK(c, errno[t])
  BY <1>1, FunctionNames DEF CallState, CallOK, Sys, Getters, kernelVars
<1>5. ProgressOK(c, flags[c.if], channels[c.if])
  BY <1>1, FunctionNames DEF CallState, CallOK, ProgressOK, Asked, Sys, kernelVars
<1>6. t \in socks' => c.pc \in Sys \ {"socket"}
  BY <1>1 DEF CallState, Sys, kernelVars
<1>7. c.fn = th[t].fn /\ c.if = th[t].if /\ c.alone = th[t].alone
  BY <1>1 DEF CallState
<1> HIDE DEF c
<1> QED BY <1>2, <1>3, <1>4, <1>5, <1>6, <1>7, OwnStep

(* No socket is to be had. *)
LEMMA SocketFails ==
  ASSUME NetdevInv, NEW t \in Threads, NEW e \in Errnos, th[t].pc = "socket", Fails(t, e),
         UNCHANGED <<kernelVars, socks>>,
         th' = [th EXCEPT ![t].pc = "done", ![t].failed = e,
                          ![t].ret = IF th[t].fn = "netdev_get_link" THEN -1 ELSE -e]
  PROVE  NetdevInv'
<1> DEFINE c == [th[t] EXCEPT !.pc = "done", !.failed = e,
                      !.ret = IF th[t].fn = "netdev_get_link" THEN -1 ELSE -e]
<1>1. Own(t)
  BY OwnFacts
<1> USE DEF Own
<1>2. (IF th[t].fn = "netdev_get_link" THEN -1 ELSE -e) \in Int
  BY <1>1
<1>3. /\ th' = [th EXCEPT ![t] = c] /\ UNCHANGED kernelVars
      /\ errno' = [errno EXCEPT ![t] = e] /\ e \in Errnos \cup {0}
      /\ socks' \in {socks, socks \cup {t}, socks \ {t}}
  BY <1>1, <1>2 DEF Fails, kernelVars
<1>4. c \in CallState
  BY ZenonT(60), <1>1, <1>2 DEF CallState, Fails, kernelVars
<1>5. CallOK(c, e)
  BY <1>1, FunctionNames, <1>2 DEF CallState, CallOK, Sys, Getters, Fails, kernelVars
<1>6. ProgressOK(c, flags[c.if], channels[c.if])
  BY <1>1, FunctionNames, <1>2 DEF CallState, CallOK, ProgressOK, Asked, Sys, Fails, kernelVars
<1>7. t \in socks' => c.pc \in Sys \ {"socket"}
  BY <1>1, <1>2 DEF CallState, Sys, Fails, kernelVars
<1>8. c.fn = th[t].fn /\ c.if = th[t].if /\ c.alone = th[t].alone
  BY <1>1 DEF CallState
<1> HIDE DEF c
<1> QED BY <1>3, <1>4, <1>5, <1>6, <1>7, <1>8, OwnStep

(* netdev_change_flags reads the flags. *)
LEMMA ReadFlagsOK ==
  ASSUME NetdevInv, NEW t \in Threads, ReadFlags(t)
  PROVE  NetdevInv'
<1> DEFINE c == [th[t] EXCEPT !.pc = "write", !.ifr = flags[th[t].if]]
<1>1. Own(t)
  BY OwnFacts
<1> USE DEF Own
<1>2. /\ th' = [th EXCEPT ![t] = c] /\ UNCHANGED kernelVars
      /\ errno' = [errno EXCEPT ![t] = errno[t]] /\ errno[t] \in Errnos \cup {0}
      /\ socks' \in {socks, socks \cup {t}, socks \ {t}}
  BY <1>1 DEF ReadFlags, At, Kept, kernelVars, NetdevInv, TypeOK
<1>3. c \in CallState
  BY <1>1 DEF CallState, ReadFlags, At, Kept, kernelVars, NetdevInv, TypeOK
<1>4. CallOK(c, errno[t])
  BY <1>1, FunctionNames DEF CallState, CallOK, Sys, Getters, ReadFlags, At, Kept,
                             kernelVars, NetdevInv, TypeOK
<1>5. ProgressOK(c, flags[c.if], channels[c.if])
  BY <1>1, FunctionNames DEF CallState, CallOK, ProgressOK, Asked, Sys, ReadFlags, At, Kept,
                             kernelVars, NetdevInv, TypeOK
<1>6. t \in socks' => c.pc \in Sys \ {"socket"}
  BY <1>1 DEF CallState, Sys, ReadFlags, At, Kept, kernelVars, NetdevInv, TypeOK
<1>7. c.fn = th[t].fn /\ c.if = th[t].if /\ c.alone = th[t].alone
  BY <1>1 DEF CallState
<1> HIDE DEF c
<1> QED BY <1>2, <1>3, <1>4, <1>5, <1>6, <1>7, OwnStep

(* The functions that store a result and close. *)
LEMMA StoredOK ==
  ASSUME NetdevInv, NEW t \in Threads, Stored(t), Kept,
         \/ At(t, "first", {"netdev_get_mac_addr", "netdev_get_offloads",
                            "netdev_get_ring_params"})
         \/ At(t, "status", {"netdev_get_link"})
  PROVE  NetdevInv'
<1> DEFINE c == [th[t] EXCEPT !.pc = "close", !.filled = @ + 1]
<1>1. Own(t)
  BY OwnFacts
<1> USE DEF Own
<1>2. /\ th' = [th EXCEPT ![t] = c] /\ UNCHANGED kernelVars
      /\ errno' = [errno EXCEPT ![t] = errno[t]] /\ errno[t] \in Errnos \cup {0}
      /\ socks' \in {socks, socks \cup {t}, socks \ {t}}
  BY <1>1 DEF Stored, CallOK, At, Kept, kernelVars
<1>3. c \in CallState
  BY <1>1 DEF CallState, Stored, CallOK, At, Kept, kernelVars
<1>4. CallOK(c, errno[t])
  BY <1>1, FunctionNames DEF CallState, CallOK, Sys, Getters, Stored, At, Kept, kernelVars
<1>5. ProgressOK(c, flags[c.if], channels[c.if])
  BY <1>1, FunctionNames DEF CallState, CallOK, ProgressOK, Asked, Sys, Stored, At, Kept,
                             kernelVars
<1>6. t \in socks' => c.pc \in Sys \ {"socket"}
  BY <1>1 DEF CallState, Sys, Stored, CallOK, At, Kept, kernelVars
<1>7. c.fn = th[t].fn /\ c.if = th[t].if /\ c.alone = th[t].alone
  BY <1>1 DEF CallState
<1> HIDE DEF c
<1> QED BY <1>2, <1>3, <1>4, <1>5, <1>6, <1>7, OwnStep

(* netdev_promiscuous_get and netdev_get_channels answer with a number. *)
LEMMA AnswerOK ==
  ASSUME NetdevInv, NEW t \in Threads, NEW r \in Nat, Kept,
         At(t, "first", {"netdev_promiscuous_get", "netdev_get_channels"}),
         th' = [th EXCEPT ![t].pc = "close", ![t].filled = 1, ![t].ret = r]
  PROVE  NetdevInv'
<1> DEFINE c == [th[t] EXCEPT !.pc = "close", !.filled = 1, !.ret = r]
<1>1. Own(t)
  BY OwnFacts
<1> USE DEF Own
<1>2. r \in Int /\ r >= 0 /\ 1 \in 0..2
  OBVIOUS
<1>3. /\ th' = [th EXCEPT ![t] = c] /\ UNCHANGED kernelVars
      /\ errno' = [errno EXCEPT ![t] = errno[t]] /\ errno[t] \in Errnos \cup {0}
      /\ socks' \in {socks, socks \cup {t}, socks \ {t}}
  BY <1>1, <1>2 DEF At, Kept, kernelVars
<1>4. c \in CallState
  BY <1>1, <1>2 DEF CallState, At, Kept, kernelVars
<1>5. CallOK(c, errno[t])
  BY <1>1, FunctionNames, <1>2 DEF CallState, CallOK, Sys, Getters, At, Kept, kernelVars
<1>6. ProgressOK(c, flags[c.if], channels[c.if])
  BY <1>1, FunctionNames, <1>2 DEF CallState, CallOK, ProgressOK, Asked, Sys, At, Kept,
                                   kernelVars
<1>7. t \in socks' => c.pc \in Sys \ {"socket"}
  BY <1>1, <1>2 DEF CallState, Sys, At, Kept, kernelVars
<1>8. c.fn = th[t].fn /\ c.if = th[t].if /\ c.alone = th[t].alone
  BY <1>1 DEF CallState
<1> HIDE DEF c
<1> QED BY <1>3, <1>4, <1>5, <1>6, <1>7, <1>8, OwnStep

(* netdev_set_channels reads the number of channels. *)
LEMMA ReadChannelsOK ==
  ASSUME NetdevInv, NEW t \in Threads, ReadChannels(t)
  PROVE  NetdevInv'
<1> DEFINE c == [th[t] EXCEPT !.pc = IF channels[th[t].if] = th[t].n THEN "close" ELSE "write"]
<1>1. Own(t)
  BY OwnFacts
<1> USE DEF Own
<1>2. /\ th' = [th EXCEPT ![t] = c] /\ UNCHANGED kernelVars
      /\ errno' = [errno EXCEPT ![t] = errno[t]] /\ errno[t] \in Errnos \cup {0}
      /\ socks' \in {socks, socks \cup {t}, socks \ {t}}
  BY <1>1 DEF ReadChannels, At, Kept, kernelVars
<1>3. c \in CallState
  BY <1>1 DEF CallState, ReadChannels, At, Kept, kernelVars
<1>4. CallOK(c, errno[t])
  BY <1>1, FunctionNames DEF CallState, CallOK, Sys, Getters, ReadChannels, At, Kept, kernelVars
<1>5. ProgressOK(c, flags[c.if], channels[c.if])
  BY <1>1, FunctionNames DEF CallState, CallOK, ProgressOK, Asked, Sys, ReadChannels, At,
                             Kept, kernelVars
<1>6. t \in socks' => c.pc \in Sys \ {"socket"}
  BY <1>1 DEF CallState, Sys, ReadChannels, At, Kept, kernelVars
<1>7. c.fn = th[t].fn /\ c.if = th[t].if /\ c.alone = th[t].alone
  BY <1>1 DEF CallState
<1> HIDE DEF c
<1> QED BY <1>2, <1>3, <1>4, <1>5, <1>6, <1>7, OwnStep

(* netdev_get_link goes on to its next call, or ends without an answer. *)
LEMMA LinkStepOK ==
  ASSUME NetdevInv, NEW t \in Threads, NEW where, Kept,
         th' = [th EXCEPT ![t].pc = where],
         \/ At(t, "first", {"netdev_get_link"}) /\ where = "masks"
         \/ At(t, "masks", {"netdev_get_link"}) /\ where = "close"
         \/ At(t, "gset", {"netdev_get_link"}) /\ where = "close"
  PROVE  NetdevInv'
<1> DEFINE c == [th[t] EXCEPT !.pc = where]
<1>1. Own(t)
  BY OwnFacts
<1> USE DEF Own
<1>2. where \in {"masks", "close"}
  BY DEF At
<1>3. /\ th' = [th EXCEPT ![t] = c] /\ UNCHANGED kernelVars
      /\ errno' = [errno EXCEPT ![t] = errno[t]] /\ errno[t] \in Errnos \cup {0}
      /\ socks' \in {socks, socks \cup {t}, socks \ {t}}
  BY <1>1, <1>2 DEF At, Kept, kernelVars
<1>4. c \in CallState
  BY <1>1, <1>2 DEF CallState, At, Kept, kernelVars
<1>5. CallOK(c, errno[t])
  BY <1>1, FunctionNames, <1>2 DEF CallState, CallOK, Sys, Getters, At, Kept, kernelVars
<1>6. ProgressOK(c, flags[c.if], channels[c.if])
  BY <1>1, FunctionNames, <1>2 DEF CallState, CallOK, ProgressOK, Asked, Sys, At, Kept,
                                   kernelVars
<1>7. t \in socks' => c.pc \in Sys \ {"socket"}
  BY <1>1, <1>2 DEF CallState, Sys, At, Kept, kernelVars
<1>8. c.fn = th[t].fn /\ c.if = th[t].if /\ c.alone = th[t].alone
  BY <1>1 DEF CallState
<1> HIDE DEF c
<1> QED BY <1>3, <1>4, <1>5, <1>6, <1>7, <1>8, OwnStep

(* netdev_get_link has the settings. *)
LEMMA LinkFilledOK ==
  ASSUME NetdevInv, NEW t \in Threads, Kept, At(t, "masks", {"netdev_get_link"}),
         th' = [th EXCEPT ![t].pc = "status", ![t].filled = 1]
  PROVE  NetdevInv'
<1> DEFINE c == [th[t] EXCEPT !.pc = "status", !.filled = 1]
<1>1. Own(t)
  BY OwnFacts
<1> USE DEF Own
<1>2. 1 \in 0..2
  OBVIOUS
<1>3. /\ th' = [th EXCEPT ![t] = c] /\ UNCHANGED kernelVars
      /\ errno' = [errno EXCEPT ![t] = errno[t]] /\ errno[t] \in Errnos \cup {0}
      /\ socks' \in {socks, socks \cup {t}, socks \ {t}}
  BY <1>1, <1>2 DEF At, Kept, kernelVars
<1>4. c \in CallState
  BY <1>1, <1>2 DEF CallState, At, Kept, kernelVars
<1>5. CallOK(c, errno[t])
  BY <1>1, FunctionNames, <1>2 DEF CallState, CallOK, Sys, Getters, At, Kept, kernelVars
<1>6. ProgressOK(c, flags[c.if], channels[c.if])
  BY <1>1, FunctionNames, <1>2 DEF CallState, CallOK, ProgressOK, Asked, Sys, At, Kept,
                                   kernelVars
<1>7. t \in socks' => c.pc \in Sys \ {"socket"}
  BY <1>1, <1>2 DEF CallState, Sys, At, Kept, kernelVars
<1>8. c.fn = th[t].fn /\ c.if = th[t].if /\ c.alone = th[t].alone
  BY <1>1 DEF CallState
<1> HIDE DEF c
<1> QED BY <1>3, <1>4, <1>5, <1>6, <1>7, <1>8, OwnStep

(* An ioctl fails and the function goes on without it. *)
LEMMA ErrorGoesOn ==
  ASSUME NetdevInv, NEW t \in Threads, NEW e \in Errnos, NEW where, Fails(t, e),
         UNCHANGED <<kernelVars, socks>>,
         \/ At(t, "first", {"netdev_get_mac_addr"}) /\ where = "close"
         \/ At(t, "first", {"netdev_get_link"}) /\ where = "gset"
         \/ th[t].pc \in {"first", "masks", "gset", "status", "write"} /\ where = "err",
         th' = [th EXCEPT ![t].pc = where, ![t].failed = e]
  PROVE  NetdevInv'
<1> DEFINE c == [th[t] EXCEPT !.pc = where, !.failed = e]
<1>1. Own(t)
  BY OwnFacts
<1> USE DEF Own
<1>2. /\ th' = [th EXCEPT ![t] = c] /\ UNCHANGED kernelVars
      /\ errno' = [errno EXCEPT ![t] = e] /\ e \in Errnos \cup {0}
      /\ socks' \in {socks, socks \cup {t}, socks \ {t}}
  BY <1>1 DEF At, Fails, kernelVars
<1>3. c \in CallState
  BY <1>1 DEF CallState, At, Fails, kernelVars
<1>4. CallOK(c, e)
  BY <1>1, FunctionNames DEF CallState, CallOK, Sys, Getters, At, Fails, kernelVars
<1>5. ProgressOK(c, flags[c.if], channels[c.if])
  BY <1>1, FunctionNames DEF CallState, CallOK, ProgressOK, Asked, Sys, At, Fails, kernelVars
<1>6. t \in socks' => c.pc \in Sys \ {"socket"}
  BY <1>1 DEF CallState, Sys, At, Fails, kernelVars
<1>7. c.fn = th[t].fn /\ c.if = th[t].if /\ c.alone = th[t].alone
  BY <1>1 DEF CallState
<1> HIDE DEF c
<1> QED BY <1>2, <1>3, <1>4, <1>5, <1>6, <1>7, OwnStep

(* netdev_get_channels counts the queues in sysfs. *)
LEMMA SysfsOK ==
  ASSUME NetdevInv, NEW t \in Threads, NEW q \in Nat, Fails(t, EOPNOTSUPP),
         UNCHANGED <<kernelVars, socks>>, At(t, "first", {"netdev_get_channels"}),
         th' = [th EXCEPT ![t].pc = "close", ![t].failed = EOPNOTSUPP, ![t].filled = 1,
                          ![t].ret = Max({q, 1})]
  PROVE  NetdevInv'
<1> DEFINE c == [th[t] EXCEPT !.pc = "close", !.failed = EOPNOTSUPP, !.filled = 1,
                      !.ret = Max({q, 1})]
<1>1. Own(t)
  BY OwnFacts
<1> USE DEF Own
<1>2. EOPNOTSUPP \in Errnos /\ Max({q, 1}) \in Int /\ Max({q, 1}) >= 0 /\ 1 \in 0..2
  BY NetdevAssumption, AtLeastOneQueue
<1>3. /\ th' = [th EXCEPT ![t] = c] /\ UNCHANGED kernelVars
      /\ errno' = [errno EXCEPT ![t] = EOPNOTSUPP] /\ EOPNOTSUPP \in Errnos \cup {0}
      /\ socks' \in {socks, socks \cup {t}, socks \ {t}}
  BY <1>1, <1>2 DEF At, Fails, kernelVars
<1>4. c \in CallState
  BY <1>1, <1>2 DEF CallState, At, Fails, kernelVars
<1>5. CallOK(c, EOPNOTSUPP)
  BY <1>1, FunctionNames, <1>2 DEF CallState, CallOK, Sys, Getters, At, Fails, kernelVars
<1>6. ProgressOK(c, flags[c.if], channels[c.if])
  BY <1>1, FunctionNames, <1>2 DEF CallState, CallOK, ProgressOK, Asked, Sys, At, Fails,
                                   kernelVars
<1>7. t \in socks' => c.pc \in Sys \ {"socket"}
  BY <1>1, <1>2 DEF CallState, Sys, At, Fails, kernelVars
<1>8. c.fn = th[t].fn /\ c.if = th[t].if /\ c.alone = th[t].alone
  BY <1>1 DEF CallState
<1> HIDE DEF c
<1> QED BY <1>3, <1>4, <1>5, <1>6, <1>7, <1>8, OwnStep

(* The error path closes the socket and returns -errno. *)
LEMMA CloseErrOK ==
  ASSUME NetdevInv, NEW t \in Threads, CloseErr(t)
  PROVE  NetdevInv'
<1> DEFINE c == [th[t] EXCEPT !.pc = "done", !.ret = -errno[t]]
<1>1. Own(t)
  BY OwnFacts
<1> USE DEF Own
<1>2. -errno[t] \in Int
  BY <1>1
<1>3. /\ th' = [th EXCEPT ![t] = c] /\ UNCHANGED kernelVars
      /\ errno' = [errno EXCEPT ![t] = errno[t]] /\ errno[t] \in Errnos \cup {0}
      /\ socks' \in {socks, socks \cup {t}, socks \ {t}}
  BY <1>1, <1>2 DEF CloseErr, ErrRet, kernelVars
<1>4. c \in CallState
  BY <1>1, <1>2 DEF CallState, CloseErr, ErrRet, kernelVars
<1>5. CallOK(c, errno[t])
  BY <1>1, FunctionNames, <1>2 DEF CallState, CallOK, Sys, Getters, CloseErr, ErrRet, kernelVars
<1>6. ProgressOK(c, flags[c.if], channels[c.if])
  BY <1>1, FunctionNames, <1>2 DEF CallState, CallOK, ProgressOK, Asked, Sys, CloseErr,
                                   ErrRet, kernelVars
<1>7. t \in socks' => c.pc \in Sys \ {"socket"}
  BY <1>1, <1>2 DEF CallState, Sys, CloseErr, ErrRet, kernelVars
<1>8. c.fn = th[t].fn /\ c.if = th[t].if /\ c.alone = th[t].alone
  BY <1>1 DEF CallState
<1> HIDE DEF c
<1> QED BY <1>3, <1>4, <1>5, <1>6, <1>7, <1>8, OwnStep

(* The socket is closed and the function returns, or opens the next. *)
LEMMA CloseOK ==
  ASSUME NetdevInv, NEW t \in Threads, Close(t)
  PROVE  NetdevInv'
<1> DEFINE c == [th[t] EXCEPT !.pc = AfterClose(t)]
<1>1. Own(t)
  BY OwnFacts
<1> USE DEF Own
<1>2. /\ th' = [th EXCEPT ![t] = c] /\ UNCHANGED kernelVars
      /\ errno' = [errno EXCEPT ![t] = errno[t]] /\ errno[t] \in Errnos \cup {0}
      /\ socks' \in {socks, socks \cup {t}, socks \ {t}}
  BY <1>1 DEF Close, AfterClose, kernelVars
<1>3. c \in CallState
  BY <1>1 DEF CallState, Close, AfterClose, kernelVars
<1>4. CallOK(c, errno[t])
  BY <1>1, FunctionNames DEF CallState, CallOK, Sys, Getters, Close, AfterClose, kernelVars
<1>5. ProgressOK(c, flags[c.if], channels[c.if])
  BY <1>1, FunctionNames DEF CallState, CallOK, ProgressOK, Asked, Sys, Close, AfterClose,
                             kernelVars
<1>6. t \in socks' => c.pc \in Sys \ {"socket"}
  BY <1>1 DEF CallState, Sys, Close, AfterClose, kernelVars
<1>7. c.fn = th[t].fn /\ c.if = th[t].if /\ c.alone = th[t].alone
  BY <1>1 DEF CallState
<1> HIDE DEF c
<1> QED BY <1>2, <1>3, <1>4, <1>5, <1>6, <1>7, OwnStep

-----------------------------------------------------------------------------
(* The call of a thread that is in no function. *)
LEMMA IdleCall == Idle \in CallState /\ Idle.pc = "idle" /\ Idle.fn = "none"
<1>1. (CHOOSE i \in Interfaces : TRUE) \in Interfaces
  BY NetdevAssumption
<1>2. {} \in SUBSET {UP, PROMISC} /\ 0 \in 0..2 /\ 0 \in Counts \cup {0} /\ 0 \in Errnos \cup {0}
  OBVIOUS
<1> QED BY <1>1, <1>2 DEF Idle, CallState

(* The caller takes the result. *)
LEMMA ReturnOK ==
  ASSUME NetdevInv, NEW t \in Threads, Return(t)
  PROVE  NetdevInv'
<1>1. /\ t \in socks => th[t].pc \in Sys \ {"socket"}
      /\ errno = [errno EXCEPT ![t] = errno[t]] /\ errno[t] \in Errnos \cup {0}
  BY OwnFacts DEF Own
<1>2. th[t].pc \notin Sys
  BY DEF Return, Sys
<1>3. CallOK(Idle, errno[t]) /\ ProgressOK(Idle, flags[Idle.if], channels[Idle.if])
  BY IdleCall, FunctionNames DEF CallOK, ProgressOK, Sys
<1>4. Idle.fn \notin Setters
  BY IdleCall, FunctionNames
<1>5. /\ th' = [th EXCEPT ![t] = Idle] /\ UNCHANGED kernelVars /\ socks' = socks
      /\ errno' = [errno EXCEPT ![t] = errno[t]]
  BY <1>1 DEF Return, kernelVars
<1> QED BY <1>1, <1>2, <1>3, <1>4, <1>5, IdleCall, OwnStep

(* A function refuses its arguments. *)
LEMMA BadArgumentOK ==
  ASSUME NetdevInv, NEW t \in Threads, NEW f, BadArgument(t, f)
  PROVE  NetdevInv'
<1>1. PICK r \in Int : th' = [th EXCEPT ![t] = [Idle EXCEPT !.pc = "bad", !.fn = f, !.ret = r]]
  <2>1. -errno[t] \in Int /\ -1 \in Int /\ -EINVAL \in Int
    BY OwnFacts DEF EINVAL, Own
  <2> QED BY <2>1 DEF BadArgument
<1> DEFINE c == [Idle EXCEPT !.pc = "bad", !.fn = f, !.ret = r]
<1>2. /\ t \in socks => th[t].pc \in Sys \ {"socket"}
      /\ errno = [errno EXCEPT ![t] = errno[t]] /\ errno[t] \in Errnos \cup {0}
  BY OwnFacts DEF Own
<1>3. f \in Getters /\ f \notin Setters
  BY FunctionNames DEF BadArgument, Getters
<1>4. c \in CallState /\ c.pc = "bad" /\ c.fn = f
  BY <1>3, IdleCall DEF CallState
<1>5. CallOK(c, errno[t]) /\ ProgressOK(c, flags[c.if], channels[c.if])
  BY <1>3, <1>4, FunctionNames DEF CallOK, ProgressOK, Sys
<1>6. t \notin socks
  BY <1>2 DEF BadArgument, Sys
<1>7. /\ th' = [th EXCEPT ![t] = c] /\ UNCHANGED kernelVars /\ socks' = socks
      /\ errno' = [errno EXCEPT ![t] = errno[t]]
  BY <1>1, <1>2 DEF BadArgument, kernelVars
<1> HIDE DEF c
<1> QED BY <1>2, <1>3, <1>4, <1>5, <1>6, <1>7, OwnStep

-----------------------------------------------------------------------------
(* The write of a change: an interface gets its new flags or channels.  No *)
(* other change of that interface is alone.                                *)
LEMMA WriteOK ==
  ASSUME NetdevInv, NEW t \in Threads, NEW fl \in SUBSET {UP, PROMISC}, NEW ch \in Counts,
         th[t].pc = "write", th' = [th EXCEPT ![t].pc = "close"], UNCHANGED <<socks, errno>>,
         flags' = [flags EXCEPT ![th[t].if] = fl],
         channels' = [channels EXCEPT ![th[t].if] = ch],
         th[t].alone => <<fl, ch>> = Asked(th[t])
  PROVE  NetdevInv'
<1> DEFINE c == [th[t] EXCEPT !.pc = "close"]
<1>1. /\ th[t] \in CallState /\ th \in [Threads -> CallState]
      /\ CallOK(th[t], errno[t])
      /\ t \in socks => th[t].pc \in Sys \ {"socket"}
  BY OwnFacts DEF Own
<1>2. th' = [th EXCEPT ![t] = c]
  OBVIOUS
<1>3. c \in CallState /\ c.pc = "close" /\ c.fn = th[t].fn /\ c.if = th[t].if
      /\ c.alone = th[t].alone /\ c.ret = 0 /\ Asked(c) = Asked(th[t])
  BY <1>1 DEF CallState, CallOK, Asked, Sys
<1>4. CallOK(c, errno[t])
  BY <1>1, FunctionNames DEF CallState, CallOK, Sys, Getters
<1>5. th[t].fn \in Setters
  BY <1>1 DEF CallOK
<1> HIDE DEF c
<1> USE DEF NetdevInv
<1>6. TypeOK'
  BY <1>2, <1>3 DEF TypeOK
<1>7. NoSocketLeft'
  BY <1>1, <1>2, <1>3 DEF NoSocketLeft, TypeOK
<1>8. CallsOK'
  <2> SUFFICES ASSUME NEW u \in Threads PROVE CallOK(th'[u], errno'[u])
    BY DEF CallsOK
  <2> QED BY <1>1, <1>2, <1>4 DEF CallsOK
<1>9. Overlaps'
  BY <1>1, <1>2, <1>3 DEF Overlaps
<1>10. Progress'
  <2> SUFFICES ASSUME NEW u \in Threads
               PROVE  ProgressOK(th'[u], flags'[th'[u].if], channels'[th'[u].if])
    BY DEF Progress
  <2>1. CASE u = t
    <3>1. th'[u] = c /\ flags'[c.if] = fl /\ channels'[c.if] = ch
      BY <2>1, <1>1, <1>2, <1>3 DEF TypeOK, CallState
    <3>2. ProgressOK(c, fl, ch)
      BY <1>3 DEF ProgressOK
    <3> QED BY <3>1, <3>2
  <2>2. CASE u # t /\ th[u].if = th[t].if
    <3>1. th'[u] = th[u] /\ (th[u].fn \in Setters => ~th[u].alone)
      BY <2>2, <1>1, <1>2, <1>5 DEF Overlaps
    <3> QED BY <3>1 DEF ProgressOK
  <2>3. CASE u # t /\ th[u].if # th[t].if
    <3>1. th'[u] = th[u] /\ flags'[th[u].if] = flags[th[u].if]
          /\ channels'[th[u].if] = channels[th[u].if]
      BY <2>3, <1>1, <1>2 DEF TypeOK, CallState
    <3> QED BY <3>1 DEF Progress
  <2> QED BY <2>1, <2>2, <2>3
<1> QED BY <1>6, <1>7, <1>8, <1>9, <1>10

(* SIOCSIFFLAGS writes what was asked for: the flags were read since.      *)
LEMMA WriteFlagsOK ==
  ASSUME NetdevInv, NEW t \in Threads, WriteFlags(t)
  PROVE  NetdevInv'
<1> DEFINE fl == NewFlags(th[t].ifr, th[t].fn)
           ch == channels[th[t].if]
<1>1. /\ th[t] \in CallState
      /\ CallOK(th[t], errno[t])
      /\ ProgressOK(th[t], flags[th[t].if], channels[th[t].if])
  BY OwnFacts DEF Own
<1>2. th[t].pc = "write" /\ th[t].fn \in Changers /\ th[t].fn # "netdev_set_channels"
      /\ th[t].fn \in Setters
  BY FunctionNames DEF WriteFlags, At
<1>3. Sets[th[t].fn] \subseteq {UP, PROMISC}
  BY <1>2, FunctionNames DEF Sets
<1>4. fl \in SUBSET {UP, PROMISC}
  BY <1>1, <1>3 DEF NewFlags, CallState
<1>5. ch \in Counts /\ channels' = [channels EXCEPT ![th[t].if] = ch]
  BY <1>1 DEF NetdevInv, TypeOK, WriteFlags, CallState
<1>6. th[t].alone => <<fl, ch>> = Asked(th[t])
  <2> SUFFICES ASSUME th[t].alone PROVE <<fl, ch>> = Asked(th[t])
    OBVIOUS
  <2>1. <<flags[th[t].if], ch>> = th[t].was /\ th[t].ifr = th[t].was[1]
    BY <1>1, <1>2 DEF ProgressOK
  <2>2. ch = th[t].was[2]
    BY <2>1
  <2> QED BY <2>1, <2>2, <1>2 DEF Asked, NewFlags
<1>7. /\ th' = [th EXCEPT ![t].pc = "close"] /\ UNCHANGED <<socks, errno>>
      /\ flags' = [flags EXCEPT ![th[t].if] = fl]
  BY DEF WriteFlags
<1> HIDE DEF fl, ch
<1> QED BY <1>2, <1>4, <1>5, <1>6, <1>7, WriteOK

(* ETHTOOL_SCHANNELS sets the count asked for. *)
LEMMA WriteChannelsOK ==
  ASSUME NetdevInv, NEW t \in Threads, WriteChannels(t)
  PROVE  NetdevInv'
<1> DEFINE fl == flags[th[t].if]
           ch == th[t].n
<1>1. /\ th[t] \in CallState
      /\ CallOK(th[t], errno[t])
      /\ ProgressOK(th[t], flags[th[t].if], channels[th[t].if])
  BY OwnFacts DEF Own
<1>2. th[t].pc = "write" /\ th[t].fn = "netdev_set_channels" /\ th[t].fn \in Setters
  BY FunctionNames DEF WriteChannels, At
<1>3. ch \in Counts
  BY <1>1, <1>2 DEF CallOK
<1>4. fl \in SUBSET {UP, PROMISC} /\ flags' = [flags EXCEPT ![th[t].if] = fl]
  BY <1>1 DEF NetdevInv, TypeOK, WriteChannels, CallState
<1>5. th[t].alone => <<fl, ch>> = Asked(th[t])
  <2> SUFFICES ASSUME th[t].alone PROVE <<fl, ch>> = Asked(th[t])
    OBVIOUS
  <2>1. <<fl, channels[th[t].if]>> = th[t].was
    BY <1>1, <1>2 DEF ProgressOK
  <2>2. fl = th[t].was[1]
    BY <2>1
  <2> QED BY <2>2, <1>2 DEF Asked
<1>6. /\ th' = [th EXCEPT ![t].pc = "close"] /\ UNCHANGED <<socks, errno>>
      /\ channels' = [channels EXCEPT ![th[t].if] = ch]
  BY DEF WriteChannels
<1> HIDE DEF fl, ch
<1> QED BY <1>2, <1>3, <1>4, <1>5, <1>6, WriteOK

(* A function is called: it and the other changes of its interface learn   *)
(* of each other.                                                          *)
LEMMA CallIsOK ==
  ASSUME NetdevInv, NEW t \in Threads, NEW f \in Calls[t], NEW i \in Interfaces,
         NEW n \in IF f = "netdev_set_channels" THEN Counts ELSE {0}, Call(t, f, i, n)
  PROVE  NetdevInv'
<1> DEFINE others == {u \in Threads \ {t} : th[u].fn \in Setters /\ th[u].if = i}
           b == others = {}
           c == [Idle EXCEPT !.pc = "socket", !.fn = f, !.if = i, !.n = n,
                             !.was = <<flags[i], channels[i]>>, !.alone = b]
           hit(u) == u \in others /\ f \in Setters
           d(u) == [th[u] EXCEPT !.alone = @ /\ ~hit(u)]
<1>1. th \in [Threads -> CallState] /\ th[t].pc = "idle" /\ t \notin socks
      /\ UNCHANGED <<flags, channels, socks, errno>>
  BY OwnFacts DEF Own, Call, kernelVars, Sys
<1>2. th' = [u \in Threads |-> IF u = t THEN c ELSE d(u)]
  BY DEF Call
<1>3. f \in Setters \cup Getters /\ f # "none" /\ n \in Counts \cup {0}
      /\ (f = "netdev_set_channels" => n \in Counts)
  BY NetdevAssumption, FunctionNames DEF Getters
<1>4. <<flags[i], channels[i]>> \in (SUBSET {UP, PROMISC}) \X (Counts \cup {0})
  BY DEF NetdevInv, TypeOK
<1>5. /\ c \in CallState /\ c.pc = "socket" /\ c.fn = f /\ c.if = i /\ c.n = n
      /\ c.was = <<flags[i], channels[i]>> /\ c.alone = b
      /\ c.filled = 0 /\ c.ret = 0 /\ c.failed = 0
  <2>1. b \in BOOLEAN
    OBVIOUS
  <2> HIDE DEF b
  <2>2. Idle \in CallState
    BY IdleCall
  <2> QED BY <1>3, <1>4, <2>1, <2>2 DEF CallState, Idle
<1>6. ASSUME NEW u \in Threads
      PROVE  /\ d(u) \in CallState /\ (d(u).alone => th[u].alone /\ ~hit(u))
             /\ d(u).pc = th[u].pc /\ d(u).fn = th[u].fn /\ d(u).if = th[u].if
             /\ d(u).n = th[u].n /\ d(u).ifr = th[u].ifr /\ d(u).ret = th[u].ret
             /\ d(u).filled = th[u].filled /\ d(u).failed = th[u].failed
             /\ d(u).was = th[u].was
  <2>1. th[u] \in CallState /\ (th[u].alone /\ ~hit(u)) \in BOOLEAN
    BY <1>1
  <2> HIDE DEF hit
  <2> QED BY <2>1 DEF CallState
<1> HIDE DEF b, c, d
<1> USE DEF NetdevInv
<1>7. TypeOK'
  BY <1>1, <1>2, <1>5, <1>6 DEF TypeOK
<1>8. NoSocketLeft'
  BY <1>1, <1>2, <1>6 DEF NoSocketLeft, TypeOK
<1>9. CallsOK'
  <2> SUFFICES ASSUME NEW u \in Threads PROVE CallOK(th'[u], errno'[u])
    BY DEF CallsOK
  <2>1. CASE u = t
    <3>1. th'[u] = c
      BY <2>1, <1>2
    <3>2. CallOK(c, errno[t])
      BY <1>3, <1>5, FunctionNames DEF CallOK, Sys, Getters
    <3> QED BY <2>1, <3>1, <3>2, <1>1
  <2>2. CASE u # t
    <3>1. th'[u] = d(u) /\ CallOK(th[u], errno[u])
      BY <2>2, <1>2 DEF CallsOK
    <3>2. CallOK(d(u), errno[u])
      BY <3>1, <1>6 DEF CallOK
    <3> QED BY <3>1, <3>2, <1>1
  <2> QED BY <2>1, <2>2
<1>10. Overlaps'
  <2> SUFFICES ASSUME NEW u \in Threads, NEW w \in Threads, u # w, th'[u].fn \in Setters,
                      th'[w].fn \in Setters, th'[u].if = th'[w].if
               PROVE  ~th'[u].alone
    BY DEF Overlaps
  <2>1. CASE u = t
    <3>1. th'[u] = c /\ th'[w] = d(w) /\ w # t
      BY <2>1, <1>2
    <3>2. w \in others
      BY <3>1, <1>5, <1>6
    <3> QED BY <3>1, <3>2, <1>5 DEF b
  <2>2. CASE w = t
    <3>1. th'[w] = c /\ th'[u] = d(u) /\ u # t
      BY <2>2, <1>2
    <3>2. hit(u)
      BY <3>1, <1>5, <1>6
    <3> QED BY <3>1, <3>2, <1>6
  <2>3. CASE u # t /\ w # t
    <3>1. th'[w] = d(w) /\ th'[u] = d(u)
      BY <2>3, <1>2
    <3> QED BY <3>1, <1>6 DEF Overlaps
  <2> QED BY <2>1, <2>2, <2>3
<1>11. Progress'
  <2> SUFFICES ASSUME NEW u \in Threads
               PROVE  ProgressOK(th'[u], flags[th'[u].if], channels[th'[u].if])
    BY <1>1 DEF Progress
  <2>1. CASE u = t
    BY <2>1, <1>2, <1>5 DEF ProgressOK
  <2>2. CASE u # t
    <3>1. th'[u] = d(u) /\ ProgressOK(th[u], flags[th[u].if], channels[th[u].if])
      BY <2>2, <1>2 DEF Progress
    <3>2. Asked(d(u)) = Asked(th[u])
      BY <1>6 DEF Asked
    <3> QED BY <3>1, <3>2, <1>6 DEF ProgressOK
  <2> QED BY <2>1, <2>2
<1> QED BY <1>7, <1>8, <1>9, <1>10, <1>11

-----------------------------------------------------------------------------
(* A system call of t fails. *)
LEMMA IoctlFailsOK ==
  ASSUME NetdevInv, NEW t \in Threads, IoctlFails(t)
  PROVE  NetdevInv'
<1>1. PICK e \in Errnos : IoctlFails(t)!2!(e)
  BY DEF IoctlFails
<1>2. CASE At(t, "first", {"netdev_get_channels"}) /\ e = EOPNOTSUPP
  <2>1. PICK q \in netdev_get_channels_from_sysfs :
          th' = [th EXCEPT ![t].pc = "close", ![t].failed = e, ![t].filled = 1,
                           ![t].ret = Max({q, 1})]
    BY <1>1, <1>2 DEF At
  <2>2. q \in Nat
    BY NetdevAssumption DEF netdev_get_channels_from_sysfs
  <2> QED BY <1>1, <1>2, <2>1, <2>2, SysfsOK DEF IoctlFails
<1>3. CASE ~(At(t, "first", {"netdev_get_channels"}) /\ e = EOPNOTSUPP)
  <2>1. \E where \in {"close", "gset", "err"} :
          /\ \/ At(t, "first", {"netdev_get_mac_addr"}) /\ where = "close"
             \/ At(t, "first", {"netdev_get_link"}) /\ where = "gset"
             \/ th[t].pc \in {"first", "masks", "gset", "status", "write"} /\ where = "err"
          /\ th' = [th EXCEPT ![t].pc = where, ![t].failed = e]
    BY <1>1, <1>3 DEF IoctlFails, AfterError
  <2> QED BY <1>1, <2>1, ErrorGoesOn DEF IoctlFails
<1> QED BY <1>2, <1>3

(* Every step of the program keeps the invariant. *)
LEMMA NextOK == NetdevInv /\ [Next]_vars => NetdevInv'
<1> SUFFICES ASSUME NetdevInv, [Next]_vars PROVE NetdevInv'
  OBVIOUS
<1>1. CASE UNCHANGED vars
  BY <1>1 DEF vars, NetdevInv, TypeOK, NoSocketLeft, CallsOK, Overlaps, Progress
<1>2. CASE Next
  <2>0. PICK t \in Threads : Next!(t)
    BY <1>2 DEF Next
  <2>1. ASSUME NEW f \in Calls[t], NEW i \in Interfaces,
               NEW n \in IF f = "netdev_set_channels" THEN Counts ELSE {0}, Call(t, f, i, n)
        PROVE  NetdevInv'
    BY <2>1, CallIsOK
  <2>2. ASSUME NEW f \in Calls[t], BadArgument(t, f) PROVE NetdevInv'
    BY <2>2, BadArgumentOK
  <2>3. CASE Socket(t)
    <3>1. CASE socks' = socks \cup {t} /\ th' = [th EXCEPT ![t].pc = "first"] /\ UNCHANGED errno
      BY <2>3, <3>1, SocketOpened DEF Socket
    <3>2. CASE \E e \in Errnos :
                 /\ Fails(t, e)
                 /\ th' = [th EXCEPT ![t].pc = "done", ![t].failed = e,
                             ![t].ret = IF th[t].fn = "netdev_get_link" THEN -1 ELSE -e]
                 /\ UNCHANGED socks
      BY <2>3, <3>2, SocketFails DEF Socket
    <3> QED BY <2>3, <3>1, <3>2 DEF Socket
  <2>4. CASE ReadFlags(t)
    BY <2>4, ReadFlagsOK
  <2>5. CASE netdev_promiscuous_get(t)
    <3>1. At(t, "first", {"netdev_promiscuous_get", "netdev_get_channels"})
      BY <2>5 DEF netdev_promiscuous_get, At
    <3>2. \E r \in Nat : th' = [th EXCEPT ![t].pc = "close", ![t].filled = 1, ![t].ret = r]
      BY <2>5 DEF netdev_promiscuous_get
    <3> QED BY <2>5, <3>1, <3>2, AnswerOK DEF netdev_promiscuous_get
  <2>6. CASE netdev_get_channels(t)
    <3>1. At(t, "first", {"netdev_promiscuous_get", "netdev_get_channels"})
      BY <2>6 DEF netdev_get_channels, At
    <3>2. \E r \in Nat : th' = [th EXCEPT ![t].pc = "close", ![t].filled = 1, ![t].ret = r]
      BY <2>6, NetdevAssumption DEF netdev_get_channels
    <3> QED BY <2>6, <3>1, <3>2, AnswerOK DEF netdev_get_channels
  <2>7. CASE \/ netdev_get_mac_addr(t) \/ get_device_offloads(t) \/ netdev_get_ring_params(t)
             \/ LinkStatus(t)
    <3>1. /\ Stored(t) /\ Kept
          /\ \/ At(t, "first", {"netdev_get_mac_addr", "netdev_get_offloads",
                                "netdev_get_ring_params"})
             \/ At(t, "status", {"netdev_get_link"})
      BY <2>7 DEF netdev_get_mac_addr, get_device_offloads, netdev_get_ring_params,
                  LinkStatus, At
    <3> QED BY <3>1, StoredOK
  <2>8. CASE ReadChannels(t)
    BY <2>8, ReadChannelsOK
  <2>9. CASE LinkSettings(t) \/ LinkMasks(t) \/ LinkGset(t)
    <3>1. CASE LinkSettings(t)
      BY <3>1, LinkStepOK DEF LinkSettings
    <3>2. CASE LinkMasks(t)
      BY <3>2, LinkStepOK, LinkFilledOK DEF LinkMasks
    <3>3. CASE LinkGset(t)
      BY <3>3, LinkStepOK DEF LinkGset
    <3> QED BY <2>9, <3>1, <3>2, <3>3
  <2>10. CASE WriteFlags(t)
    BY <2>10, WriteFlagsOK
  <2>11. CASE WriteChannels(t)
    BY <2>11, WriteChannelsOK
  <2>12. CASE IoctlFails(t)
    BY <2>12, IoctlFailsOK
  <2>13. CASE CloseErr(t)
    BY <2>13, CloseErrOK
  <2>14. CASE Close(t)
    BY <2>14, CloseOK
  <2>15. CASE Return(t)
    BY <2>15, ReturnOK
  <2> QED BY <2>0, <2>1, <2>2, <2>3, <2>4, <2>5, <2>6, <2>7, <2>8, <2>9, <2>10, <2>11, <2>12,
             <2>13, <2>14, <2>15
<1> QED BY <1>1, <1>2

(* No call has begun and no socket is open. *)
LEMMA InitOK == Init => NetdevInv
<1> SUFFICES ASSUME Init PROVE NetdevInv
  OBVIOUS
<1>1. TypeOK
  BY IdleCall DEF Init, TypeOK
<1>2. NoSocketLeft
  BY DEF Init, NoSocketLeft
<1>3. CallsOK
  <2>1. CallOK(Idle, 0)
    BY IdleCall DEF CallOK, Sys
  <2> QED BY <2>1 DEF Init, CallsOK
<1>4. Overlaps
  BY IdleCall, FunctionNames DEF Init, Overlaps
<1>5. Progress
  BY IdleCall, FunctionNames DEF Init, Progress, ProgressOK
<1> QED BY <1>1, <1>2, <1>3, <1>4, <1>5 DEF NetdevInv

(* The invariant holds throughout. *)
LEMMA NetdevInvariant == Spec => []NetdevInv
BY InitOK, NextOK, PTL DEF Spec

(* Whatever threads call, and whichever system calls fail, the variables   *)
(* keep their types.                                                       *)
THEOREM TypesHold == Spec => []TypeOK
<1>1. NetdevInv => TypeOK
  BY DEF NetdevInv
<1> QED BY <1>1, NetdevInvariant, PTL

(* No function of netdev_funcs.c returns with its socket open. *)
THEOREM SocketsClosed == Spec => []NoSocketLeft
<1>1. NetdevInv => NoSocketLeft
  BY DEF NetdevInv
<1> QED BY <1>1, NetdevInvariant, PTL

(* netdev_change_flags and netdev_set_channels make the change asked for,  *)
(* or none when they report an error, unless another change of the same    *)
(* interface runs meanwhile; changes of other interfaces do not matter.    *)
THEOREM ChangesAsAsked == Spec => []ChangedAsAsked
<1>1. NetdevInv => ChangedAsAsked
  <2> SUFFICES ASSUME NetdevInv, NEW t \in Threads, Done(t, Setters), th[t].alone
               PROVE  ChangedAsAsked!(t)
    BY DEF ChangedAsAsked
  <2>1. ProgressOK(th[t], flags[th[t].if], channels[th[t].if])
    BY OwnFacts DEF Own
  <2> QED BY <2>1 DEF Done, ProgressOK, Asked
<1> QED BY <1>1, NetdevInvariant, PTL

(* A negative result means a system call of the function's own that        *)
(* failed, the error number promised is that of the last that did,         *)
(* although errno is read after the socket was closed; and only the        *)
(* functions with another way to answer swallow a failure.                 *)
THEOREM FailuresReported == Spec => []FailureReported
<1>1. NetdevInv => FailureReported
  <2> SUFFICES ASSUME NetdevInv, NEW t \in Threads, Done(t, Setters \cup Getters)
               PROVE  FailureReported!(t)
    BY DEF FailureReported
  <2>1. CallOK(th[t], errno[t])
    BY OwnFacts DEF Own
  <2> QED BY <2>1 DEF Done, CallOK, ErrorNumbers
<1> QED BY <1>1, NetdevInvariant, PTL
=============================================================================
