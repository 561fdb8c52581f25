------------------------------- MODULE Salloc -------------------------------
(***************************************************************************)
(* The bump allocator of lib/utils/salloc.c.  One salloc_t is modelled:    *)
(* the three fields of the structure, the real length of the heap block    *)
(* behind ptr (what realloc was last asked for, which the structure does   *)
(* not record) and the ranges the callers hold.                            *)
(*                                                                         *)
(* realloc and calloc may fail at any call; a failed calloc or realloc of  *)
(* salloc_create leaves nothing behind, a failed realloc of salloc leaves  *)
(* ptr = NULL in a structure that stays in use.                            *)
(***************************************************************************)
EXTENDS Integers, FiniteSets

CONSTANTS
  Sizes,                      \* sizes callers ask for, 0 included
  DEFAULT_SALLOC_BLOCK_SIZE,  \* block size when salloc_create gets 0
  MaxUsed                     \* bound on the bytes handed out (below 2^64)

ASSUME SallocAssumption ==
  /\ Sizes \subseteq Nat
  /\ DEFAULT_SALLOC_BLOCK_SIZE \in Nat \ {0}
  /\ MaxUsed \in Nat

VARIABLES
  live,     \* a salloc_t exists
  ptr,      \* salloc->ptr is not NULL
  size,     \* salloc->size
  used,     \* salloc->used
  cap,      \* bytes really behind ptr
  allocs,   \* the ranges returned through *offset since creation
  ret       \* what the last call of salloc returned

sallocVars == <<live, ptr, size, used, cap, allocs, ret>>

Extent == [off : Nat, len : Nat \ {0}]

SallocTypeOK ==
  /\ live \in BOOLEAN
  /\ ptr \in BOOLEAN
  /\ size \in Nat
  /\ used \in Nat
  /\ cap \in Nat
  /\ allocs \in SUBSET Extent
  /\ ret \in {0, -1}

(* No structure: the zeroes are what calloc gives the next one. *)
SallocInit ==
  /\ live = FALSE
  /\ ptr = FALSE
  /\ size = 0
  /\ used = 0
  /\ cap = 0
  /\ allocs = {}
  /\ ret = 0

salloc_unused == size - used

(* salloc_create(n), when both heap calls succeed; otherwise it returns    *)
(* NULL and the state does not change.                                     *)
Create(n) ==
  /\ ~live
  /\ live' = TRUE
  /\ ptr' = TRUE
  /\ size' = IF n = 0 THEN DEFAULT_SALLOC_BLOCK_SIZE ELSE n
  /\ cap' = size'
  /\ used' = 0
  /\ allocs' = {}
  /\ ret' = 0

Destroy ==
  /\ live
  /\ live' = FALSE
  /\ ptr' = FALSE
  /\ size' = 0
  /\ used' = 0
  /\ cap' = 0
  /\ allocs' = {}
  /\ ret' = 0

TakeAtUsedStale(n) ==       \* slip: the fill level is not advanced
  /\ allocs' = allocs \union {[off |-> used, len |-> n]}
  /\ used' = used
  /\ ret' = 0

(* The two lines that hand out the bytes at the end of what is used. *)
TakeAtUsed(n) ==
  /\ allocs' = allocs \union {[off |-> used, len |-> n]}
  /\ used' = used + n
  /\ ret' = 0

(* size == 0 is refused. *)
SallocZero ==
  /\ live
  /\ 0 \in Sizes
  /\ ret' = -1
  /\ UNCHANGED <<live, ptr, size, used, cap, allocs>>

SallocFits(n) ==
  /\ live /\ n > 0
  /\ used + n <= MaxUsed
  /\ ptr /\ n <= salloc_unused
  /\ TakeAtUsed(n)
  /\ UNCHANGED <<live, ptr, size, cap>>

GrownSize(n) == size + n

(* The block is reallocated to the size of the request, and the request is *)
(* added to salloc->size.                                                  *)
SallocGrow(n) ==
  /\ live /\ n > 0
  /\ used + n <= MaxUsed
  /\ ~ptr \/ n > salloc_unused
  /\ ptr' = TRUE
  /\ cap' = n
  /\ size' = GrownSize(n)
  /\ TakeAtUsed(n)
  /\ UNCHANGED live

(* realloc fails: ptr is overwritten with NULL, the rest stays. *)
SallocNoMem(n) ==
  /\ live /\ n > 0
  /\ ~ptr \/ n > salloc_unused
  /\ ptr' = FALSE
  /\ cap' = 0
  /\ ret' = -1
  /\ UNCHANGED <<live, size, used, allocs>>

SallocNext ==
  \/ \E n \in Sizes : Create(n)
  \/ Destroy
  \/ SallocZero
  \/ \E n \in Sizes : SallocFits(n)
  \/ \E n \in Sizes : SallocGrow(n)
  \/ \E n \in Sizes : SallocNoMem(n)

SallocSpec == SallocInit /\ [][SallocNext]_sallocVars

-----------------------------------------------------------------------------
(* used never passes size, on the paths where the block grows or is lost   *)
(* too: salloc_unused is an unsigned subtraction, so one byte more would   *)
(* make every later request fit.                                           *)
UsedWithinSize == used <= size

Apart(r, s) == r.off + r.len <= s.off \/ s.off + s.len <= r.off

(* No two callers of salloc hold a byte in common, whatever grew, failed   *)
(* or was retried between their calls.                                     *)
AllocsApart == \A r, s \in allocs : r # s => Apart(r, s)

(* The allocator implements the arena: Salloc's ranges are the arena's. *)
Promise == INSTANCE Arena WITH open <- live, granted <- allocs

(* Every step of salloc.c is a step an arena may take, or none. *)
ImplementsArena == Promise!Spec

(* salloc.h: "The memory block can dynamically be resized as more memory   *)
(* is needed": every range handed out lies inside the block behind ptr.    *)
AllocsInsideBlock == ptr => \A r \in allocs : r.off + r.len <= cap

=============================================================================
