-------------------------------- MODULE Lmb ---------------------------------
(* lib/lmb.c, the logical memory blocks of bootm: a table of reserved       *)
(* regions of the RAM, from which room for the device tree and the ramdisk  *)
(* is taken.  boot_start_lmb() has added one region of RAM and reserved the *)
(* stack; the operations follow in the order the boot commands need.        *)
EXTENDS Integers, Sequences, FiniteSets

CONSTANTS MemBase, MemEnd,     \* the RAM, bootm_low and bootm_low + bootm_size
          StackBase,           \* arch_lmb_reserve(): from here to the end
          MAX_LMB_REGIONS,
          Blocks,              \* the blocks callers may reserve
          AllocSizes, Aligns,  \* of the blocks they may ask for
          MaxAddrs,            \* the bounds they may give; 0 is "anywhere"
          MaxHeld              \* bound: blocks in use at a time

Region == [base : Nat, size : Nat]
End(r) == r.base + r.size

(* RAM does not begin at 0 and no image is larger than the address it       *)
(* begins at (0x10000000 on the i.MX6), so the differences that lmb.c       *)
(* computes in unsigned arithmetic do not wrap.                             *)
ASSUME MemAssumption ==
  /\ MemBase \in Nat /\ StackBase \in Nat /\ MemEnd \in Nat
  /\ 0 < MemBase /\ MemBase < StackBase /\ StackBase < MemEnd

(* The alignments are powers of two, as `addr & ~(size - 1)` needs: of two  *)
(* of them one divides the other.                                           *)
ASSUME RequestAssumption ==
  /\ Blocks \subseteq Region
  /\ \A b \in Blocks : b.size > 0
  /\ AllocSizes \subseteq 1 .. MemBase
  /\ Aligns \subseteq Nat \ {0}
  /\ \A a, b \in Aligns : a % b = 0 \/ b % a = 0
  /\ MaxAddrs \subseteq Nat

ASSUME TableAssumption ==
  MAX_LMB_REGIONS \in Nat \ {0} /\ MaxHeld \in Nat

VARIABLES reserved,   \* the table, a sequence of regions
          pc,         \* where the boot is; "search": in __lmb_alloc_base()
          req,        \* what __lmb_alloc_base() looks for
          base,       \* its candidate
          fdt,        \* the block image_setup_libfdt() has freed
          held,       \* history: the blocks reserved or allocated, not freed
          lost        \* history: lmb_free() found no room to split a region

lmbVars == <<reserved, pc, req, base, fdt, held, lost>>

Stack == [base |-> StackBase, size |-> MemEnd - StackBase]

lmb_addrs_overlap(r1, r2) == r1.base < End(r2) /\ r2.base < End(r1)
lmb_addrs_adjacent(r1, r2) == r2.base = End(r1) \/ r1.base = End(r2)

Inside(r1, r2) == r2.base <= r1.base /\ End(r1) <= End(r2)

(* lmb_align_down() and lmb_align_up() for powers of two.                   *)
lmb_align_down(addr, align) == addr - (addr % align)
lmb_align_up(addr, align) == lmb_align_down(addr + align - 1, align)

lmb_remove_region(rgn, r) ==
  [i \in 1 .. Len(rgn) - 1 |-> IF i < r THEN rgn[i] ELSE rgn[i + 1]]

(* Mutant: the region that stays does not grow.                             *)
CoalesceForgetsSize(rgn, r1, r2) == lmb_remove_region(rgn, r2)

lmb_coalesce_regions(rgn, r1, r2) ==
  lmb_remove_region([rgn EXCEPT ![r1].size = @ + rgn[r2].size], r2)

(* The shifting loop of lmb_add_region(): r goes behind region p, the last  *)
(* one that does not begin after it.  What follows the loop is meant for    *)
(* p = 0, but asks about the first region only.                             *)
InsertAfter(rgn, p, r) ==
  [i \in 1 .. Len(rgn) + 1 |->
     IF i = p + 1 \/ (i = 1 /\ r.base < rgn[1].base) THEN r
     ELSE IF i <= p THEN rgn[i] ELSE rgn[i - 1]]

(* The least, and the greatest, index in S; d if there is none.             *)
FirstOf(S, d) == IF S = {} THEN d ELSE CHOOSE i \in S : \A j \in S : i <= j
LastOf(S, d) == IF S = {} THEN d ELSE CHOOSE i \in S : \A j \in S : j <= i

Room(rgn) == Len(rgn) < MAX_LMB_REGIONS

(* lmb_add_region(): the table and whether the region is in it (ret >= 0).  *)
lmb_add_region(rgn, r) ==
  LET same == {i \in 1 .. Len(rgn) : rgn[i] = r}
      adj == {i \in 1 .. Len(rgn) : lmb_addrs_adjacent(r, rgn[i])}
      i == FirstOf(same \cup adj, 0)
      grown == [rgn EXCEPT ![i].base = IF @ = End(r) THEN r.base ELSE @,
                           ![i].size = @ + r.size]
      p == LastOf({j \in 1 .. Len(rgn) : rgn[j].base <= r.base}, 0)
  IN
  IF Len(rgn) = 1 /\ rgn[1].size = 0 THEN [rgn |-> <<r>>, ok |-> TRUE]
  ELSE IF i \in same THEN [rgn |-> rgn, ok |-> TRUE]
  ELSE IF i # 0 THEN
    [rgn |-> IF i < Len(rgn) /\ lmb_addrs_adjacent(grown[i], grown[i + 1])
             THEN lmb_coalesce_regions(grown, i, i + 1)
             ELSE grown,
     ok |-> TRUE]
  ELSE IF ~Room(rgn) THEN [rgn |-> rgn, ok |-> FALSE]
  ELSE [rgn |-> InsertAfter(rgn, p, r), ok |-> TRUE]

(* boot_start_lmb(): lmb_init() makes a dummy region of size 0, which       *)
(* arch_lmb_reserve() replaces.                                             *)
LmbInit ==
  /\ reserved = lmb_add_region(<<[base |-> 0, size |-> 0]>>, Stack).rgn
  /\ pc = "idle"
  /\ req = [size |-> 0, align |-> 1, max_addr |-> 0]
  /\ base = 0
  /\ fdt = [base |-> 0, size |-> 0]
  /\ held = {Stack}
  /\ lost = FALSE

(* lmb_reserve(); its result is not looked at by the callers.               *)
lmb_reserve(b) ==
  LET a == lmb_add_region(reserved, b) IN
  /\ reserved' = a.rgn
  /\ held' = IF a.ok THEN held \cup {b} ELSE held
  /\ UNCHANGED <<req, base, fdt, lost>>

(* A loaded image, a region that the device tree reserves, or a ramdisk or  *)
(* device tree used in place.  The user has loaded them apart.              *)
Reserve ==
  /\ pc = "idle"
  /\ Cardinality(held) < MaxHeld
  /\ \E b \in Blocks : /\ \A c \in held : ~lmb_addrs_overlap(b, c)
                       /\ lmb_reserve(b)
  /\ UNCHANGED pc

(* __lmb_alloc_base() up to the while loop, for the ramdisk or the device   *)
(* tree.  There is one region of RAM.                                       *)
AllocStart(size, align, max_addr) ==
  /\ pc = "idle"
  /\ Cardinality(held) < MaxHeld
  /\ size <= MemEnd - MemBase
  /\ max_addr = 0 \/ MemBase < max_addr
  /\ req' = [size |-> size, align |-> align, max_addr |-> max_addr]
  /\ base' = lmb_align_down(
               (IF max_addr = 0 \/ MemEnd < max_addr THEN MemEnd ELSE max_addr)
               - size, align)
  /\ pc' = "search"
  /\ UNCHANGED <<reserved, fdt, held, lost>>

Candidate == [base |-> base, size |-> req.size]
StartsIn == {i \in 1 .. Len(reserved) : /\ reserved[i].base <= base
                                        /\ base < End(reserved[i])}
Overlapping ==
  {i \in 1 .. Len(reserved) : lmb_addrs_overlap(Candidate, reserved[i])}

(* The candidate is below the RAM: __lmb_alloc_base() returns 0.            *)
AllocFail ==
  /\ pc = "search"
  /\ base < MemBase
  /\ pc' = "idle"
  /\ UNCHANGED <<reserved, req, base, fdt, held, lost>>

AllocNextSame ==
  /\ pc = "search"
  /\ MemBase <= base
  /\ Overlapping # {}
  /\ base' = lmb_align_down(reserved[FirstOf(Overlapping, 0)].base, req.align)
  /\ UNCHANGED <<reserved, pc, req, fdt, held, lost>>

(* It overlaps a reserved region: the next candidate is below that, if the  *)
(* region does not begin before address `size`.                             *)
AllocNext ==
  /\ pc = "search"
  /\ MemBase <= base
  /\ Overlapping # {}
  /\ LET res_base == reserved[FirstOf(Overlapping, 0)].base IN
       IF res_base < req.size
       THEN pc' = "idle" /\ UNCHANGED base
       ELSE /\ base' = lmb_align_down(res_base - req.size, req.align)
            /\ UNCHANGED pc
  /\ UNCHANGED <<reserved, req, fdt, held, lost>>

(* It is free: the block, rounded up, is added to the table; without room   *)
(* in the table 0 is returned.                                              *)
AllocTake ==
  /\ pc = "search"
  /\ MemBase <= base
  /\ Overlapping = {}
  /\ LET a == lmb_add_region(reserved,
                [base |-> base, size |-> lmb_align_up(req.size, req.align)]) IN
       /\ reserved' = a.rgn
       /\ held' = IF a.ok THEN held \cup {Candidate} ELSE held
  /\ pc' = "idle"
  /\ UNCHANGED <<req, base, fdt, lost>>

(* lmb_free() of the device tree, at the end of image_setup_libfdt().       *)
lmb_free(b) ==
  LET i == FirstOf({k \in 1 .. Len(reserved) : Inside(b, reserved[k])}, 0)
      r == reserved[i]
      rest == [base |-> End(b), size |-> End(r) - End(b)]
      split == lmb_add_region([reserved EXCEPT ![i].size = b.base - r.base],
                              rest)
  IN
  /\ pc = "idle"
  /\ reserved' = IF i = 0 THEN reserved
                 ELSE IF r = b THEN lmb_remove_region(reserved, i)
                 ELSE IF r.base = b.base THEN [reserved EXCEPT ![i] = rest]
                 ELSE IF End(r) = End(b) THEN [reserved EXCEPT ![i].size = @ - b.size]
                 ELSE split.rgn
  /\ lost' = (i # 0 /\ r.base # b.base /\ End(r) # End(b) /\ ~split.ok)
  /\ held' = held \ {b}
  /\ fdt' = b
  /\ pc' = "freed"
  /\ UNCHANGED <<req, base>>

(* The shrunk, or padded, device tree is reserved again where it is.        *)
ReserveFdt(size) ==
  /\ pc = "freed"
  /\ lmb_reserve([base |-> fdt.base, size |-> size])
  /\ pc' = "done"

LmbNext ==
  \/ Reserve
  \/ \E s \in AllocSizes, a \in Aligns, m \in MaxAddrs : AllocStart(s, a, m)
  \/ AllocFail
  \/ AllocNext
  \/ AllocTake
  \/ \E b \in held \ {Stack} : lmb_free(b)
  \/ \E s \in AllocSizes : ReserveFdt(s)

(* Once called, __lmb_alloc_base() runs on: nothing else does.              *)
LmbSpec == LmbInit /\ [][LmbNext]_lmbVars /\ WF_lmbVars(AllocFail \/ AllocNext \/ AllocTake)

-----------------------------------------------------------------------------
(* The table never outgrows its array, and every block in use lies inside   *)
(* one region of it, as the test for overlaps and lmb_free() need, whatever *)
(* was merged around it.  This is                                           *)
(* still so after lmb_free(), if the blocks did not overlap and the table   *)
(* had room for the part behind the hole.  It is not said of the last       *)
(* lmb_reserve(): the merging of regions believes the table to be sorted,   *)
(* which a block rounded up into its neighbour ends.                        *)
HeldIsReserved ==
  /\ Len(reserved) <= MAX_LMB_REGIONS
  /\ ~lost /\ pc # "done" =>
       \A b \in held : \E i \in 1 .. Len(reserved) : Inside(b, reserved[i])

(* __lmb_alloc_base() returns a block of the RAM below the given bound that *)
(* nobody else uses, although the table knows merged and rounded regions    *)
(* and no blocks.                                                           *)
AllocTakesFree ==
  [][pc = "search" =>
       \A b \in held' \ held :
         /\ MemBase <= b.base /\ End(b) <= MemEnd
         /\ req.max_addr = 0 \/ End(b) <= req.max_addr
         /\ b.base % req.align = 0
         /\ \A c \in held : ~lmb_addrs_overlap(b, c)]_lmbVars

(* The search of __lmb_alloc_base() ends.                                   *)
SearchEnds == pc = "search" ~> pc # "search"
=============================================================================
