----------------------------- MODULE LmbProofs ------------------------------
(* Proofs about the boot memory, lib/lmb.c: whatever is reserved, allocated *)
(* and freed, the table of regions covers every block in use, and what      *)
(* __lmb_alloc_base() takes is free.  The table is not sorted, and its      *)
(* regions overlap: the shape it keeps instead is Tab.                      *)
EXTENDS Lmb, WellFoundedInduction, TLAPS

(* A set of natural numbers has a least element.                            *)
LEMMA Least ==
  ASSUME NEW T, T \subseteq Nat, T # {}
  PROVE  \E n \in T : \A m \in T : n <= m
<1> DEFINE Less == {ss \in Nat \X Nat : ss[1] < ss[2]}
<1>1. IsWellFoundedOn(Less, Nat)
  BY NatLessThanWellFounded, Zenon DEF OpToRel
<1>2. \E x \in T : \A y \in T : ~(<<y, x>> \in Less)
  <2> HIDE DEF Less
  <2> QED
    BY <1>1, WFMin, Zenon
<1>3. PICK n \in T : \A m \in T : ~(<<m, n>> \in Less)
  BY <1>2, Zenon
<1>4. ASSUME NEW m \in T PROVE n <= m
  <2>1. ~(<<m, n>> \in Less) /\ <<m, n>> \in Nat \X Nat
    BY <1>3, Zenon
  <2>2. <<m, n>>[1] = m /\ <<m, n>>[2] = n
    OBVIOUS
  <2> QED
    BY <2>1, <2>2
<1> QED
  BY <1>4, Zenon

-----------------------------------------------------------------------------
(* The regions of the table, and blocks: none is empty.                     *)
Blk == [base : Nat, size : Nat \ {0}]

(* Every alignment that divides hi divides an address from lo on before it: *)
(* nothing that ends below lo is rounded up to hi.                          *)
Stop(lo, hi) ==
  \E s \in lo .. hi - 1 : \A a \in Aligns : hi % a = 0 => s % a = 0

(* Region y covers region x, and holds a block that x cannot grow over.     *)
Cap(H, x, y) == \E h \in H : Inside(h, y) /\ End(x) <= h.base

(* A later region, up to b, begins before region a and caps it: this is how *)
(* a table gets out of order.                                               *)
Over(H, T, a, b) ==
  \E c \in a + 1 .. b : T[c].base < T[a].base /\ Cap(H, T[a], T[c])

(* Region x begins before y, and overlaps it only by rounding.              *)
Ordered(x, y) ==
  x.base < y.base /\ (y.base < End(x) => Stop(x.base, y.base))

(* A region begins with a block in use.                                     *)
Headed(H, x) == \E h \in H : h.base = x.base /\ Inside(h, x)

(* An address in a region belongs to a block in use, or has a stop in it.   *)
Filled(H, x) ==
  \A e \in x.base + 1 .. End(x) - 1 :
    (\E h \in H : h.base <= e /\ e < End(h)) \/ Stop(x.base, e)

(* Every block lies in one region.                                          *)
Covers(H, T) == \A h \in H : \E i \in 1 .. Len(T) : Inside(h, T[i])

(* The shape of a table T while the blocks H are in use.                    *)
Tab(H, T) ==
  /\ T \in Seq(Blk) /\ H \subseteq Blk
  /\ \A i \in 1 .. Len(T) : Headed(H, T[i]) /\ Filled(H, T[i])
  /\ \A a, b \in 1 .. Len(T) : a < b => Over(H, T, a, b) \/ Ordered(T[a], T[b])
  /\ Covers(H, T)

(* Block h, rounded up to region r, may be added: it is free, and what it   *)
(* is rounded up by is no stop.                                             *)
Fits(H, T, h, r) ==
  /\ h \in Blk /\ r \in Blk /\ h.base = r.base /\ End(h) <= End(r)
  /\ \A g \in H : ~lmb_addrs_overlap(h, g)
  /\ Filled({h}, r)
  /\ \A s \in End(h) .. End(r) - 1 : \E a \in Aligns : End(r) % a = 0 /\ s % a # 0
  /\ h = r \/ \A i \in 1 .. Len(T) : ~lmb_addrs_overlap(h, T[i])

(* A region has an end, behind its base.                                    *)
LEMMA BlkEnd ==
  \A x \in Blk : x.base \in Nat /\ End(x) \in Nat /\ x.base < End(x)
BY DEF Blk, End

(* A region and the one that begins where it ends, made one.                *)
LEMMA JoinedEnd ==
  ASSUME NEW x \in Blk, NEW y \in Blk, NEW u, End(x) = y.base,
         u.base = x.base, u.size = x.size + y.size
  PROVE  /\ u.base = x.base /\ End(u) = End(y)
         /\ x.base <= y.base /\ End(x) <= End(y)
BY DEF Blk, End

(* A part of a part is a part.                                              *)
LEMMA InsideTrans ==
  ASSUME NEW x \in Blk, NEW y \in Blk, NEW z \in Blk, Inside(x, y), Inside(y, z)
  PROVE  Inside(x, z)
<1>1. /\ x.base \in Nat /\ y.base \in Nat /\ z.base \in Nat
      /\ End(x) \in Nat /\ End(y) \in Nat /\ End(z) \in Nat
  BY BlkEnd, Zenon
<1> QED
  BY <1>1 DEF Inside

(* A stop for lo is one for every address below it.                         *)
LEMMA StopBelow ==
  ASSUME NEW lo \in Nat, NEW l \in Nat, NEW hi \in Nat, l <= lo, Stop(lo, hi)
  PROVE  Stop(l, hi)
<1>1. lo .. hi - 1 \subseteq l .. hi - 1
  OBVIOUS
<1> QED
  BY <1>1, Zenon DEF Stop

(* A cap of a cap is a cap.                                                 *)
LEMMA CapTrans ==
  ASSUME NEW H, H \subseteq Blk, NEW x \in Blk, NEW y \in Blk, NEW z \in Blk,
         Cap(H, x, y), Cap(H, y, z)
  PROVE  Cap(H, x, z)
<1>1. PICK g \in H : Inside(g, y) /\ End(x) <= g.base
  BY Zenon DEF Cap
<1>2. PICK h \in H : Inside(h, z) /\ End(y) <= h.base
  BY Zenon DEF Cap
<1>3. End(x) <= h.base
  BY <1>1, <1>2, BlkEnd DEF Inside
<1> QED
  BY <1>2, <1>3, Zenon DEF Cap

(* A region stays a cap when it grows, and when a block comes into use.     *)
LEMMA CapGrows ==
  ASSUME NEW H, NEW h, NEW x \in Blk, NEW y \in Blk, NEW z \in Blk,
         H \subseteq Blk, Cap(H, x, y), Inside(y, z)
  PROVE  Cap(H, x, z) /\ Cap(H \cup {h}, x, z)
<1>1. PICK g \in H : Inside(g, y) /\ End(x) <= g.base
  BY Zenon DEF Cap
<1>2. Inside(g, z)
  BY <1>1, BlkEnd DEF Inside
<1> QED
  BY <1>1, <1>2, Zenon DEF Cap

(* A region that begins earlier and is a cap covers what it caps.           *)
LEMMA CapInside ==
  ASSUME NEW H, NEW x \in Blk, NEW y \in Blk,
         H \subseteq Blk, Cap(H, x, y), y.base < x.base
  PROVE  Inside(x, y) /\ End(x) < End(y)
<1>1. PICK g \in H : Inside(g, y) /\ End(x) <= g.base
  BY Zenon DEF Cap
<1> QED
  BY <1>1, BlkEnd DEF Inside

(* Of the regions that cap region a up to b the last one is in order with   *)
(* b, or is b.                                                              *)
LEMMA LastOver ==
  ASSUME NEW H, NEW T, Tab(H, T), NEW a \in 1 .. Len(T), NEW b \in 1 .. Len(T),
         Over(H, T, a, b)
  PROVE  \E c \in a + 1 .. b : /\ T[c].base < T[a].base
                               /\ Cap(H, T[a], T[c])
                               /\ c = b \/ Ordered(T[c], T[b])
<1> DEFINE P(c) == T[c].base < T[a].base /\ Cap(H, T[a], T[c])
           S == {n \in Nat : n < b - a /\ P(b - n)}
<1>0. Len(T) \in Nat /\ \A i \in 1 .. Len(T) : T[i] \in Blk /\ T[i].base \in Nat
  BY BlkEnd DEF Tab
<1>1. PICK c0 \in a + 1 .. b : P(c0)
  BY Zenon DEF Over
<1>2. b - (b - c0) = c0 /\ b - c0 \in Nat /\ b - c0 < b - a
  BY <1>0
<1>3. b - c0 \in S
  BY <1>1, <1>2, Zenon
<1>4. PICK n \in S : \A m \in S : n <= m
  <2>1. S \subseteq Nat /\ S # {}
    BY <1>3, Zenon
  <2> HIDE DEF S
  <2> QED
    BY <2>1, Least, Zenon
<1>5. PICK c \in a + 1 .. b : c = b - n /\ P(c)
  <2>1. n \in Nat /\ n < b - a /\ P(b - n)
    BY <1>4, Zenon
  <2>2. b - n \in a + 1 .. b
    BY <1>0, <2>1
  <2> QED
    BY <2>1, <2>2, Zenon
<1>6. ASSUME c # b, Over(H, T, c, b) PROVE FALSE
  <2>1. PICK d \in c + 1 .. b : T[d].base < T[c].base /\ Cap(H, T[c], T[d])
    BY <1>6, Zenon DEF Over
  <2>2. d \in 1 .. Len(T) /\ c \in 1 .. Len(T)
    BY <1>0, <1>5
  <2>3. Cap(H, T[a], T[d])
    BY <1>0, <1>5, <2>1, <2>2, CapTrans, Zenon DEF Tab
  <2>4. T[d].base < T[a].base
    <3>1. T[c].base < T[a].base
      BY <1>5, Zenon
    <3>2. T[c].base \in Nat /\ T[d].base \in Nat /\ T[a].base \in Nat
      BY <1>0, <2>2, Zenon
    <3> QED
      BY <2>1, <3>1, <3>2
  <2>5. b - d \in Nat /\ b - d < n /\ b - (b - d) = d /\ b - d < b - a
    BY <1>0, <1>4, <1>5, <2>1
  <2>6. b - d \in S
    BY <2>3, <2>4, <2>5, Zenon
  <2>7. n <= b - d
    BY <1>4, <2>6, Zenon
  <2>8. n \in Nat
    BY <1>4, Zenon
  <2> QED
    BY <2>5, <2>7, <2>8
<1>7. c = b \/ Ordered(T[c], T[b])
  <2>1. c \in 1 .. Len(T) /\ (c # b => c < b)
    BY <1>0, <1>5
  <2> QED
    BY <1>6, <2>1, Zenon DEF Tab
<1> QED
  BY <1>5, <1>7, Zenon

(* Against every region of the table the new region r is in order: where    *)
(* they overlap, one of them was rounded up, and the address where the      *)
(* other begins is a stop.                                                  *)
LEMMA NewHead ==
  ASSUME NEW H, NEW T, NEW h, NEW r, Tab(H, T), Fits(H, T, h, r),
         NEW i \in 1 .. Len(T)
  PROVE  /\ T[i].base < r.base \/ End(h) <= T[i].base
         /\ T[i].base # r.base
         /\ r.base < T[i].base /\ T[i].base < End(r) => Stop(r.base, T[i].base)
         /\ T[i].base < r.base /\ r.base < End(T[i]) => Stop(T[i].base, r.base)
<1>0. T[i] \in Blk /\ h \in Blk /\ r \in Blk /\ H \subseteq Blk /\ h.base = r.base
  BY DEF Tab, Fits
<1>1. PICK g \in H : g.base = T[i].base
  BY Zenon DEF Tab, Headed
<1>2. T[i].base < r.base \/ End(h) <= T[i].base
  BY <1>0, <1>1, BlkEnd DEF Fits, lmb_addrs_overlap
<1>3. ASSUME r.base < T[i].base, T[i].base < End(r) PROVE Stop(r.base, T[i].base)
  <2>1. T[i].base \in r.base + 1 .. End(r) - 1
    BY <1>0, <1>3, BlkEnd
  <2>2. ~(T[i].base < End(h))
    BY <1>0, <1>2, <1>3, BlkEnd
  <2> QED
    BY <2>1, <2>2, Zenon DEF Fits, Filled
<1>4. ASSUME T[i].base < r.base, r.base < End(T[i]) PROVE Stop(T[i].base, r.base)
  <2>1. r.base \in T[i].base + 1 .. End(T[i]) - 1
    BY <1>0, <1>4, BlkEnd
  <2>2. ASSUME NEW f \in H, f.base <= r.base, r.base < End(f) PROVE FALSE
    BY <1>0, <2>2, BlkEnd DEF Fits, lmb_addrs_overlap
  <2> QED
    BY <2>1, <2>2, Zenon DEF Tab, Filled
<1> QED
  BY <1>0, <1>2, <1>3, <1>4, BlkEnd

(* What caps a region that r begins in, or behind, caps r too.              *)
LEMMA CapNew ==
  ASSUME NEW H, NEW T, NEW h, NEW r, Tab(H, T), Fits(H, T, h, r),
         NEW c \in 1 .. Len(T), NEW x \in Blk, Cap(H, x, T[c]),
         T[c].base < r.base, r.base <= End(x)
  PROVE  Cap(H, r, T[c])
<1>0. T[c] \in Blk /\ h \in Blk /\ r \in Blk /\ H \subseteq Blk /\ h.base = r.base
  BY DEF Tab, Fits
<1>1. PICK g \in H : Inside(g, T[c]) /\ End(x) <= g.base
  BY Zenon DEF Cap
<1>2. CASE h = r
  <2>1. End(r) <= g.base
    BY <1>0, <1>1, <1>2, BlkEnd DEF Fits, lmb_addrs_overlap
  <2> QED
    BY <1>1, <2>1, Zenon DEF Cap
<1>3. CASE ~lmb_addrs_overlap(h, T[c])
  BY <1>0, <1>1, <1>3, BlkEnd DEF lmb_addrs_overlap, Inside
<1> QED
  BY <1>2, <1>3, Zenon DEF Fits

(* A region keeps its first block and its blocks when another comes into    *)
(* use.                                                                     *)
LEMMA HeadGrows ==
  ASSUME NEW H, NEW h, NEW x, Headed(H, x), Filled(H, x)
  PROVE  Headed(H \cup {h}, x) /\ Filled(H \cup {h}, x)
BY Zenon  DEF Headed, Filled

(* Two adjacent regions, joined, have no address that a rounded-up block    *)
(* could begin at and that no block covers.                                 *)
LEMMA JoinFilled ==
  ASSUME NEW H, NEW x \in Blk, NEW y \in Blk, NEW z \in Blk, H \subseteq Blk,
         End(x) = y.base, z.base = x.base, End(z) = End(y),
         Filled(H, x), Filled(H, y), Headed(H, y)
  PROVE  Filled(H, z)
<1>0. /\ x.base \in Nat /\ End(x) \in Nat /\ x.base < End(x)
      /\ End(y) \in Nat /\ End(x) < End(y)
  BY BlkEnd, Zenon
<1> SUFFICES ASSUME NEW e \in z.base + 1 .. End(z) - 1
             PROVE  (\E h \in H : h.base <= e /\ e < End(h)) \/ Stop(z.base, e)
  BY Zenon  DEF Filled
<1>1. CASE e < End(x)
  <2>1. e \in x.base + 1 .. End(x) - 1
    BY <1>0, <1>1
  <2> QED
    BY <2>1, Zenon DEF Filled
<1>2. CASE e = End(x)
  <2>1. PICK h \in H : h.base = y.base
    BY Zenon DEF Headed
  <2>2. h.base <= e /\ e < End(h)
    BY <1>0, <1>2, <2>1, BlkEnd
  <2> QED
    BY <2>2, Zenon
<1>3. CASE e > End(x)
  <2>1. e \in y.base + 1 .. End(y) - 1 /\ e \in Nat
    BY <1>0, <1>3
  <2>2. (\E h \in H : h.base <= e /\ e < End(h)) \/ Stop(y.base, e)
    BY <2>1, Zenon DEF Filled
  <2>3. Stop(y.base, e) => Stop(z.base, e)
    BY <1>0, <2>1, StopBelow
  <2> QED
    BY <2>2, <2>3, Zenon
<1> QED
  BY <1>0, <1>1, <1>2, <1>3

(* A capped region stays capped when the regions behind it move or grow.    *)
LEMMA OverMoves ==
  ASSUME NEW H, NEW h, NEW T, NEW U, T \in Seq(Blk), U \in Seq(Blk),
         H \subseteq Blk, NEW a \in 1 .. Len(T), NEW b \in 1 .. Len(T),
         NEW k \in 1 .. Len(U), NEW l \in 1 .. Len(U), U[k] = T[a],
         \A c \in a + 1 .. b : \E d \in k + 1 .. l : Inside(T[c], U[d]),
         Over(H, T, a, b)
  PROVE  Over(H, U, k, l) /\ Over(H \cup {h}, U, k, l)
<1>1. PICK c \in a + 1 .. b : T[c].base < T[a].base /\ Cap(H, T[a], T[c])
  BY Zenon DEF Over
<1>2. PICK d \in k + 1 .. l : Inside(T[c], U[d])
  OBVIOUS
<1>3. c \in 1 .. Len(T) /\ d \in 1 .. Len(U)
  OBVIOUS
<1>4. T[a] \in Blk /\ T[c] \in Blk /\ U[d] \in Blk
  BY <1>3
<1>5. U[d].base < U[k].base
  <2>1. T[a].base \in Nat /\ T[c].base \in Nat /\ U[d].base \in Nat
    BY <1>4, BlkEnd, Zenon
  <2>2. U[d].base <= T[c].base
    BY <1>2, Zenon DEF Inside
  <2> QED
    BY SMTT(30), <1>1, <2>1, <2>2
<1>6. Cap(H, U[k], U[d]) /\ Cap(H \cup {h}, U[k], U[d])
  BY <1>1, <1>2, <1>4, CapGrows, Zenon
<1> QED
  BY <1>5, <1>6, Zenon DEF Over

(* The same where every region stays in its place.                          *)
LEMMA OverStays ==
  ASSUME NEW H, NEW h, NEW T, NEW U, T \in Seq(Blk), U \in Seq(Blk),
         H \subseteq Blk, Len(U) = Len(T),
         \A j \in 1 .. Len(T) : Inside(T[j], U[j]),
         NEW a \in 1 .. Len(T), NEW b \in 1 .. Len(T),
         U[a] = T[a], Over(H, T, a, b)
  PROVE  Over(H \cup {h}, U, a, b)
<1>1. \A c \in a + 1 .. b : \E d \in a + 1 .. b : Inside(T[c], U[d])
  <2>1. \A c \in a + 1 .. b : c \in 1 .. Len(T)
    OBVIOUS
  <2> QED
    BY <2>1, Zenon
<1> QED
  BY <1>1, OverMoves, Zenon

(* A block stays covered when the regions grow.                             *)
LEMMA CoversStays ==
  ASSUME NEW H, NEW h, NEW T, NEW U, T \in Seq(Blk), U \in Seq(Blk),
         H \subseteq Blk, h \in Blk, Covers(H, T), NEW i \in 1 .. Len(U), Inside(h, U[i]),
         \A j \in 1 .. Len(T) : \E k \in 1 .. Len(U) : Inside(T[j], U[k])
  PROVE  Covers(H \cup {h}, U)
<1> SUFFICES ASSUME NEW g \in H PROVE \E k \in 1 .. Len(U) : Inside(g, U[k])
  BY Zenon  DEF Covers
<1>1. PICK j \in 1 .. Len(T) : Inside(g, T[j])
  BY Zenon DEF Covers
<1>2. PICK k \in 1 .. Len(U) : Inside(T[j], U[k])
  OBVIOUS
<1>3. T[j] \in Blk /\ U[k] \in Blk /\ g \in Blk
  OBVIOUS
<1>4. Inside(g, U[k])
  BY <1>1, <1>2, <1>3, InsideTrans, Zenon
<1> QED
  BY <1>4, Zenon

(* lmb_add_region() with r in front of region i: the table stays in shape.  *)
LEMMA GrowDown ==
  ASSUME NEW H, NEW T, NEW U, NEW h, NEW r, Tab(H, T), Fits(H, T, h, r),
         U \in Seq(Blk), Len(U) = Len(T), NEW i \in 1 .. Len(T),
         \A j \in 1 .. Len(T) : j # i => U[j] = T[j],
         T[i].base = End(r), U[i].base = r.base, End(U[i]) = End(T[i])
  PROVE  Tab(H \cup {h}, U)
<1>0. /\ T \in Seq(Blk) /\ H \subseteq Blk /\ h \in Blk /\ r \in Blk
      /\ \A j \in 1 .. Len(T) : T[j] \in Blk /\ U[j] \in Blk
      /\ h.base = r.base /\ Len(T) \in Nat
  BY DEF Tab, Fits
<1>a. /\ r.base \in Nat /\ End(r) \in Nat /\ r.base < End(r)
      /\ End(T[i]) \in Nat /\ End(r) < End(T[i]) /\ End(h) \in Nat /\ End(h) <= End(r)
  BY <1>0, BlkEnd, Zenon DEF Fits
<1>b. \A j \in 1 .. Len(T) : T[j].base \in Nat /\ End(T[j]) \in Nat
  BY <1>0, BlkEnd, Zenon
<1>1. \A j \in 1 .. Len(T) : Inside(T[j], U[j])
  BY <1>0, <1>a, <1>b DEF Inside
<1>2. Inside(h, U[i])
  BY <1>0, <1>a DEF Inside
<1>3. ASSUME NEW j \in 1 .. Len(T)
      PROVE  Headed(H \cup {h}, U[j]) /\ Filled(H \cup {h}, U[j])
  <2>1. Headed(H \cup {h}, T[j]) /\ Filled(H \cup {h}, T[j])
    BY HeadGrows, Zenon DEF Tab
  <2>2. CASE j = i
    <3>1. Headed(H \cup {h}, U[i])
      BY <1>0, <1>2, Zenon DEF Headed
    <3>2. Filled(H \cup {h}, r)
      BY Zenon  DEF Filled, Fits
    <3>3. Filled(H \cup {h}, U[i])
      <4>1. H \cup {h} \subseteq Blk /\ T[i] \in Blk /\ U[i] \in Blk
        BY <1>0, Zenon
      <4> QED
        BY <4>1, <1>0, <2>1, <2>2, <3>2, JoinFilled, Zenon
    <3> QED
      BY <2>2, <3>1, <3>3, Zenon
  <2> QED
    BY <2>1, <2>2, Zenon
<1>4. ASSUME NEW a \in 1 .. Len(T), NEW b \in 1 .. Len(T), a < b
      PROVE  Over(H \cup {h}, U, a, b) \/ Ordered(U[a], U[b])
  <2>0. Over(H, T, a, b) \/ Ordered(T[a], T[b])
    BY <1>4, Zenon DEF Tab
  <2>1. CASE a # i /\ b # i
    BY <1>0, <1>1, <2>0, <2>1, OverStays, Zenon
  <2>2. CASE b = i
    <3>0. U[a] = T[a]
      BY <1>0, <1>4, <2>2
    <3>1. CASE Over(H, T, a, b)
      BY <1>0, <1>1, <3>0, <3>1, OverStays, Zenon
    <3>2. CASE Ordered(T[a], T[i])
      <4>0. T[a].base < End(r) /\ (End(r) < End(T[a]) => Stop(T[a].base, End(r)))
        BY <3>2, Zenon DEF Ordered
      <4>1. CASE T[a].base < r.base
        <5>1. r.base < End(T[a]) => Stop(T[a].base, r.base)
          BY <4>1, NewHead, Zenon
        <5> QED
          BY <1>0, <1>4, <2>2, <4>1, <5>1 DEF Ordered
      <4>2. CASE r.base < T[a].base
        <5>1. End(h) <= T[a].base
          BY SMTT(30), <1>b, <1>a, <4>2, NewHead
        <5>2. End(T[a]) <= End(r)
          <6>1. ASSUME Stop(T[a].base, End(r)) PROVE FALSE
            <7>1. PICK s \in T[a].base .. End(r) - 1 :
                    \A n \in Aligns : End(r) % n = 0 => s % n = 0
              BY <6>1, Zenon DEF Stop
            <7>2. s \in End(h) .. End(r) - 1
              BY <1>a, <1>b, <5>1
            <7> QED
              BY <7>1, <7>2, Zenon DEF Fits
          <6> QED
            BY <1>a, <1>b, <4>0, <6>1
        <5>3. PICK g \in H : g.base = T[i].base /\ Inside(g, T[i])
          BY Zenon DEF Tab, Headed
        <5>4. Inside(g, U[i])
          BY <1>0, <1>1, <1>b, <5>3, BlkEnd, Zenon DEF Inside
        <5>5. Cap(H \cup {h}, U[a], U[i])
          BY <1>4, <2>2, <5>2, <5>3, <5>4, Zenon DEF Cap
        <5>6. U[i].base < U[a].base /\ i \in a + 1 .. b
          BY <1>0, <1>4, <2>2, <4>2
        <5> QED
          BY <5>5, <5>6, Zenon DEF Over
      <4> QED
        BY SMTT(30), <1>a, <1>b, <4>1, <4>2, NewHead
    <3> QED
      BY <2>0, <2>2, <3>1, <3>2, Zenon
  <2>3. CASE a = i
    <3>0. U[b] = T[b] /\ b # i
      BY <1>4, <2>3
    <3>1. CASE Over(H, T, i, b)
      <4>1. PICK c \in i + 1 .. b : /\ T[c].base < T[i].base
                                    /\ Cap(H, T[i], T[c])
                                    /\ c = b \/ Ordered(T[c], T[b])
        BY <3>1, LastOver, Zenon
      <4>2. c \in 1 .. Len(T) /\ c # i
        BY <1>0
      <4>3. CASE T[c].base < r.base
        <5>1. Cap(H \cup {h}, U[i], U[c])
          BY <4>1, <4>2, Zenon DEF Cap
        <5> QED
          BY <2>3, <4>1, <4>2, <4>3, <5>1, Zenon DEF Over
      <4>4. CASE r.base < T[c].base
        <5>1. Stop(r.base, T[c].base)
          BY <4>1, <4>2, <4>4, NewHead, Zenon
        <5>2. r.base < T[b].base
          BY SMTT(30), <1>a, <1>b, <4>1, <4>2, <4>4 DEF Ordered
        <5>3. ASSUME T[b].base < End(U[i]) PROVE Stop(r.base, T[b].base)
          <6>1. CASE c = b
            BY <5>1, <6>1, Zenon
          <6>2. CASE Ordered(T[c], T[b])
            <7>1. End(T[i]) < End(T[c])
              BY <1>0, <4>1, <4>2, CapInside, Zenon
            <7>2. T[b].base < End(T[c])
              BY SMTT(30), <1>a, <1>b, <4>2, <5>3, <7>1
            <7>3. Stop(T[c].base, T[b].base)
              BY <6>2, <7>2, Zenon DEF Ordered
            <7>4. r.base <= T[c].base
              BY SMTT(30), <1>a, <1>b, <4>2, <4>4
            <7> QED
              BY <1>a, <1>b, <4>2, <7>3, <7>4, StopBelow, Zenon
          <6> QED
            BY <4>1, <6>1, <6>2, Zenon
        <5> QED
          BY <2>3, <3>0, <5>2, <5>3, Zenon DEF Ordered
      <4> QED
        BY SMTT(30), <1>a, <1>b, <4>2, <4>3, <4>4, NewHead
    <3>2. CASE Ordered(T[i], T[b])
      <4>1. r.base < T[b].base
        BY <1>a, <1>b, <3>2 DEF Ordered
      <4>2. ASSUME T[b].base < End(U[i]) PROVE Stop(r.base, T[b].base)
        <5>1. Stop(End(r), T[b].base)
          BY <3>2, <4>2, Zenon DEF Ordered
        <5>2. r.base <= End(r)
          BY <1>a
        <5> QED
          BY <1>a, <1>b, <5>1, <5>2, StopBelow, Zenon
      <4> QED
        BY <2>3, <3>0, <4>1, <4>2, Zenon DEF Ordered
    <3> QED
      BY <2>0, <2>3, <3>1, <3>2, Zenon
  <2> QED
    BY <2>1, <2>2, <2>3, Zenon
<1>5. Covers(H \cup {h}, U)
  BY <1>0, <1>1, <1>2, CoversStays, Zenon DEF Tab
<1>6. H \cup {h} \subseteq Blk
  BY <1>0, Zenon
<1> QED
  BY <1>3, <1>4, <1>5, <1>6, Zenon DEF Tab

(* lmb_add_region() with r behind region i: the table stays in shape.       *)
LEMMA GrowUp ==
  ASSUME NEW H, NEW T, NEW U, NEW h, NEW r, Tab(H, T), Fits(H, T, h, r),
         U \in Seq(Blk), Len(U) = Len(T), NEW i \in 1 .. Len(T),
         \A j \in 1 .. Len(T) : j # i => U[j] = T[j],
         End(T[i]) = r.base, U[i].base = T[i].base, End(U[i]) = End(r)
  PROVE  Tab(H \cup {h}, U)
<1>0. /\ T \in Seq(Blk) /\ H \subseteq Blk /\ h \in Blk /\ r \in Blk
      /\ \A j \in 1 .. Len(T) : T[j] \in Blk /\ U[j] \in Blk
      /\ h.base = r.base /\ Len(T) \in Nat
  BY DEF Tab, Fits
<1>a. /\ r.base \in Nat /\ End(r) \in Nat /\ r.base < End(r)
      /\ T[i].base \in Nat /\ T[i].base < r.base
      /\ End(h) \in Nat /\ End(h) <= End(r)
  BY <1>0, BlkEnd, Zenon DEF Fits
<1>b. \A j \in 1 .. Len(T) : T[j].base \in Nat /\ End(T[j]) \in Nat
  BY <1>0, BlkEnd, Zenon
<1>1. \A j \in 1 .. Len(T) : Inside(T[j], U[j])
  BY <1>0, <1>a, <1>b DEF Inside
<1>2. Inside(h, U[i])
  BY <1>0, <1>a DEF Inside
<1>3. ASSUME NEW j \in 1 .. Len(T)
      PROVE  Headed(H \cup {h}, U[j]) /\ Filled(H \cup {h}, U[j])
  <2>1. Headed(H \cup {h}, T[j]) /\ Filled(H \cup {h}, T[j])
    BY HeadGrows, Zenon DEF Tab
  <2>2. CASE j = i
    <3>1. Headed(H \cup {h}, U[i])
      <4>1. PICK g \in H : g.base = T[i].base /\ Inside(g, T[i])
        BY Zenon DEF Tab, Headed
      <4>2. Inside(g, U[i])
        BY <1>0, <1>1, <4>1, InsideTrans, Zenon
      <4> QED
        BY <4>1, <4>2, Zenon DEF Headed
    <3>2. Filled(H \cup {h}, r) /\ Headed(H \cup {h}, r)
      <4>1. Filled(H \cup {h}, r)
        BY Zenon  DEF Filled, Fits
      <4>2. Inside(h, r)
        BY <1>0, <1>a DEF Inside
      <4> QED
        BY <1>0, <4>1, <4>2, Zenon DEF Headed
    <3>3. Filled(H \cup {h}, U[i])
      <4>1. H \cup {h} \subseteq Blk /\ T[i] \in Blk /\ U[i] \in Blk
        BY <1>0, Zenon
      <4> QED
        BY <4>1, <1>0, <2>1, <2>2, <3>2, JoinFilled, Zenon
    <3> QED
      BY <2>2, <3>1, <3>3, Zenon
  <2> QED
    BY <2>1, <2>2, Zenon
<1>4. ASSUME NEW a \in 1 .. Len(T), NEW b \in 1 .. Len(T), a < b
      PROVE  Over(H \cup {h}, U, a, b) \/ Ordered(U[a], U[b])
  <2>0. Over(H, T, a, b) \/ Ordered(T[a], T[b])
    BY <1>4, Zenon DEF Tab
  <2>1. CASE a # i
    <3>1. U[a] = T[a] /\ U[b].base = T[b].base
      BY <2>1, Zenon
    <3>2. CASE Over(H, T, a, b)
      BY <1>0, <1>1, <3>1, <3>2, OverStays, Zenon
    <3>3. CASE Ordered(T[a], T[b])
      BY <3>1, <3>3, Zenon DEF Ordered
    <3> QED
      BY <2>0, <3>2, <3>3, Zenon
  <2>2. CASE a = i
    <3>0. U[b] = T[b] /\ b # i
      BY <1>4, <2>2
    <3>1. CASE Over(H, T, i, b)
      <4>1. PICK c \in i + 1 .. b : T[c].base < T[i].base /\ Cap(H, T[i], T[c])
        BY <3>1, Zenon DEF Over
      <4>2. c \in 1 .. Len(T) /\ c # i
        BY <1>0
      <4>3. T[c].base < r.base /\ r.base <= End(T[i])
        BY SMTT(30), <1>a, <1>b, <4>1, <4>2
      <4>4. Cap(H, r, T[c])
        BY <1>0, <4>1, <4>2, <4>3, CapNew, Zenon
      <4>5. Cap(H \cup {h}, U[i], U[c])
        BY <4>2, <4>4, Zenon DEF Cap
      <4> QED
        BY <2>2, <4>1, <4>2, <4>5, Zenon DEF Over
    <3>2. CASE Ordered(T[i], T[b])
      <4>1. ASSUME T[b].base < End(r) PROVE Stop(T[i].base, T[b].base)
        <5>1. CASE T[b].base < r.base
          BY <3>2, <5>1, Zenon DEF Ordered
        <5>2. CASE r.base < T[b].base
          <6>1. Stop(r.base, T[b].base)
            BY <4>1, <5>2, NewHead, Zenon
          <6>2. T[i].base <= r.base
            BY <1>a
          <6> QED
            BY <1>a, <1>b, <6>1, <6>2, StopBelow, Zenon
        <5> QED
          BY SMTT(30), <1>a, <1>b, <5>1, <5>2, NewHead
      <4> QED
        BY <2>2, <3>0, <3>2, <4>1, Zenon DEF Ordered
    <3> QED
      BY <2>0, <2>2, <3>1, <3>2, Zenon
  <2> QED
    BY <2>1, <2>2, Zenon
<1>5. Covers(H \cup {h}, U)
  BY <1>0, <1>1, <1>2, CoversStays, Zenon DEF Tab
<1>6. H \cup {h} \subseteq Blk
  BY <1>0, Zenon
<1> QED
  BY <1>3, <1>4, <1>5, <1>6, Zenon DEF Tab

(* A region begins before the next one ends: of two regions that follow     *)
(* each other and are adjacent, the second is the upper one, as             *)
(* lmb_coalesce_regions() believes.                                         *)
LEMMA NextAbove ==
  ASSUME NEW H, NEW T, Tab(H, T), NEW i \in 1 .. Len(T) - 1
  PROVE  T[i].base < End(T[i + 1])
<1>0. T[i] \in Blk /\ T[i + 1] \in Blk /\ H \subseteq Blk
  BY DEF Tab
<1>a. /\ T[i].base \in Nat /\ T[i + 1].base \in Nat /\ End(T[i]) \in Nat
      /\ End(T[i + 1]) \in Nat /\ T[i + 1].base < End(T[i + 1]) /\ T[i].base < End(T[i])
  BY <1>0, BlkEnd, Zenon
<1>1. Over(H, T, i, i + 1) \/ Ordered(T[i], T[i + 1])
  BY DEF Tab
<1>2. CASE Over(H, T, i, i + 1)
  <2>1. PICK c \in i + 1 .. i + 1 : T[c].base < T[i].base /\ Cap(H, T[i], T[c])
    BY <1>2, Zenon DEF Over
  <2>2. End(T[i]) < End(T[i + 1])
    BY <1>0, <2>1, CapInside
  <2> QED
    BY <1>a, <2>2
<1>3. CASE Ordered(T[i], T[i + 1])
  BY <1>a, <1>3 DEF Ordered
<1> QED
  BY <1>1, <1>2, <1>3, Zenon

(* Joining two neighbours in the table that are adjacent keeps it in shape. *)
LEMMA Merge ==
  ASSUME NEW H, NEW T, NEW U, Tab(H, T), NEW i \in 1 .. Len(T) - 1,
         End(T[i]) = T[i + 1].base, U \in Seq(Blk), Len(U) = Len(T) - 1,
         U[i].base = T[i].base, End(U[i]) = End(T[i + 1]),
         \A j \in 1 .. Len(U) : /\ j < i => U[j] = T[j]
                                /\ j > i => U[j] = T[j + 1]
  PROVE  Tab(H, U)
<1>0. /\ T \in Seq(Blk) /\ H \subseteq Blk /\ Len(T) \in Nat
      /\ \A j \in 1 .. Len(T) : T[j] \in Blk
      /\ \A j \in 1 .. Len(U) : U[j] \in Blk
      /\ i \in 1 .. Len(T) /\ i + 1 \in 1 .. Len(T) /\ i \in 1 .. Len(U)
  BY DEF Tab
<1>c. \A j \in 1 .. Len(U) :
        /\ j < i => j \in 1 .. Len(T) /\ U[j] = T[j]
        /\ j > i => j + 1 \in 1 .. Len(T) /\ U[j] = T[j + 1]
  <2>1. \A j \in 1 .. Len(U) : j \in 1 .. Len(T) /\ j + 1 \in 1 .. Len(T)
    BY ONLY <1>0, Len(U) = Len(T) - 1
  <2> QED
    BY <2>1, Zenon
<1>b. \A j \in 1 .. Len(T) : T[j].base \in Nat /\ End(T[j]) \in Nat
                             /\ T[j].base < End(T[j])
  BY <1>0, BlkEnd, Zenon
<1>a. /\ T[i].base \in Nat /\ End(T[i]) \in Nat /\ End(T[i + 1]) \in Nat
      /\ T[i].base < End(T[i]) /\ End(T[i]) < End(T[i + 1])
  BY <1>0, <1>b, Zenon
<1>1. ASSUME NEW j \in 1 .. Len(T)
      PROVE  \E k \in 1 .. Len(U) :
               /\ Inside(T[j], U[k])
               /\ k = IF j <= i THEN j ELSE j - 1
  <2>1. CASE j < i
    <3>1. j \in 1 .. Len(U) /\ Inside(T[j], U[j])
      BY <1>0, <1>b, <2>1 DEF Inside
    <3> QED
      BY <2>1, <3>1
  <2>2. CASE j = i
    <3>1. Inside(T[i], U[i])
      BY <1>a DEF Inside
    <3> QED
      BY <1>0, <2>2, <3>1
  <2>3. CASE j = i + 1
    <3>1. Inside(T[i + 1], U[i]) /\ j - 1 = i /\ ~(j <= i)
      BY <1>a, <2>3 DEF Inside
    <3> QED
      BY <1>0, <2>3, <3>1, Zenon
  <2>4. CASE j > i + 1
    <3>1. j - 1 \in 1 .. Len(U) /\ U[j - 1] = T[j]
      BY <1>0, <2>4
    <3>2. Inside(T[j], U[j - 1])
      BY <1>0, <1>b, <3>1 DEF Inside
    <3> QED
      BY <2>4, <3>1, <3>2
  <2> QED
    BY <2>1, <2>2, <2>3, <2>4
<1>3. ASSUME NEW j \in 1 .. Len(U)
      PROVE  Headed(H, U[j]) /\ Filled(H, U[j])
  <2>1. CASE j = i
    <3>1. PICK g \in H : g.base = T[i].base /\ Inside(g, T[i])
      BY <1>0, Zenon DEF Tab, Headed
    <3>2. Inside(g, U[i])
      <4>1. Inside(T[i], U[i])
        BY <1>a DEF Inside
      <4> QED
        BY <1>0, <3>1, <4>1, InsideTrans, Zenon
    <3>3. Headed(H, U[i])
      BY <3>1, <3>2, Zenon DEF Headed
    <3>4. /\ Filled(H, T[i]) /\ Filled(H, T[i + 1]) /\ Headed(H, T[i + 1])
          /\ T[i] \in Blk /\ T[i + 1] \in Blk /\ U[i] \in Blk
      BY <1>0, Zenon DEF Tab
    <3>5. Filled(H, U[i])
      BY <1>0, <3>4, JoinFilled, Zenon
    <3> QED
      BY <2>1, <3>3, <3>5, Zenon
  <2>2. CASE j # i
    <3>0. j < i \/ j > i
      BY <2>2
    <3>1. PICK k \in 1 .. Len(T) : U[j] = T[k]
      BY <1>c, <3>0, Zenon
    <3> QED
      BY <3>1, Zenon DEF Tab
  <2> QED
    BY <2>1, <2>2, Zenon
<1>4. ASSUME NEW k \in 1 .. Len(U), NEW l \in 1 .. Len(U), k < l
      PROVE  Over(H, U, k, l) \/ Ordered(U[k], U[l])
  <2>1. CASE k # i
    <3> DEFINE a == IF k < i THEN k ELSE k + 1
    <3> DEFINE b == IF l <= i THEN l ELSE l + 1
    <3>1. /\ a \in 1 .. Len(T) /\ b \in 1 .. Len(T) /\ a < b
          /\ U[k] = T[a] /\ U[l].base = T[b].base
      <4>1. a \in 1 .. Len(T) /\ b \in 1 .. Len(T) /\ a < b
        BY <1>0, <1>4, <2>1
      <4>2. U[k] = T[a]
        <5>1. CASE k < i
          BY <1>c, <5>1, Zenon
        <5>2. CASE ~(k < i)
          <6>1. k > i
            BY <2>1, <5>2
          <6> QED
            BY <1>c, <5>2, <6>1, Zenon
        <5> QED
          BY <5>1, <5>2, Zenon
      <4>6. U[l].base = T[b].base
        <5>1. CASE l < i
          <6>1. b = l /\ U[l] = T[l]
            BY SMTT(30), <1>0, <5>1
          <6> QED
            BY <6>1, Zenon
        <5>2. CASE l = i
          <6>1. b = i
            BY <1>0, <5>2
          <6> QED
            BY <5>2, <6>1, Zenon
        <5>3. CASE l > i
          <6>1. b = l + 1 /\ U[l] = T[l + 1]
            BY <1>0, <5>3
          <6> QED
            BY <6>1, Zenon
        <5> QED
          BY <1>0, <5>1, <5>2, <5>3
      <4> QED
        BY <4>1, <4>2, <4>6, Zenon
    <3>2. Over(H, T, a, b) \/ Ordered(T[a], T[b])
      BY <3>1, Zenon DEF Tab
    <3>3. ASSUME NEW c \in a + 1 .. b
          PROVE  \E d \in k + 1 .. l : Inside(T[c], U[d])
      <4>1. c \in 1 .. Len(T)
        BY <1>0, <3>1
      <4>2. PICK d \in 1 .. Len(U) :
              Inside(T[c], U[d]) /\ d = IF c <= i THEN c ELSE c - 1
        BY <1>1, <4>1, Zenon
      <4>3. d \in k + 1 .. l
        BY SMTT(30), <1>0, <1>4, <2>1, <4>2
      <4> QED
        BY <4>2, <4>3, Zenon
    <3> HIDE DEF a, b
    <3>4. CASE Over(H, T, a, b)
      BY <1>0, <3>1, <3>3, <3>4, OverMoves, Zenon
    <3>5. CASE Ordered(T[a], T[b])
      BY <3>1, <3>5, Zenon DEF Ordered
    <3> QED
      BY <3>2, <3>4, <3>5, Zenon
  <2>2. CASE k = i
    <3> DEFINE b == l + 1
    <3>0. /\ b \in 1 .. Len(T) /\ U[l] = T[b] /\ i + 1 < b /\ b - 1 = l
          /\ T[b].base \in Nat
      BY <1>0, <1>b, <1>4, <2>2
    <3>1. ASSUME NEW c \in i + 2 .. b, Cap(H, T[i + 1], T[c]), T[c].base < T[i].base
          PROVE  Over(H, U, i, l)
      <4>0. c - 1 \in i + 1 .. l /\ c - 1 \in 1 .. Len(U) /\ c - 1 > i
            /\ (c - 1) + 1 = c
        BY <1>0, <3>0
      <4>1. c - 1 \in i + 1 .. l /\ U[c - 1] = T[c]
        BY <4>0, Zenon
      <4>2. Cap(H, U[i], U[c - 1])
        BY <3>1, <4>1, Zenon DEF Cap
      <4> QED
        BY <3>1, <4>1, <4>2, Zenon DEF Over
    <3> HIDE DEF b
    <3>2. CASE Over(H, T, i, b)
      <4>1. PICK c \in i + 1 .. b : T[c].base < T[i].base /\ Cap(H, T[i], T[c])
        BY <3>2, Zenon DEF Over
      <4>2. c # i + 1 /\ c \in 1 .. Len(T) /\ i + 1 < c /\ T[c].base \in Nat
        <5>1. c # i + 1
          BY SMTT(30), <1>a, <4>1
        <5> QED
          BY SMTT(30), <1>0, <1>b, <3>0, <5>1
      <4>3. ~Ordered(T[i + 1], T[c])
        BY SMTT(30), <1>a, <4>1, <4>2 DEF Ordered
      <4>4. Over(H, T, i + 1, c)
        BY <1>0, <4>2, <4>3, Zenon DEF Tab
      <4>5. PICK d \in i + 1 + 1 .. c : /\ T[d].base < T[i + 1].base
                                        /\ Cap(H, T[i + 1], T[d])
                                        /\ d = c \/ Ordered(T[d], T[c])
        BY <1>0, <4>2, <4>4, LastOver, Zenon
      <4>6. d \in 1 .. Len(T) /\ d \in i + 2 .. b
        <5>1. c <= b /\ b <= Len(T) /\ c \in Nat /\ b \in Nat /\ i \in 1 .. Len(T)
          BY <1>0, <3>0, <4>2
        <5> QED
          BY <1>0, <5>1
      <4>7. T[d].base < T[i].base
        <5>0. T[d].base \in Nat
          BY <1>b, <4>6, Zenon
        <5>1. d = c \/ T[d].base < T[c].base
          BY <4>5, Zenon DEF Ordered
        <5> QED
          BY SMTT(30), <1>a, <4>1, <4>2, <5>0, <5>1
      <4> QED
        BY <2>2, <3>1, <4>5, <4>6, <4>7, Zenon
    <3>3. CASE Ordered(T[i], T[b])
      <4>1. CASE T[b].base < End(T[i])
        BY <2>2, <3>0, <3>3, <4>1, Zenon DEF Ordered
      <4>2. CASE ~(T[b].base < End(T[i])) /\ Ordered(T[i + 1], T[b])
        <5>1. T[b].base < End(U[i]) => Stop(T[i].base, T[b].base)
          <6>1. T[b].base < End(U[i]) => Stop(End(T[i]), T[b].base)
            BY <4>2, Zenon DEF Ordered
          <6>2. T[i].base <= End(T[i])
            BY SMTT(30), <1>a
          <6> QED
            BY <1>a, <3>0, <6>1, <6>2, StopBelow, Zenon
        <5> QED
          BY <2>2, <3>0, <3>3, <5>1, Zenon DEF Ordered
      <4>3. CASE ~(T[b].base < End(T[i])) /\ Over(H, T, i + 1, b)
        <5>1. PICK c \in i + 1 + 1 .. b : /\ T[c].base < T[i + 1].base
                                          /\ Cap(H, T[i + 1], T[c])
                                          /\ c = b \/ Ordered(T[c], T[b])
          BY <1>0, <3>0, <4>3, LastOver, Zenon
        <5>0. Len(T) \in Nat /\ i \in Nat /\ b \in 1 .. Len(T)
          BY <1>0, <3>0
        <5>2. c \in 1 .. Len(T) /\ c \in i + 2 .. b /\ c # b
          <6>1. c \in 1 .. Len(T) /\ c \in i + 2 .. b
            BY ONLY <5>0, c \in i + 1 + 1 .. b
          <6>2. T[i + 1].base = End(T[i]) /\ T[c].base < End(T[i])
            BY <5>1, Zenon
          <6> QED
            BY <4>3, <6>1, <6>2, Zenon
        <5>3. CASE T[c].base < T[i].base
          BY <2>2, <3>1, <5>1, <5>2, <5>3, Zenon
        <5>4. CASE T[i].base <= T[c].base
          <6>1. ASSUME T[b].base < End(U[i]) PROVE Stop(T[i].base, T[b].base)
            <7>1. End(T[i + 1]) < End(T[c])
              BY <1>0, <5>1, <5>2, CapInside, Zenon
            <7>2. T[b].base < End(T[c])
              <8>1. T[b].base \in Nat /\ End(T[c]) \in Nat
                    /\ End(U[i]) = End(T[i + 1]) /\ End(T[i + 1]) \in Nat
                BY <1>a, <1>b, <3>0, <5>2, Zenon
              <8> QED
                BY ONLY <6>1, <7>1, <8>1
            <7>3. Stop(T[c].base, T[b].base)
              BY <5>1, <5>2, <7>2, Zenon DEF Ordered
            <7> QED
              BY <1>a, <1>b, <3>0, <5>2, <5>4, <7>3, StopBelow, Zenon
          <6> QED
            BY <2>2, <3>0, <3>3, <6>1, Zenon DEF Ordered
        <5>5. T[c].base \in Nat
          BY <1>b, <5>2, Zenon
        <5>6. T[c].base < T[i].base \/ T[i].base <= T[c].base
          BY ONLY <1>a, <5>5
        <5> QED
          BY <5>3, <5>4, <5>6, Zenon
      <4>4. Over(H, T, i + 1, b) \/ Ordered(T[i + 1], T[b])
        BY <1>0, <3>0, Zenon DEF Tab
      <4> QED
        BY <4>1, <4>2, <4>3, <4>4, Zenon
    <3>4. Over(H, T, i, b) \/ Ordered(T[i], T[b])
      <4>1. i < b
        BY <3>0
      <4> QED
        BY <1>0, <3>0, <4>1, Zenon DEF Tab
    <3> QED
      BY <3>2, <3>3, <3>4, Zenon
  <2> QED
    BY <2>1, <2>2, Zenon
<1>5. Covers(H, U)
  <2> SUFFICES ASSUME NEW g \in H PROVE \E k \in 1 .. Len(U) : Inside(g, U[k])
    BY Zenon  DEF Covers
  <2>1. PICK j \in 1 .. Len(T) : Inside(g, T[j])
    BY Zenon DEF Tab, Covers
  <2>2. PICK k \in 1 .. Len(U) : Inside(T[j], U[k])
    BY <1>1, Zenon
  <2>3. Inside(g, U[k])
    BY <1>0, <2>1, <2>2, InsideTrans, Zenon
  <2> QED
    BY <2>3, Zenon
<1> QED
  BY <1>0, <1>3, <1>4, <1>5, Zenon DEF Tab

Inserted(T, U, p, r) ==
  /\ U \in Seq(Blk) /\ Len(U) = Len(T) + 1 /\ p \in 0 .. Len(T)
  /\ U[p + 1] = r
  /\ \A j \in 1 .. p : U[j] = T[j]
  /\ \A j \in p + 1 .. Len(T) : U[j + 1] = T[j] /\ r.base < T[j].base
  /\ p > 0 => T[p].base < r.base

(* The new region begins with the new block, and covers it.                 *)
LEMMA NewBlock ==
  ASSUME NEW H, NEW T, NEW h, NEW r, Fits(H, T, h, r)
  PROVE  Headed(H \cup {h}, r) /\ Filled(H \cup {h}, r) /\ Inside(h, r)
<1>1. h \in Blk /\ r \in Blk /\ h.base = r.base /\ End(h) <= End(r) /\ r.base <= h.base
  BY BlkEnd DEF Fits
<1>2. Inside(h, r)
  BY <1>1, Zenon DEF Inside
<1>3. Filled(H \cup {h}, r)
  BY Zenon  DEF Filled, Fits
<1> QED
  BY <1>1, <1>2, <1>3, Zenon DEF Headed

(* Inserting r behind the last region that begins before it keeps the table *)
(* in shape.                                                                *)
LEMMA Insert ==
  ASSUME NEW H, NEW T, NEW U, NEW h, NEW r, NEW p, Tab(H, T), Fits(H, T, h, r),
         Inserted(T, U, p, r)
  PROVE  Tab(H \cup {h}, U)
<1>0. /\ T \in Seq(Blk) /\ H \subseteq Blk /\ h \in Blk /\ r \in Blk
      /\ U \in Seq(Blk) /\ Len(U) = Len(T) + 1 /\ p \in 0 .. Len(T)
      /\ \A j \in 1 .. Len(T) : T[j] \in Blk
      /\ h.base = r.base /\ Len(T) \in Nat /\ p \in Nat
  BY DEF Tab, Fits, Inserted
<1>a. /\ r.base \in Nat /\ End(r) \in Nat /\ r.base < End(r)
      /\ \A j \in 1 .. Len(T) : T[j].base \in Nat /\ End(T[j]) \in Nat
  BY <1>0, BlkEnd, Zenon
<1>b. /\ U[p + 1] = r
      /\ \A j \in 1 .. p : U[j] = T[j]
      /\ \A j \in p + 1 .. Len(T) : U[j + 1] = T[j] /\ r.base < T[j].base
      /\ p > 0 => T[p].base < r.base
  BY Zenon DEF Inserted
<1> DEFINE m(j) == IF j <= p THEN j ELSE j + 1
<1>1. \A j \in 1 .. Len(T) : m(j) \in 1 .. Len(U) /\ U[m(j)] = T[j]
  <2> TAKE j \in 1 .. Len(T)
  <2>1. CASE j <= p
    <3>1. j \in 1 .. p /\ j \in 1 .. Len(U)
      BY <1>0, <2>1
    <3> QED
      BY <1>b, <2>1, <3>1, Zenon
  <2>2. CASE ~(j <= p)
    <3>1. j \in p + 1 .. Len(T) /\ j + 1 \in 1 .. Len(U)
      BY <1>0, <2>2
    <3> QED
      BY <1>b, <2>2, <3>1, Zenon
  <2> QED
    BY <2>1, <2>2, Zenon
<1>2. ASSUME NEW k \in 1 .. Len(U), k # p + 1
      PROVE  \E j \in 1 .. Len(T) : k = m(j)
  <2>1. CASE k <= p
    <3>1. k \in 1 .. Len(T) /\ k = m(k)
      BY <1>0, <2>1
    <3> QED
      BY <3>1, Zenon
  <2>2. CASE k > p + 1
    <3>1. k - 1 \in 1 .. Len(T) /\ k = m(k - 1)
      BY <1>0, <2>2
    <3> QED
      BY <3>1, Zenon
  <2> QED
    BY <1>0, <1>2, <2>1, <2>2
<1>3. ASSUME NEW k \in 1 .. Len(U)
      PROVE  Headed(H \cup {h}, U[k]) /\ Filled(H \cup {h}, U[k])
  <2>1. CASE k = p + 1
    BY <1>b, <2>1, NewBlock, Zenon
  <2>2. CASE k # p + 1
    <3>1. PICK j \in 1 .. Len(T) : k = m(j)
      BY <1>2, <2>2, Zenon
    <3>2. U[k] = T[j]
      BY <1>1, <3>1, Zenon
    <3> QED
      BY <3>2, HeadGrows, Zenon DEF Tab
  <2> QED
    BY <2>1, <2>2, Zenon
<1>4. ASSUME NEW k \in 1 .. Len(U), NEW l \in 1 .. Len(U), k < l
      PROVE  Over(H \cup {h}, U, k, l) \/ Ordered(U[k], U[l])
  <2>1. CASE k # p + 1 /\ l # p + 1
    <3>1. PICK a \in 1 .. Len(T) : k = m(a)
      BY <1>2, <2>1, Zenon
    <3>2. PICK b \in 1 .. Len(T) : l = m(b)
      BY <1>2, <2>1, Zenon
    <3>3. a < b
      BY <1>0, <1>4, <3>1, <3>2
    <3>4. U[k] = T[a] /\ U[l] = T[b]
      BY <1>1, <3>1, <3>2, Zenon
    <3>5. ASSUME NEW c \in a + 1 .. b
          PROVE  \E d \in k + 1 .. l : Inside(T[c], U[d])
      <4>1. c \in 1 .. Len(T) /\ m(c) \in k + 1 .. l
        BY <1>0, <3>1, <3>2
      <4>2. Inside(T[c], U[m(c)])
        BY SMTT(30), <1>1, <1>a, <4>1 DEF Inside
      <4> QED
        BY <4>1, <4>2, Zenon
    <3> HIDE DEF m
    <3>6. CASE Over(H, T, a, b)
      BY <1>0, <3>4, <3>5, <3>6, OverMoves, Zenon
    <3> QED
      BY <3>3, <3>4, <3>6, Zenon DEF Tab
  <2>2. CASE l = p + 1
    <3>0. k \in 1 .. p /\ k \in 1 .. Len(T) /\ p \in 1 .. Len(T) /\ p > 0
      BY <1>0, <1>4, <2>2
    <3>1. U[k] = T[k] /\ U[l] = r
      BY <1>b, <2>2, <3>0, Zenon
    <3>2. CASE T[k].base < r.base
      <4>1. r.base < End(T[k]) => Stop(T[k].base, r.base)
        BY <3>0, <3>2, NewHead, Zenon
      <4> QED
        BY <3>1, <3>2, <4>1, Zenon DEF Ordered
    <3>3. CASE ~(T[k].base < r.base)
      <4>1. T[p].base < T[k].base
        BY SMTT(30), <1>a, <1>b, <3>0, <3>3
      <4>2. k < p /\ ~Ordered(T[k], T[p])
        BY <1>a, <3>0, <4>1 DEF Ordered
      <4>3. Over(H, T, k, p)
        BY <3>0, <4>2, Zenon DEF Tab
      <4>4. ASSUME NEW c \in k + 1 .. p
            PROVE  \E d \in k + 1 .. l : Inside(T[c], U[d])
        <5>1. c \in 1 .. p /\ c \in 1 .. Len(T) /\ c \in k + 1 .. l
          BY <1>0, <2>2, <3>0
        <5>2. Inside(T[c], U[c])
          BY <1>a, <1>b, <5>1 DEF Inside
        <5> QED
          BY <5>1, <5>2, Zenon
      <4> QED
        BY <1>0, <3>0, <3>1, <4>3, <4>4, OverMoves, Zenon
    <3> QED
      BY <3>2, <3>3, Zenon
  <2>3. CASE k = p + 1
    <3>1. l - 1 \in p + 1 .. Len(T) /\ l - 1 \in 1 .. Len(T) /\ (l - 1) + 1 = l
      BY <1>0, <1>4, <2>3
    <3>2. U[l] = T[l - 1] /\ r.base < T[l - 1].base
      BY <1>b, <3>1, Zenon
    <3>3. T[l - 1].base < End(r) => Stop(r.base, T[l - 1].base)
      BY <3>1, <3>2, NewHead, Zenon
    <3> QED
      BY <1>b, <2>3, <3>2, <3>3, Zenon DEF Ordered
  <2> QED
    BY <2>1, <2>2, <2>3, Zenon
<1>5. Covers(H \cup {h}, U)
  <2>1. p + 1 \in 1 .. Len(U) /\ Inside(h, U[p + 1])
    <3>1. Inside(h, r)
      BY NewBlock, Zenon
    <3> QED
      BY <1>0, <1>b, <3>1
  <2>2. \A j \in 1 .. Len(T) : Inside(T[j], U[m(j)])
    BY <1>1, <1>a DEF Inside
  <2> QED
    BY <1>0, <1>1, <2>1, <2>2, CoversStays, Zenon DEF Tab
<1>6. H \cup {h} \subseteq Blk
  BY <1>0, Zenon
<1> QED
  BY <1>0, <1>3, <1>4, <1>5, <1>6, Zenon DEF Tab

(* So does what lmb_add_region() does when r begins before the first region *)
(* but not before all of the others: r is written over the first region as  *)
(* well, which another region covers.                                       *)
LEMMA InsertFront ==
  ASSUME NEW H, NEW T, NEW U, NEW V, NEW h, NEW r, NEW p, Tab(H, T),
         Fits(H, T, h, r), Inserted(T, U, p, r), p > 0, r.base < T[1].base,
         V \in Seq(Blk), Len(V) = Len(U), V[1] = r,
         \A j \in 2 .. Len(U) : V[j] = U[j]
  PROVE  Tab(H \cup {h}, V)
<1>0. /\ T \in Seq(Blk) /\ H \subseteq Blk /\ h \in Blk /\ r \in Blk
      /\ U \in Seq(Blk) /\ Len(U) = Len(T) + 1 /\ p \in 1 .. Len(T)
      /\ \A j \in 1 .. Len(T) : T[j] \in Blk
      /\ h.base = r.base /\ Len(T) \in Nat /\ p \in Nat
      /\ 1 \in 1 .. Len(T) /\ 1 \in 1 .. Len(V) /\ 1 \in 1 .. p
      /\ H \cup {h} \subseteq Blk
  BY DEF Tab, Fits, Inserted
<1>a. /\ r.base \in Nat /\ End(r) \in Nat /\ r.base < End(r)
      /\ \A j \in 1 .. Len(T) : T[j].base \in Nat /\ End(T[j]) \in Nat
                                /\ T[j].base < End(T[j])
  BY <1>0, BlkEnd, Zenon
<1>b. /\ U[p + 1] = r
      /\ \A j \in 1 .. p : U[j] = T[j]
      /\ \A j \in p + 1 .. Len(T) : U[j + 1] = T[j] /\ r.base < T[j].base
      /\ T[p].base < r.base
  BY <1>0, Zenon DEF Inserted
<1>c. Tab(H \cup {h}, U)
  BY Insert, Zenon
<1>1. ASSUME NEW b \in 1 .. p, T[b].base < r.base
      PROVE  \E c \in 2 .. b : T[c].base < r.base /\ Cap(H, r, T[c])
                               /\ Inside(T[1], T[c])
  <2>1. b \in 1 .. Len(T) /\ 1 < b
    <3>1. T[1].base \in Nat /\ T[b].base \in Nat
      BY SMTT(30), <1>0, <1>a
    <3>2. b # 1
      BY <1>1, <1>a, <3>1
    <3> QED
      BY <1>0, <3>2
  <2>2. T[1].base \in Nat /\ T[b].base \in Nat /\ End(T[1]) \in Nat /\ T[1].base < End(T[1])
    BY <1>0, <1>a, <2>1, Zenon
  <2>3. ~Ordered(T[1], T[b])
    BY <1>1, <1>a, <2>2 DEF Ordered
  <2>4. Over(H, T, 1, b)
    BY <1>0, <2>1, <2>3, Zenon DEF Tab
  <2>5. PICK c \in 1 + 1 .. b : /\ T[c].base < T[1].base
                                /\ Cap(H, T[1], T[c])
                                /\ c = b \/ Ordered(T[c], T[b])
    BY <1>0, <2>1, <2>4, LastOver, Zenon
  <2>6. c \in 1 .. Len(T) /\ c \in 2 .. b
    BY <1>0, <2>1
  <2>7. T[c].base \in Nat /\ T[c] \in Blk /\ T[1] \in Blk
    BY <1>0, <1>a, <2>6, Zenon
  <2>8. c = b \/ T[c].base < T[b].base
    BY <2>5, Zenon DEF Ordered
  <2>9. T[c].base < r.base
    BY <1>1, <1>a, <2>2, <2>7, <2>8
  <2>10. r.base <= End(T[1])
    BY <1>a, <2>2
  <2>11. Cap(H, r, T[c])
    BY <2>5, <2>6, <2>7, <2>9, <2>10, CapNew, Zenon
  <2>12. Inside(T[1], T[c])
    BY <1>0, <2>5, <2>7, CapInside, Zenon
  <2> QED
    BY <2>6, <2>9, <2>11, <2>12, Zenon
<1>2. ASSUME NEW c \in 2 .. p PROVE V[c] = T[c] /\ c \in 1 .. Len(V)
  <2>1. c \in 1 .. p /\ c \in 2 .. Len(U)
    BY <1>0
  <2> QED
    BY <1>0, <1>b, <2>1
<1>3. ASSUME NEW k \in 1 .. Len(V)
      PROVE  Headed(H \cup {h}, V[k]) /\ Filled(H \cup {h}, V[k])
  <2>1. CASE k = 1
    BY <2>1, NewBlock, Zenon
  <2>2. CASE k # 1
    <3>1. k \in 2 .. Len(U) /\ k \in 1 .. Len(U)
      BY <1>0, <2>2
    <3> QED
      BY <1>c, <3>1, Zenon DEF Tab
  <2> QED
    BY <2>1, <2>2, Zenon
<1>4. ASSUME NEW k \in 1 .. Len(V), NEW l \in 1 .. Len(V), k < l
      PROVE  Over(H \cup {h}, V, k, l) \/ Ordered(V[k], V[l])
  <2>0. l \in 2 .. Len(U) /\ V[l] = U[l] /\ l \in 1 .. Len(U)
    BY <1>0, <1>4
  <2>1. CASE k # 1
    <3>1. k \in 1 .. Len(U) /\ k \in 2 .. Len(U) /\ V[k] = U[k]
      BY <1>0, <2>1
    <3>2. Over(H \cup {h}, U, k, l) \/ Ordered(U[k], U[l])
      BY <1>c, <1>4, <2>0, <3>1, Zenon DEF Tab
    <3>3. \A c \in k + 1 .. l : \E d \in k + 1 .. l : Inside(U[c], V[d])
      <4> TAKE c \in k + 1 .. l
      <4>1. c \in 2 .. Len(U) /\ c \in 1 .. Len(U)
        BY <1>0, <2>0, <3>1
      <4>2. U[c] \in Blk /\ V[c] = U[c]
        BY <1>0, <4>1
      <4>3. Inside(U[c], V[c])
        BY SMTT(30), <4>2, BlkEnd DEF Inside
      <4> QED
        BY <4>3, Zenon
    <3>4. CASE Over(H \cup {h}, U, k, l)
      BY <1>0, <2>0, <3>1, <3>3, <3>4, OverMoves, Zenon
    <3> QED
      BY <2>0, <3>1, <3>2, <3>4, Zenon
  <2>2. CASE k = 1
    <3>1. ASSUME NEW c \in 2 .. p, c <= l, T[c].base < r.base, Cap(H, r, T[c])
          PROVE  Over(H \cup {h}, V, 1, l)
      <4>1. V[c] = T[c] /\ c \in 1 + 1 .. l
        BY SMTT(30), <1>0, <1>2, <3>1
      <4>2. Cap(H \cup {h}, r, T[c])
        BY <3>1, Zenon DEF Cap
      <4> QED
        BY <3>1, <4>1, <4>2, Zenon DEF Over
    <3>2. CASE l <= p
      <4>1. l \in 1 .. p /\ l \in 1 .. Len(T)
        BY <1>0, <2>0, <3>2
      <4>2. V[l] = T[l] /\ T[l].base \in Nat
        BY <1>a, <1>b, <2>0, <4>1, Zenon
      <4>3. CASE T[l].base < r.base
        <5>1. PICK c \in 2 .. l : T[c].base < r.base /\ Cap(H, r, T[c])
          BY <1>1, <4>1, <4>3, Zenon
        <5>2. c \in 2 .. p /\ c <= l
          BY <1>0, <4>1
        <5> QED
          BY <2>2, <3>1, <5>1, <5>2, Zenon
      <4>4. CASE r.base < T[l].base
        <5>1. T[l].base < End(r) => Stop(r.base, T[l].base)
          BY <4>1, <4>4, NewHead, Zenon
        <5> QED
          BY <2>2, <4>2, <4>4, <5>1, Zenon DEF Ordered
      <4> QED
        BY SMTT(30), <1>a, <4>1, <4>2, <4>3, <4>4, NewHead
    <3>3. CASE l = p + 1
      <4>1. PICK c \in 2 .. p : T[c].base < r.base /\ Cap(H, r, T[c])
        <5>1. p \in 1 .. p
          BY <1>0
        <5> QED
          BY <1>1, <1>b, <5>1, Zenon
      <4>2. c <= l
        BY <1>0, <3>3
      <4> QED
        BY <2>2, <3>1, <4>1, <4>2, Zenon
    <3>4. CASE l > p + 1
      <4>1. l - 1 \in p + 1 .. Len(T) /\ l - 1 \in 1 .. Len(T) /\ (l - 1) + 1 = l
        BY <1>0, <3>4
      <4>2. V[l] = T[l - 1] /\ r.base < T[l - 1].base
        BY <1>b, <2>0, <4>1, Zenon
      <4>3. T[l - 1].base < End(r) => Stop(r.base, T[l - 1].base)
        BY <4>1, <4>2, NewHead, Zenon
      <4> QED
        BY <2>2, <4>2, <4>3, Zenon DEF Ordered
    <3> QED
      BY <1>0, <2>0, <3>2, <3>3, <3>4
  <2> QED
    BY <2>1, <2>2, Zenon
<1>5. Covers(H \cup {h}, V)
  <2>1. PICK c \in 2 .. p : Inside(T[1], T[c])
    <3>1. p \in 1 .. p
      BY <1>0
    <3> QED
      BY <1>1, <1>b, <3>1, Zenon
  <2> SUFFICES ASSUME NEW g \in H \cup {h} PROVE \E k \in 1 .. Len(V) : Inside(g, V[k])
    BY Zenon  DEF Covers
  <2>2. PICK j \in 1 .. Len(U) : Inside(g, U[j])
    BY <1>c, Zenon DEF Tab, Covers
  <2>3. CASE j = 1
    <3>1. U[1] = T[1] /\ V[c] = T[c] /\ c \in 1 .. Len(V) /\ c \in 1 .. Len(T)
      BY <1>0, <1>2, <1>b
    <3>2. Inside(g, V[c])
      BY <1>0, <2>1, <2>2, <2>3, <3>1, InsideTrans, Zenon
    <3> QED
      BY <3>1, <3>2, Zenon
  <2>4. CASE j # 1
    <3>1. j \in 2 .. Len(U)
      BY <1>0, <2>4
    <3> QED
      BY <2>2, <3>1, Zenon
  <2> QED
    BY <2>3, <2>4, Zenon
<1> QED
  BY <1>0, <1>3, <1>4, <1>5, Zenon DEF Tab

(* Division with remainder.                                                 *)
LEMMA DivMod ==
  ASSUME NEW n \in Nat, NEW a \in Nat \ {0}
  PROVE  /\ n \div a \in Nat /\ n % a \in Nat /\ n % a < a
         /\ n = a * (n \div a) + (n % a)
<1>1. n % a \in 0 .. a - 1
  OBVIOUS
<1>2. n \div a \in Int
  OBVIOUS
<1>3. n = a * (n \div a) + (n % a)
  OBVIOUS
<1>4. ~(n \div a < 0)
  <2> DEFINE d == n \div a
  <2>1. d \in Int /\ n = a * d + (n % a)
    BY <1>2, <1>3, Zenon
  <2> HIDE DEF d
  <2>2. ASSUME d <= -1 PROVE FALSE
    <3>1. a * d <= -a
      BY <2>1, <2>2
    <3> QED
      BY <1>1, <2>1, <3>1
  <2> QED
    BY <2>1, <2>2 DEF d
<1> QED
  BY <1>1, <1>2, <1>3, <1>4

(* A multiple of a leaves no remainder.                                     *)
LEMMA ModOfMultiple ==
  ASSUME NEW q \in Nat, NEW a \in Nat \ {0}
  PROVE  (a * q) % a = 0
<1> DEFINE n == a * q
<1>1. n \in Nat
  OBVIOUS
<1>2. /\ n \div a \in Nat /\ n % a \in Nat /\ n % a < a
      /\ n = a * (n \div a) + (n % a)
  BY <1>1, DivMod, Zenon
<1>3. n % a = a * (q - (n \div a))
  BY <1>2
<1> HIDE DEF n
<1> DEFINE d == q - (n \div a)
<1>4. d \in Int /\ n % a = a * d
  BY <1>2, <1>3
<1> HIDE DEF d
<1>5. d <= 0 \/ d >= 1
  BY <1>4
<1>6. CASE d >= 1
  <2>1. a * d >= a
    BY <1>4, <1>6
  <2> QED
    BY <1>2, <1>4, <2>1
<1>7. CASE d <= 0
  <2>1. a * d <= 0
    BY <1>4, <1>7
  <2> QED
    BY <1>2, <1>4, <2>1 DEF n
<1> QED
  BY <1>5, <1>6, <1>7, Zenon

(* No remainder is left exactly by the multiples.                           *)
LEMMA Divides ==
  ASSUME NEW n \in Nat, NEW a \in Nat \ {0}
  PROVE  n % a = 0 <=> \E q \in Nat : n = a * q
<1>1. n % a = 0 => \E q \in Nat : n = a * q
  <2>1. n \div a \in Nat /\ n = a * (n \div a) + (n % a)
    BY DivMod, Zenon
  <2>2. n % a = 0 => n = a * (n \div a)
    BY <2>1
  <2> QED
    BY <2>1, <2>2, Zenon
<1>2. ASSUME NEW q \in Nat, n = a * q PROVE n % a = 0
  BY <1>2, ModOfMultiple, Zenon
<1> QED
  BY <1>1, <1>2, Zenon

(* lmb_align_down() gives the last multiple not above the address.          *)
LEMMA AlignDown ==
  ASSUME NEW n \in Nat, NEW a \in Nat \ {0}
  PROVE  /\ lmb_align_down(n, a) \in Nat /\ lmb_align_down(n, a) <= n
         /\ n < lmb_align_down(n, a) + a /\ lmb_align_down(n, a) % a = 0
<1>1. /\ n \div a \in Nat /\ n % a \in Nat /\ n % a < a
      /\ n = a * (n \div a) + (n % a)
  BY DivMod, Zenon
<1>2. lmb_align_down(n, a) = a * (n \div a)
  BY <1>1 DEF lmb_align_down
<1>3. lmb_align_down(n, a) % a = 0
  BY <1>1, <1>2, ModOfMultiple, Zenon
<1>4. lmb_align_down(n, a) = n - (n % a)
  BY Zenon DEF lmb_align_down
<1> QED
  BY <1>1, <1>3, <1>4

(* Between a multiple and the next one there is none.                       *)
LEMMA NoMultiple ==
  ASSUME NEW n \in Nat, NEW e \in Nat, NEW a \in Nat \ {0}, n % a = 0,
         n - a < e, e < n
  PROVE  e % a # 0
<1> SUFFICES ASSUME e % a = 0 PROVE FALSE
  OBVIOUS
<1>1. PICK q \in Nat : n = a * q
  BY Divides, Zenon
<1>2. PICK k \in Nat : e = a * k
  BY Divides, Zenon
<1>3. CASE k >= q
  <2>1. a * k >= a * q
    BY <1>3
  <2> QED
    BY <1>1, <1>2, <2>1
<1>4. CASE k <= q - 1
  <2>1. a * k <= a * (q - 1)
    BY <1>4
  <2>2. a * (q - 1) = a * q - a
    OBVIOUS
  <2> QED
    BY <1>1, <1>2, <2>1, <2>2
<1> QED
  BY <1>3, <1>4

(* An address in the part by which a block was rounded up has a stop: the   *)
(* alignments that divide it are less than, and so divide, the one of the   *)
(* block.  Here it matters that of two alignments one divides the other.    *)
LEMMA StopInSlack ==
  ASSUME NEW a \in Aligns, NEW n \in Nat, NEW e \in Nat, NEW lo \in Nat,
         n % a = 0, lo <= n - a, n - a < e, e < n
  PROVE  Stop(lo, e)
<1>0. a \in Nat \ {0} /\ n - a \in Nat
  BY RequestAssumption
<1>1. n - a \in lo .. e - 1
  BY <1>0
<1>2. ASSUME NEW b \in Aligns, e % b = 0 PROVE (n - a) % b = 0
  <2>0. b \in Nat \ {0}
    BY RequestAssumption, Zenon
  <2>1. CASE a % b = 0
    <3>1. PICK k \in Nat : a = b * k
      BY <1>0, <2>0, <2>1, Divides, Zenon
    <3>2. PICK q \in Nat : n = a * q
      BY <1>0, Divides, Zenon
    <3>3. q >= 1
      <4>1. q = 0 => n = 0
        BY <1>0, <3>2
      <4> QED
        BY <1>0, <4>1
    <3>4. n - a = a * (q - 1)
      BY <1>0, <3>2
    <3>5. n - a = b * (k * (q - 1)) /\ k * (q - 1) \in Nat
      BY <2>0, <3>1, <3>3, <3>4
    <3> QED
      BY <1>0, <2>0, <3>5, Divides, Zenon
  <2>2. CASE b % a = 0
    <3>1. PICK k \in Nat : b = a * k
      BY <1>0, <2>0, <2>2, Divides, Zenon
    <3>2. PICK m \in Nat : e = b * m
      BY <1>2, <2>0, Divides, Zenon
    <3>3. e = a * (k * m) /\ k * m \in Nat
      BY <1>0, <3>1, <3>2
    <3>4. e % a = 0
      BY <1>0, <3>3, Divides, Zenon
    <3> QED
      BY <1>0, <3>4, NoMultiple, Zenon
  <2> QED
    BY <2>1, <2>2, RequestAssumption, Zenon
<1> QED
  BY <1>1, <1>2, Zenon DEF Stop

(* A block that __lmb_alloc_base() takes, rounded up, fits the table.       *)
LEMMA Rounded ==
  ASSUME NEW H, NEW T, NEW b \in Nat, NEW n \in Nat \ {0}, NEW a \in Aligns,
         b % a = 0, NEW h, NEW r, h = [base |-> b, size |-> n],
         r = [base |-> b, size |-> lmb_align_up(n, a)],
         \A g \in H : ~lmb_addrs_overlap(h, g),
         \A i \in 1 .. Len(T) : ~lmb_addrs_overlap(h, T[i])
  PROVE  Fits(H, T, h, r)
<1> DEFINE u == lmb_align_up(n, a)
<1>0. a \in Nat \ {0}
  BY RequestAssumption, Zenon
<1>1. u \in Nat /\ n <= u /\ u < n + a /\ u % a = 0
  <2> DEFINE v == n + a - 1
  <2>1. v \in Nat
    BY <1>0
  <2>2. u = lmb_align_down(v, a)
    BY Zenon DEF lmb_align_up
  <2> HIDE DEF v, u
  <2>3. u \in Nat /\ u <= v /\ v < u + a /\ u % a = 0
    BY <1>0, <2>1, <2>2, AlignDown, Zenon
  <2> QED
    BY <1>0, <2>3 DEF v
<1>2. a <= u
  <2>1. PICK q \in Nat : u = a * q
    BY <1>0, <1>1, Divides, Zenon
  <2>2. q >= 1
    <3>1. q = 0 => u = 0
      BY <1>0, <2>1
    <3> QED
      BY <1>1, <3>1
  <2>3. a * q >= a
    BY <1>0, <2>2
  <2> QED
    BY <2>1, <2>3, Zenon
<1> HIDE DEF u
<1>3. (b + u) % a = 0
  <2>1. PICK q \in Nat : u = a * q
    BY <1>0, <1>1, Divides, Zenon
  <2>2. PICK k \in Nat : b = a * k
    BY <1>0, Divides, Zenon
  <2>3. b + u = a * (q + k) /\ q + k \in Nat
    BY <1>0, <2>1, <2>2
  <2>4. b + u \in Nat
    BY <1>1
  <2> HIDE DEF u
  <2> QED
    BY <1>0, <2>3, <2>4, Divides, Zenon
<1>4. /\ h.base = b /\ r.base = b /\ End(h) = b + n /\ End(r) = b + u
      /\ h \in Blk /\ r \in Blk
  BY <1>1 DEF End, Blk, u
<1>5. ASSUME NEW e \in Nat, b + n <= e, e < b + u
      PROVE  Stop(b, e) /\ e % a # 0
  <2> DEFINE m == b + u
  <2>1. m \in Nat /\ b <= m - a /\ m - a < e /\ e < m /\ m % a = 0
    BY <1>0, <1>1, <1>2, <1>3, <1>5
  <2> HIDE DEF m
  <2>2. Stop(b, e)
    BY <2>1, StopInSlack, Zenon
  <2>3. e % a # 0
    BY <1>0, <2>1, NoMultiple, Zenon
  <2> QED
    BY <2>2, <2>3, Zenon
<1>6. Filled({h}, r)
  <2> SUFFICES ASSUME NEW e \in r.base + 1 .. End(r) - 1
               PROVE  (h.base <= e /\ e < End(h)) \/ Stop(r.base, e)
    BY Zenon DEF Filled
  <2>1. e \in Nat /\ b <= e /\ e < b + u
    BY <1>1, <1>4
  <2>2. e < b + n \/ b + n <= e
    BY <2>1
  <2> QED
    BY <1>4, <1>5, <2>1, <2>2, Zenon
<1>7. \A s \in End(h) .. End(r) - 1 : \E k \in Aligns : End(r) % k = 0 /\ s % k # 0
  <2> SUFFICES ASSUME NEW s \in End(h) .. End(r) - 1
               PROVE  End(r) % a = 0 /\ s % a # 0
    OBVIOUS
  <2>1. s \in Nat /\ b + n <= s /\ s < b + u
    BY <1>1, <1>4
  <2> QED
    BY <1>3, <1>4, <1>5, <2>1, Zenon
<1>8. End(h) <= End(r)
  BY <1>1, <1>4
<1> QED
  BY <1>4, <1>6, <1>7, <1>8, Zenon DEF Fits

(* A block that lmb_reserve() adds as it is fits the table.                 *)
LEMMA Plain ==
  ASSUME NEW H, NEW T, NEW h \in Blk, \A g \in H : ~lmb_addrs_overlap(h, g)
  PROVE  Fits(H, T, h, h)
<1>1. h.base \in Nat /\ End(h) \in Nat
  BY BlkEnd, Zenon
<1>2. Filled({h}, h)
  BY <1>1 DEF Filled
<1>3. \A s \in End(h) .. End(h) - 1 : FALSE
  BY <1>1
<1> QED
  BY <1>1, <1>2, <1>3 DEF Fits

(* FirstOf() is the least index of a set that has one.                      *)
LEMMA FirstIs ==
  ASSUME NEW S, S \subseteq Nat, S # {}, NEW d
  PROVE  FirstOf(S, d) \in S /\ \A j \in S : FirstOf(S, d) <= j
<1>1. \E i \in S : \A j \in S : i <= j
  BY Least, Zenon
<1> QED
  BY <1>1, Zenon DEF FirstOf

(* LastOf() is the greatest.                                                *)
LEMMA LastIs ==
  ASSUME NEW n \in Nat, NEW S, S \subseteq 1 .. n, S # {}, NEW d
  PROVE  LastOf(S, d) \in S /\ \A j \in S : j <= LastOf(S, d)
<1> DEFINE R == {n - i : i \in S}
<1>0. \A i \in S : n - i \in Nat
  OBVIOUS
<1>1. R \subseteq Nat /\ R # {}
  BY <1>0, Zenon
<1>2. PICK m \in R : \A k \in R : m <= k
  <2> HIDE DEF R
  <2> QED
    BY <1>1, Least, Zenon
<1>3. PICK i \in S : m = n - i
  OBVIOUS
<1>4. \A j \in S : j <= i
  BY <1>2, <1>3
<1> QED
  BY <1>4, Zenon DEF LastOf

(* A function on 1 .. n is a sequence of length n.                          *)
LEMMA SeqOf ==
  ASSUME NEW S, NEW n \in Nat, NEW f \in [1 .. n -> S]
  PROVE  f \in Seq(S) /\ Len(f) = n
OBVIOUS

(* The EXCEPT of lmb_add_region(): r is joined to region i, at either end.  *)
Grow(T, i, r) == [T EXCEPT ![i].base = IF @ = End(r) THEN r.base ELSE @,
                           ![i].size = @ + r.size]

(* G is T with r joined to region i, at either end.                         *)
GrownBy(T, G, i, r) ==
  /\ G \in Seq(Blk) /\ Len(G) = Len(T)
  /\ \A j \in 1 .. Len(T) : j # i => G[j] = T[j]
  /\ G[i].base = IF T[i].base = End(r) THEN r.base ELSE T[i].base
  /\ G[i].size = T[i].size + r.size

(* What the EXCEPT of lmb_add_region() gives.                               *)
LEMMA Grown ==
  ASSUME NEW T \in Seq(Blk), NEW i \in 1 .. Len(T), NEW r \in Blk, NEW G,
         G = Grow(T, i, r)
  PROVE  GrownBy(T, G, i, r)
<1>0. DOMAIN T = 1 .. Len(T) /\ Len(T) \in Nat /\ T[i] \in Blk
  OBVIOUS
<1> DEFINE b == IF T[i].base = End(r) THEN r.base ELSE T[i].base
           x == [T[i] EXCEPT !.base = b]
           y == [x EXCEPT !.size = x.size + r.size]
<1>1. b \in Nat /\ T[i].size + r.size \in Nat \ {0}
  BY <1>0 DEF Blk
<1>2. G[i] = y
  BY <1>0, Zenon DEF Grow
<1>3. \A j \in 1 .. Len(T) : j # i => G[j] = T[j]
  BY <1>0, Zenon DEF Grow
<1>4. DOMAIN G = 1 .. Len(T)
  BY <1>0, Zenon DEF Grow
<1>6. x \in Blk /\ x.base = b /\ x.size = T[i].size
  <2> HIDE DEF b
  <2> QED
    BY <1>0, <1>1, Zenon DEF Blk
<1>5. y \in Blk /\ y.base = b /\ y.size = T[i].size + r.size
  <2> HIDE DEF b, x
  <2> QED
    BY <1>1, <1>6, Zenon DEF Blk
<1> HIDE DEF y
<1>7. G = [j \in 1 .. Len(T) |-> G[j]]
  BY <1>0, Zenon DEF Grow
<1>8. G \in [1 .. Len(T) -> Blk]
  BY <1>0, <1>2, <1>3, <1>7, <1>5
<1>9. G \in Seq(Blk) /\ Len(G) = Len(T)
  <2>1. Len(T) \in Nat
    BY <1>0, Zenon
  <2> QED
    BY ONLY <1>8, <2>1, SeqOf, Zenon
<1> QED
  BY <1>2, <1>3, <1>5, <1>9, Zenon DEF GrownBy

(* A table with one region replaced.                                        *)
LEMMA Replaced ==
  ASSUME NEW T \in Seq(Blk), NEW i \in 1 .. Len(T), NEW y \in Blk, NEW W,
         W = [T EXCEPT ![i] = y]
  PROVE  /\ W \in Seq(Blk) /\ Len(W) = Len(T) /\ W[i] = y
         /\ \A j \in 1 .. Len(T) : j # i => W[j] = T[j]
OBVIOUS

(* lmb_coalesce_regions() of a region and the next one.                     *)
LEMMA Coalesced ==
  ASSUME NEW G \in Seq(Blk), NEW i \in 1 .. Len(G) - 1, NEW U,
         U = lmb_coalesce_regions(G, i, i + 1)
  PROVE  /\ U \in Seq(Blk) /\ Len(U) = Len(G) - 1
         /\ U[i].base = G[i].base /\ U[i].size = G[i].size + G[i + 1].size
         /\ \A j \in 1 .. Len(U) : /\ j < i => U[j] = G[j]
                                   /\ j > i => U[j] = G[j + 1]
<1>0. /\ Len(G) \in Nat /\ i \in 1 .. Len(G) /\ i + 1 \in 1 .. Len(G)
      /\ G[i] \in Blk /\ G[i + 1] \in Blk
  OBVIOUS
<1>1. G[i].size + G[i + 1].size \in Nat \ {0}
  BY SMTT(30), <1>0 DEF Blk
<1> DEFINE W == [G EXCEPT ![i].size = G[i].size + G[i + 1].size]
           y == [G[i] EXCEPT !.size = G[i].size + G[i + 1].size]
<1>2. U = [j \in 1 .. Len(W) - 1 |-> IF j < i + 1 THEN W[j] ELSE W[j + 1]]
  BY Zenon  DEF lmb_coalesce_regions, lmb_remove_region
<1>3. W = [G EXCEPT ![i] = y]
  BY Zenon
<1>4. y \in Blk /\ y.base = G[i].base /\ y.size = G[i].size + G[i + 1].size
  BY <1>0, <1>1, Zenon DEF Blk
<1> HIDE DEF W, y
<1>5. /\ W \in Seq(Blk) /\ Len(W) = Len(G) /\ W[i] = y
      /\ \A j \in 1 .. Len(G) : j # i => W[j] = G[j]
  BY <1>0, <1>3, <1>4
<1>6. \A j \in 1 .. Len(G) - 1 :
        (IF j < i + 1 THEN W[j] ELSE W[j + 1]) \in Blk
  BY <1>0, <1>5
<1>7. U \in [1 .. Len(G) - 1 -> Blk] /\ Len(G) - 1 \in Nat
  BY <1>0, <1>2, <1>5, <1>6
<1>8. U \in Seq(Blk) /\ Len(U) = Len(G) - 1
  BY ONLY <1>7, SeqOf, Zenon
<1>9. \A j \in 1 .. Len(G) - 1 : U[j] = IF j < i + 1 THEN W[j] ELSE W[j + 1]
  BY <1>2, <1>5, Zenon
<1>10. U[i] = y
  BY <1>0, <1>5, <1>9
<1>11. \A j \in 1 .. Len(U) : /\ j < i => U[j] = G[j]
                              /\ j > i => U[j] = G[j + 1]
  BY <1>0, <1>5, <1>8, <1>9
<1> QED
  BY <1>4, <1>8, <1>10, <1>11, Zenon

(* lmb_add_region() with r adjacent to region i, which may then be joined   *)
(* to the next one.                                                         *)
LEMMA AddAdjacent ==
  ASSUME NEW H, NEW T, NEW h, NEW r, Tab(H, T), Fits(H, T, h, r),
         NEW i \in 1 .. Len(T), lmb_addrs_adjacent(r, T[i]), NEW G,
         GrownBy(T, G, i, r)
  PROVE  /\ Tab(H \cup {h}, G) /\ Len(G) = Len(T)
         /\ i < Len(G) /\ lmb_addrs_adjacent(G[i], G[i + 1]) =>
              /\ Tab(H \cup {h}, lmb_coalesce_regions(G, i, i + 1))
              /\ Len(lmb_coalesce_regions(G, i, i + 1)) = Len(T) - 1
<1>0. /\ T \in Seq(Blk) /\ T[i] \in Blk /\ r \in Blk /\ Len(T) \in Nat
  BY DEF Tab, Fits
<1>1. /\ T[i].base \in Nat /\ T[i].size \in Nat \ {0}
      /\ r.base \in Nat /\ r.size \in Nat \ {0}
  BY <1>0, Zenon DEF Blk
<1>5. /\ G \in Seq(Blk) /\ Len(G) = Len(T)
      /\ \A j \in 1 .. Len(T) : j # i => G[j] = T[j]
      /\ G[i].base = IF T[i].base = End(r) THEN r.base ELSE T[i].base
      /\ G[i].size = T[i].size + r.size
  BY Zenon  DEF GrownBy
<1>6. Tab(H \cup {h}, G)
  <2>1. CASE T[i].base = End(r)
    <3>1. G[i].base = r.base /\ End(G[i]) = End(T[i])
      BY <1>1, <1>5, <2>1 DEF End
    <3> QED
      BY SMTT(30), <1>5, <2>1, <3>1, GrowDown
  <2>2. CASE End(T[i]) = r.base
    <3>1. T[i].base # End(r)
      BY <1>1, <2>2 DEF End
    <3>2. G[i].base = T[i].base /\ End(G[i]) = End(r)
      BY <1>1, <1>5, <2>2, <3>1 DEF End
    <3> QED
      BY <1>5, <2>2, <3>2, GrowUp
  <2> QED
    BY <2>1, <2>2, ZenonT(30) DEF lmb_addrs_adjacent
<1> DEFINE K == H \cup {h}
<1>10. Tab(K, G)
  BY <1>6, Zenon
<1> HIDE DEF K
<1>7. ASSUME i < Len(G), lmb_addrs_adjacent(G[i], G[i + 1])
      PROVE  /\ Tab(H \cup {h}, lmb_coalesce_regions(G, i, i + 1))
             /\ Len(lmb_coalesce_regions(G, i, i + 1)) = Len(T) - 1
  <2> DEFINE U == lmb_coalesce_regions(G, i, i + 1)
  <2>1. i \in 1 .. Len(G) - 1 /\ i + 1 \in 1 .. Len(G) /\ i \in 1 .. Len(G)
    BY <1>0, <1>5, <1>7
  <2>2. End(G[i]) = G[i + 1].base
    <3>1. G[i].base < End(G[i + 1])
      BY <1>6, <2>1, NextAbove, ZenonT(30)
    <3>2. G[i] \in Blk /\ G[i + 1] \in Blk
      BY <1>5, <2>1
    <3> QED
      BY <1>7, <3>1, <3>2, BlkEnd DEF lmb_addrs_adjacent
  <2>3. G[i] \in Blk /\ G[i + 1] \in Blk
    BY <1>5, <2>1
  <2>4. /\ G[i].base \in Nat /\ G[i].size \in Nat \ {0}
        /\ G[i + 1].base \in Nat /\ G[i + 1].size \in Nat \ {0}
    BY <2>3, Zenon DEF Blk
  <2>5. U = lmb_coalesce_regions(G, i, i + 1)
    OBVIOUS
  <2> HIDE DEF U
  <2>7. /\ U \in Seq(Blk) /\ Len(U) = Len(G) - 1
        /\ U[i].base = G[i].base /\ U[i].size = G[i].size + G[i + 1].size
        /\ \A j \in 1 .. Len(U) : /\ j < i => U[j] = G[j]
                                  /\ j > i => U[j] = G[j + 1]
    BY ONLY SMTT(30), <1>5, <2>1, <2>5, Coalesced
  <2>9. U[i].base = G[i].base /\ End(U[i]) = End(G[i + 1])
    BY SMTT(30), <2>2, <2>4, <2>7 DEF End
  <2>10. Tab(K, U)
    BY ONLY <1>10, <2>1, <2>2, <2>7, <2>9, Merge, Zenon
  <2> QED
    BY <1>5, <2>7, <2>10, ZenonT(30) DEF U, K
<1> QED
  BY <1>5, <1>6, <1>7, Zenon

(* What lmb_add_region() makes of a table T and a region r adjacent to its  *)
(* region i, of a region behind p and in front of the rest.                 *)
JoinsTo(T, r, V, i) ==
  \E G : /\ GrownBy(T, G, i, r)
         /\ V = IF i < Len(G) /\ lmb_addrs_adjacent(G[i], G[i + 1])
                THEN lmb_coalesce_regions(G, i, i + 1) ELSE G

Behind(T, p, r) ==
  /\ p \in 0 .. Len(T)
  /\ \A j \in p + 1 .. Len(T) : r.base < T[j].base
  /\ p > 0 => T[p].base <= r.base

(* The four ways of lmb_add_region().                                       *)
LEMMA AddShape ==
  ASSUME NEW T \in Seq(Blk), NEW r \in Blk, NEW x, x = lmb_add_region(T, r)
  PROVE  \/ /\ x.ok /\ x.rgn = T
            /\ \E i \in 1 .. Len(T) : T[i] = r
         \/ /\ x.ok
            /\ \E i \in 1 .. Len(T) : /\ lmb_addrs_adjacent(r, T[i])
                                      /\ JoinsTo(T, r, x.rgn, i)
                                      /\ \A j \in 1 .. i - 1 :
                                           ~lmb_addrs_adjacent(r, T[j])
         \/ ~x.ok /\ x.rgn = T /\ ~Room(T)
         \/ /\ x.ok /\ Room(T)
            /\ \A j \in 1 .. Len(T) : ~lmb_addrs_adjacent(r, T[j])
            /\ \E p : Behind(T, p, r) /\ x.rgn = InsertAfter(T, p, r)
<1> DEFINE same == {i \in 1 .. Len(T) : T[i] = r}
           adj == {i \in 1 .. Len(T) : lmb_addrs_adjacent(r, T[i])}
           i == FirstOf(same \cup adj, 0)
           grown == Grow(T, i, r)
           early == {j \in 1 .. Len(T) : T[j].base <= r.base}
           p == LastOf(early, 0)
<1>0. /\ Len(T) \in Nat
      /\ \A j \in 1 .. Len(T) : T[j] \in Blk /\ T[j].base \in Nat
  BY BlkEnd
<1>1. ~(Len(T) = 1 /\ T[1].size = 0)
  <2>1. Len(T) = 1 => T[1] \in Blk
    BY <1>0
  <2> QED
    BY <2>1, Zenon DEF Blk
<1>2. x = IF Len(T) = 1 /\ T[1].size = 0 THEN [rgn |-> <<r>>, ok |-> TRUE]
          ELSE IF i \in same THEN [rgn |-> T, ok |-> TRUE]
          ELSE IF i # 0 THEN
            [rgn |-> IF i < Len(T) /\ lmb_addrs_adjacent(grown[i], grown[i + 1])
                     THEN lmb_coalesce_regions(grown, i, i + 1)
                     ELSE grown,
             ok |-> TRUE]
          ELSE IF ~Room(T) THEN [rgn |-> T, ok |-> FALSE]
          ELSE [rgn |-> InsertAfter(T, p, r), ok |-> TRUE]
  BY Zenon  DEF lmb_add_region, Grow
<1>3. same \cup adj # {} => i \in same \cup adj /\ \A j \in same \cup adj : i <= j
  <2>1. same \cup adj \subseteq Nat
    BY <1>0
  <2> HIDE DEF same, adj
  <2> QED
    BY <2>1, FirstIs, Zenon
<1>4. same \cup adj = {} => i = 0
  BY Zenon  DEF FirstOf
<1>5. i # 0 /\ i \notin same => i \in adj
  BY <1>3, <1>4, Zenon
<1>6. Behind(T, p, r)
  <2>1. CASE early = {}
    <3>1. p = 0
      BY <2>1, Zenon DEF LastOf
    <3>2. \A j \in 1 .. Len(T) : r.base < T[j].base
      <4>1. r.base \in Nat
        BY BlkEnd, Zenon
      <4> QED
        BY <1>0, <2>1, <4>1
    <3> HIDE DEF p
    <3> QED
      BY <1>0, <3>1, <3>2 DEF Behind
  <2>2. CASE early # {}
    <3>1. p \in early /\ \A j \in early : j <= p
      <4>1. early \subseteq 1 .. Len(T)
        OBVIOUS
      <4> HIDE DEF early
      <4> QED
        BY <1>0, <2>2, <4>1, LastIs, Zenon
    <3>2. r.base \in Nat
      BY BlkEnd, Zenon
    <3> HIDE DEF p
    <3>3. ASSUME NEW j \in p + 1 .. Len(T) PROVE r.base < T[j].base
      <4>1. j \in 1 .. Len(T) /\ ~(j <= p)
        BY <1>0, <3>1
      <4>2. ~(T[j].base <= r.base)
        BY <3>1, <4>1, Zenon
      <4> QED
        BY <1>0, <3>2, <4>1, <4>2
    <3> QED
      BY <1>0, <3>1, <3>3 DEF Behind
  <2> QED
    BY <2>1, <2>2, Zenon
<1>7. ASSUME i # 0, i \notin same
      PROVE  /\ x.ok /\ i \in 1 .. Len(T) /\ lmb_addrs_adjacent(r, T[i])
             /\ JoinsTo(T, r, x.rgn, i)
             /\ \A j \in 1 .. i - 1 : ~lmb_addrs_adjacent(r, T[j])
  <2>1. i \in 1 .. Len(T) /\ lmb_addrs_adjacent(r, T[i])
    BY <1>5, <1>7, Zenon
  <2>2. \A j \in 1 .. i - 1 : ~lmb_addrs_adjacent(r, T[j])
    <3>1. \A j \in 1 .. Len(T) : lmb_addrs_adjacent(r, T[j]) => i <= j
      BY <1>3, Zenon
    <3> HIDE DEF i
    <3> QED
      BY <1>0, <2>1, <3>1
  <2>3. GrownBy(T, grown, i, r)
    <3> HIDE DEF i
    <3>1. grown = Grow(T, i, r)
      BY Zenon
    <3> HIDE DEF grown
    <3> QED
      BY <2>1, <3>1, Grown, Zenon
  <2>4. Len(grown) = Len(T)
    BY <2>3, Zenon DEF GrownBy
  <2> HIDE DEF i, grown, p, same
  <2>5. x.ok /\ x.rgn = IF i < Len(grown) /\ lmb_addrs_adjacent(grown[i], grown[i + 1])
                        THEN lmb_coalesce_regions(grown, i, i + 1) ELSE grown
    BY <1>1, <1>2, <1>7, <2>4
  <2>6. JoinsTo(T, r, x.rgn, i)
    BY <2>3, <2>5, Zenon DEF JoinsTo
  <2> QED
    BY <2>1, <2>2, <2>5, <2>6, Zenon
<1>8. CASE i \in same
  <2>1. i \in 1 .. Len(T) /\ T[i] = r
    BY <1>8, Zenon
  <2> HIDE DEF i, grown, p, same
  <2>2. x.ok /\ x.rgn = T
    BY <1>1, <1>2, <1>8
  <2> QED
    BY <2>1, <2>2, Zenon
<1>9. CASE i = 0 /\ ~Room(T)
  <2>1. i \notin same
    BY <1>9, <1>0
  <2> HIDE DEF i, grown, p, same
  <2>2. ~x.ok /\ x.rgn = T
    BY <1>1, <1>2, <1>9, <2>1
  <2> QED
    BY <1>9, <2>2, Zenon
<1>10. CASE i = 0 /\ Room(T)
  <2>1. i \notin same /\ i \notin same \cup adj
    BY <1>10, <1>0
  <2>3. \A j \in 1 .. Len(T) : ~lmb_addrs_adjacent(r, T[j])
    <3>1. same \cup adj = {}
      BY <1>3, <2>1, Zenon
    <3> QED
      BY <3>1, Zenon
  <2> HIDE DEF i, grown, p, same
  <2>2. x.ok /\ x.rgn = InsertAfter(T, p, r)
    BY <1>1, <1>2, <1>10, <2>1
  <2> QED
    BY <1>6, <1>10, <2>2, <2>3, ZenonT(30)
<1> QED
  <2> HIDE DEF i, same
  <2> QED
    BY <1>7, <1>8, <1>9, <1>10, Zenon

(* The shifting loop of lmb_add_region().                                   *)
LEMMA InsertedAfter ==
  ASSUME NEW T \in Seq(Blk), NEW r \in Blk, NEW p, Behind(T, p, r), NEW V,
         V = InsertAfter(T, p, r)
  PROVE  /\ V \in Seq(Blk) /\ Len(V) = Len(T) + 1 /\ V[p + 1] = r
         /\ \A j \in 1 .. p :
              V[j] = IF j = 1 /\ r.base < T[1].base THEN r ELSE T[j]
         /\ \A j \in p + 1 .. Len(T) : V[j + 1] = T[j]
<1>0. Len(T) \in Nat /\ Len(T) + 1 \in Nat /\ p \in 0 .. Len(T)
  BY DEF Behind
<1>1. V = [i \in 1 .. Len(T) + 1 |->
             IF i = p + 1 \/ (i = 1 /\ r.base < T[1].base) THEN r
             ELSE IF i <= p THEN T[i] ELSE T[i - 1]]
  BY Zenon  DEF InsertAfter
<1>2. \A i \in 1 .. Len(T) + 1 :
        (IF i = p + 1 \/ (i = 1 /\ r.base < T[1].base) THEN r
         ELSE IF i <= p THEN T[i] ELSE T[i - 1]) \in Blk
  BY <1>0
<1>3. V \in [1 .. Len(T) + 1 -> Blk]
  BY <1>0, <1>1, <1>2, Zenon
<1>4. V \in Seq(Blk) /\ Len(V) = Len(T) + 1
  BY ONLY <1>0, <1>3, SeqOf, Zenon
<1>5. \A i \in 1 .. Len(T) + 1 :
        V[i] = IF i = p + 1 \/ (i = 1 /\ r.base < T[1].base) THEN r
               ELSE IF i <= p THEN T[i] ELSE T[i - 1]
  BY <1>1, Zenon
<1>6. V[p + 1] = r
  BY <1>0, <1>5
<1>7. ASSUME NEW j \in 1 .. p
      PROVE  V[j] = IF j = 1 /\ r.base < T[1].base THEN r ELSE T[j]
  <2>1. j \in 1 .. Len(T) + 1 /\ j # p + 1 /\ j <= p
    BY <1>0
  <2> QED
    BY <1>5, <2>1, Zenon
<1>8. ASSUME NEW j \in p + 1 .. Len(T) PROVE V[j + 1] = T[j]
  <2>1. /\ j + 1 \in 1 .. Len(T) + 1 /\ j + 1 # p + 1 /\ ~(j + 1 <= p)
        /\ j + 1 # 1 /\ (j + 1) - 1 = j
    BY <1>0
  <2> QED
    BY <1>5, <2>1, Zenon
<1> QED
  BY <1>4, <1>6, <1>7, <1>8, Zenon

(* lmb_add_region() keeps the table a table that fits its array.            *)
LEMMA AddSeq ==
  ASSUME NEW T \in Seq(Blk), NEW r \in Blk, NEW x, x = lmb_add_region(T, r),
         Len(T) <= MAX_LMB_REGIONS
  PROVE  x.rgn \in Seq(Blk) /\ Len(x.rgn) <= MAX_LMB_REGIONS
<1>0. Len(T) \in Nat /\ MAX_LMB_REGIONS \in Nat
  BY TableAssumption
<1>1. ASSUME NEW i \in 1 .. Len(T), JoinsTo(T, r, x.rgn, i)
      PROVE  x.rgn \in Seq(Blk) /\ Len(x.rgn) <= MAX_LMB_REGIONS
  <2>1. PICK G : /\ GrownBy(T, G, i, r)
                 /\ x.rgn = IF i < Len(G) /\ lmb_addrs_adjacent(G[i], G[i + 1])
                            THEN lmb_coalesce_regions(G, i, i + 1) ELSE G
    BY <1>1, Zenon DEF JoinsTo
  <2>2. G \in Seq(Blk) /\ Len(G) = Len(T)
    BY <2>1, Zenon DEF GrownBy
  <2>3. CASE x.rgn = G
    BY <2>2, <2>3, Zenon
  <2>4. CASE i < Len(G) /\ x.rgn = lmb_coalesce_regions(G, i, i + 1)
    <3>1. i \in 1 .. Len(G) - 1
      BY <1>0, <2>2, <2>4
    <3>2. x.rgn \in Seq(Blk) /\ Len(x.rgn) = Len(G) - 1
      BY ONLY <2>2, <2>4, <3>1, Coalesced
    <3> QED
      BY <1>0, <2>2, <3>2
  <2> QED
    BY <2>1, <2>3, <2>4, Zenon
<1>2. ASSUME NEW p, Behind(T, p, r), x.rgn = InsertAfter(T, p, r), Room(T)
      PROVE  x.rgn \in Seq(Blk) /\ Len(x.rgn) <= MAX_LMB_REGIONS
  <2>1. x.rgn \in Seq(Blk) /\ Len(x.rgn) = Len(T) + 1
    BY ONLY T \in Seq(Blk), r \in Blk, <1>2, InsertedAfter
  <2> QED
    BY <1>0, <1>2, <2>1 DEF Room
<1> QED
  BY <1>1, <1>2, AddShape, Zenon

(* lmb_add_region() of a block that overlaps none of those in use keeps     *)
(* the table in shape, with that block covered too.                         *)
LEMMA AddRegion ==
  ASSUME NEW H, NEW T, NEW h, NEW r, Tab(H, T), Fits(H, T, h, r),
         NEW x, x = lmb_add_region(T, r), NEW K, K = H \cup {h}
  PROVE  /\ x.ok => Tab(K, x.rgn)
         /\ ~x.ok => x.rgn = T
<1>0. T \in Seq(Blk) /\ r \in Blk /\ Len(T) \in Nat /\ r.base \in Nat
  BY BlkEnd DEF Tab, Fits
<1>1. \A i \in 1 .. Len(T) : T[i].base # r.base
  BY NewHead, Zenon
<1>2. ASSUME NEW i \in 1 .. Len(T), lmb_addrs_adjacent(r, T[i]),
             JoinsTo(T, r, x.rgn, i)
      PROVE  Tab(H \cup {h}, x.rgn)
  <2>1. PICK G : /\ GrownBy(T, G, i, r)
                 /\ x.rgn = IF i < Len(G) /\ lmb_addrs_adjacent(G[i], G[i + 1])
                            THEN lmb_coalesce_regions(G, i, i + 1) ELSE G
    BY <1>2, Zenon DEF JoinsTo
  <2>2. /\ G \in Seq(Blk) /\ Len(G) = Len(T)
        /\ \A j \in 1 .. Len(T) : j # i => G[j] = T[j]
        /\ G[i].base = IF T[i].base = End(r) THEN r.base ELSE T[i].base
        /\ G[i].size = T[i].size + r.size
    BY <2>1, Zenon DEF GrownBy
  <2>3. /\ Tab(H \cup {h}, G)
        /\ i < Len(G) /\ lmb_addrs_adjacent(G[i], G[i + 1]) =>
             Tab(H \cup {h}, lmb_coalesce_regions(G, i, i + 1))
    BY <1>2, <2>1, AddAdjacent, Zenon
  <2> QED
    BY <2>1, <2>3, Zenon
<1>3. ASSUME NEW p, Behind(T, p, r), x.rgn = InsertAfter(T, p, r)
      PROVE  Tab(H \cup {h}, x.rgn)
  <2> DEFINE V == x.rgn
             U == [V EXCEPT ![1] = IF p = 0 THEN r ELSE T[1]]
  <2>1. /\ V \in Seq(Blk) /\ Len(V) = Len(T) + 1 /\ V[p + 1] = r
        /\ \A j \in 1 .. p :
             V[j] = IF j = 1 /\ r.base < T[1].base THEN r ELSE T[j]
        /\ \A j \in p + 1 .. Len(T) : V[j + 1] = T[j]
    BY ONLY <1>0, <1>3, InsertedAfter
  <2>2. /\ p \in 0 .. Len(T) /\ \A j \in p + 1 .. Len(T) : r.base < T[j].base
        /\ p > 0 => T[p].base <= r.base
    BY <1>3, Zenon DEF Behind
  <2>3. p > 0 => T[p].base < r.base
    <3>1. p > 0 => p \in 1 .. Len(T) /\ T[p] \in Blk /\ T[p].base \in Nat
      BY <1>0, <2>2, BlkEnd
    <3> QED
      BY <1>0, <1>1, <2>2, <3>1
  <2>4. 1 \in 1 .. Len(V) /\ p + 1 \in 1 .. Len(V)
    BY <1>0, <2>1, <2>2
  <2> DEFINE y == IF p = 0 THEN r ELSE T[1]
  <2>5. y \in Blk
    BY <1>0, <2>2
  <2> HIDE DEF V, U, y
  <2>6. U = [V EXCEPT ![1] = y]
    BY Zenon  DEF U, y
  <2>7. /\ U \in Seq(Blk) /\ Len(U) = Len(V) /\ U[1] = y
        /\ \A j \in 1 .. Len(V) : j # 1 => U[j] = V[j]
    BY ONLY <2>1, <2>4, <2>5, <2>6, Replaced
  <2>8. Inserted(T, U, p, r)
    <3>1. U[p + 1] = r
      BY <2>1, <2>2, <2>4, <2>7 DEF y
    <3>2. ASSUME NEW j \in 1 .. p PROVE U[j] = T[j]
      <4>1. j \in 1 .. Len(V) /\ p # 0
        BY <1>0, <2>1, <2>2
      <4>2. CASE j = 1
        BY <2>7, <4>1, <4>2, Zenon DEF y
      <4>3. CASE j # 1
        BY <2>1, <2>7, <4>1, <4>3, Zenon
      <4> QED
        BY <4>2, <4>3, ZenonT(30)
    <3>3. ASSUME NEW j \in p + 1 .. Len(T) PROVE U[j + 1] = T[j] /\ r.base < T[j].base
      <4>1. j + 1 \in 1 .. Len(V) /\ j + 1 # 1
        BY <1>0, <2>1, <2>2
      <4> QED
        BY <2>1, <2>2, <2>7, <4>1, ZenonT(30)
    <3> QED
      BY <2>1, <2>2, <2>3, <2>7, <3>1, <3>2, <3>3, ZenonT(30) DEF Inserted
  <2>9. CASE p > 0 /\ r.base < T[1].base
    <3>1. V[1] = r
      <4>1. 1 \in 1 .. p
        BY <2>2, <2>9
      <4> QED
        BY <2>1, <2>9, <4>1, Zenon
    <3>2. /\ V \in Seq(Blk) /\ Len(V) = Len(U)
          /\ \A j \in 2 .. Len(U) : V[j] = U[j]
      BY <1>0, <2>1, <2>7
    <3>3. Tab(H \cup {h}, V)
      BY ONLY Tab(H, T), Fits(H, T, h, r), <2>8, <2>9, <3>1, <3>2, InsertFront, Zenon
    <3> QED
      BY <3>3, Zenon DEF V
  <2>10. CASE p = 0 \/ ~(r.base < T[1].base)
    <3>1. V[1] = y
      <4>1. p # 0 => 1 \in 1 .. p
        BY <2>2
      <4> QED
        BY <2>1, <2>10, <4>1 DEF y
    <3>2. U = V
      <4>1. \A j \in 1 .. Len(V) : U[j] = V[j]
        BY <2>7, <3>1, Zenon
      <4> QED
        BY <2>1, <2>7, <4>1
    <3>3. Tab(H \cup {h}, U)
      BY ONLY Tab(H, T), Fits(H, T, h, r), <2>8, Insert, Zenon
    <3> QED
      BY <3>2, <3>3, Zenon DEF V
  <2> QED
    BY <2>2, <2>9, <2>10
<1>4. ~\E i \in 1 .. Len(T) : T[i] = r
  BY <1>1, Zenon
<1> QED
  BY <1>0, <1>2, <1>3, <1>4, AddShape, ZenonT(30)

(* No two blocks in use overlap.                                            *)
Apart(H) == \A g, h \in H : g # h => ~lmb_addrs_overlap(g, h)

(* L is T with region i cut at b: what lies behind b is left to lmb_free()  *)
(* to add again.                                                            *)
Cut(T, L, i, b) ==
  /\ L \in Seq(Blk) /\ Len(L) = Len(T)
  /\ \A j \in 1 .. Len(T) : j # i => L[j] = T[j]
  /\ L[i].base = T[i].base /\ End(L[i]) = b.base

(* A block that overlaps b not lies on one side of it.                      *)
LEMMA BesideFreed ==
  ASSUME NEW H, H \subseteq Blk, Apart(H), NEW b \in H, NEW h \in H \ {b}
  PROVE  End(h) <= b.base \/ End(b) <= h.base
<1>1. ~lmb_addrs_overlap(h, b)
  BY Zenon  DEF Apart
<1>2. h \in Blk /\ b \in Blk
  OBVIOUS
<1> QED
  BY <1>1, <1>2, BlkEnd DEF lmb_addrs_overlap

(* lmb_free() of a block inside a region: the part in front of it stays     *)
(* where it is, the part behind it is added.  Although the table is not in  *)
(* shape in between, no other block is lost.                                *)
LEMMA SplitCovers ==
  ASSUME NEW H, NEW T, Tab(H, T), Apart(H), NEW b \in H, NEW i \in 1 .. Len(T),
         Inside(b, T[i]), \A k \in 1 .. i - 1 : ~Inside(b, T[k]),
         T[i].base < b.base, End(b) < End(T[i]), NEW L, Cut(T, L, i, b),
         NEW rest \in Blk, rest.base = End(b), End(rest) = End(T[i]),
         NEW x, x = lmb_add_region(L, rest), x.ok
  PROVE  Covers(H \ {b}, x.rgn)
<1>0. /\ T \in Seq(Blk) /\ H \subseteq Blk /\ Len(T) \in Nat /\ b \in Blk
      /\ \A j \in 1 .. Len(T) : T[j] \in Blk
  BY DEF Tab
<1>1. /\ L \in Seq(Blk) /\ Len(L) = Len(T)
      /\ \A j \in 1 .. Len(T) : j # i => L[j] = T[j]
      /\ L[i].base = T[i].base /\ End(L[i]) = b.base
  BY ZenonT(30)  DEF Cut
<1>2. \A j \in 1 .. Len(T) : L[j] \in Blk
  BY <1>0, <1>1
<1>3. /\ b.base \in Nat /\ End(b) \in Nat /\ b.base < End(b)
      /\ T[i].base \in Nat /\ End(T[i]) \in Nat /\ T[i].base < End(T[i])
  BY <1>0, BlkEnd, Zenon
<1>4. \A j \in 1 .. Len(T) : /\ T[j].base \in Nat /\ End(T[j]) \in Nat
                             /\ T[j].base < End(T[j])
                             /\ L[j].base \in Nat /\ End(L[j]) \in Nat
                             /\ L[j].base < End(L[j])
  BY <1>0, <1>2, BlkEnd, Zenon
<1>5. ASSUME NEW h \in H \ {b}, Inside(h, T[i])
      PROVE  Inside(h, L[i]) \/ Inside(h, rest)
  <2>1. End(h) <= b.base \/ End(b) <= h.base
    BY <1>0, BesideFreed, Zenon
  <2>2. h.base \in Nat /\ End(h) \in Nat
    BY <1>0, BlkEnd, Zenon
  <2> QED
    BY <1>1, <1>3, <1>5, <2>1, <2>2, Zenon DEF Inside
<1>6. ASSUME NEW h \in H \ {b}, NEW k \in 1 .. Len(T), Inside(h, T[k])
      PROVE  Inside(h, L[k]) \/ Inside(h, rest)
  <2>1. CASE k = i
    BY <1>5, <1>6, <2>1, Zenon
  <2>2. CASE k # i
    BY <1>1, <1>6, <2>2, Zenon
  <2> QED
    BY <2>1, <2>2, Zenon
<1>7. \A h \in H \ {b} : (\E k \in 1 .. Len(T) : Inside(h, L[k])) \/ Inside(h, rest)
  <2> TAKE h \in H \ {b}
  <2>1. PICK k \in 1 .. Len(T) : Inside(h, T[k])
    BY Zenon  DEF Tab, Covers
  <2> QED
    BY <1>6, <2>1, Zenon
<1>8. CASE x.rgn = L /\ \E j \in 1 .. Len(L) : L[j] = rest
  BY ZenonT(30), <1>1, <1>7, <1>8 DEF Covers
<1>9. ASSUME NEW j \in 1 .. Len(L), lmb_addrs_adjacent(rest, L[j]),
             JoinsTo(L, rest, x.rgn, j)
      PROVE  Covers(H \ {b}, x.rgn)
  <2>1. PICK G : /\ GrownBy(L, G, j, rest)
                 /\ x.rgn = IF j < Len(G) /\ lmb_addrs_adjacent(G[j], G[j + 1])
                            THEN lmb_coalesce_regions(G, j, j + 1) ELSE G
    BY <1>9, Zenon DEF JoinsTo
  <2>2. /\ G \in Seq(Blk) /\ Len(G) = Len(T) /\ j \in 1 .. Len(T)
        /\ \A k \in 1 .. Len(T) : k # j => G[k] = L[k]
        /\ G[j].base = IF L[j].base = End(rest) THEN rest.base ELSE L[j].base
        /\ G[j].size = L[j].size + rest.size
    BY <1>1, <1>9, <2>1, Zenon DEF GrownBy
  <2>3. /\ L[j].base \in Nat /\ L[j].size \in Nat \ {0}
        /\ rest.base \in Nat /\ rest.size \in Nat \ {0}
    BY <1>2, <2>2, Zenon DEF Blk
  <2>4. Inside(L[j], G[j]) /\ Inside(rest, G[j])
    BY SMTT(30), <1>9, <2>2, <2>3 DEF lmb_addrs_adjacent, Inside, End
  <2>5. \A k \in 1 .. Len(T) : G[k] \in Blk
    BY <2>2
  <2>6. \A k \in 1 .. Len(T) : Inside(L[k], G[k])
    <3> TAKE k \in 1 .. Len(T)
    <3>1. CASE k = j
      BY <2>4, <3>1, Zenon
    <3>2. CASE k # j
      <4>1. G[k] = L[k]
        BY <2>2, <3>2, Zenon
      <4>2. L[k].base \in Nat /\ End(L[k]) \in Nat
        BY <1>4, ZenonT(30)
      <4>3. L[k].base <= L[k].base /\ End(L[k]) <= End(L[k])
        BY <4>2
      <4> QED
        BY <4>1, <4>3, Zenon DEF Inside
    <3> QED
      BY <3>1, <3>2, Zenon
  <2>7. \A h \in H \ {b} : \E k \in 1 .. Len(T) : Inside(h, G[k])
    <3> TAKE h \in H \ {b}
    <3>1. h \in Blk
      BY <1>0, Zenon
    <3>2. CASE Inside(h, rest)
      <4>1. Inside(h, G[j])
        BY <2>2, <2>4, <2>5, <3>1, <3>2, InsideTrans, Zenon
      <4> QED
        BY <2>2, <4>1, Zenon
    <3>3. ASSUME NEW k \in 1 .. Len(T), Inside(h, L[k])
          PROVE  \E l \in 1 .. Len(T) : Inside(h, G[l])
      <4>1. Inside(h, G[k])
        BY <1>2, <2>5, <2>6, <3>1, <3>3, InsideTrans, Zenon
      <4> QED
        BY <4>1, Zenon
    <3> QED
      BY <1>7, <3>2, <3>3, Zenon
  <2>8. CASE x.rgn = G
    BY <2>2, <2>7, <2>8, Zenon DEF Covers
  <2>9. CASE /\ j < Len(G) /\ lmb_addrs_adjacent(G[j], G[j + 1])
             /\ x.rgn = lmb_coalesce_regions(G, j, j + 1)
    <3>0. /\ j \in 1 .. Len(T) - 1 /\ j + 1 \in 1 .. Len(T) /\ j # j + 1
          /\ j \in 1 .. Len(G) - 1
      BY <1>0, <2>2, <2>9
    <3>1. /\ G[j + 1] = L[j + 1] /\ T[j].base < End(T[j + 1])
          /\ L[j + 1].base \in Nat /\ End(L[j + 1]) \in Nat
          /\ T[j].base \in Nat /\ End(T[j + 1]) \in Nat
      BY <1>4, <2>2, <3>0, NextAbove, Zenon
    <3>2. G[j].base # End(G[j + 1])
      <4>1. CASE L[j].base = End(rest)
        <5>1. j # i
          BY <1>1, <1>3, <4>1
        <5>2. G[j].base = End(b) /\ T[j].base = End(T[i])
          BY <1>1, <2>2, <4>1, <5>1, ZenonT(30)
        <5>3. CASE j + 1 = i
          BY SMTT(30), <1>1, <1>3, <3>1, <5>2, <5>3
        <5>4. CASE j + 1 # i
          <6>1. L[j + 1] = T[j + 1]
            BY <1>1, <3>0, <5>4, Zenon
          <6> QED
            BY <1>3, <3>1, <5>2, <6>1
        <5> QED
          BY <5>3, <5>4, ZenonT(30)
      <4>2. CASE L[j].base # End(rest)
        <5>1. G[j].base = T[j].base /\ End(L[j]) = End(b)
          <6>1. G[j].base = L[j].base /\ End(L[j]) = End(b)
            BY <1>9, <2>2, <4>2, ZenonT(30) DEF lmb_addrs_adjacent
          <6> QED
            BY <1>1, <2>2, <6>1, Zenon
        <5>2. CASE j + 1 = i
          <6>1. j # i /\ j \in 1 .. i - 1
            BY <3>0, <5>2
          <6>2. End(T[j]) = End(b)
            BY <1>1, <2>2, <5>1, <6>1, ZenonT(30)
          <6>3. ~(T[j].base <= b.base)
            BY SMTT(30), <1>3, <6>1, <6>2 DEF Inside
          <6> QED
            BY SMTT(30), <1>1, <1>3, <3>1, <5>1, <5>2, <6>3
        <5>3. CASE j + 1 # i
          <6>1. L[j + 1] = T[j + 1]
            BY <1>1, <3>0, <5>3, Zenon
          <6> QED
            BY SMTT(30), <3>1, <5>1, <6>1
        <5> QED
          BY <5>2, <5>3, Zenon
      <4> QED
        BY <4>1, <4>2, Zenon
    <3>3. End(G[j]) = G[j + 1].base
      BY <2>9, <3>2, ZenonT(30) DEF lmb_addrs_adjacent
    <3> DEFINE U == x.rgn
    <3> HIDE DEF U
    <3>4. /\ U \in Seq(Blk) /\ Len(U) = Len(G) - 1
          /\ U[j].base = G[j].base /\ U[j].size = G[j].size + G[j + 1].size
          /\ \A k \in 1 .. Len(U) : /\ k < j => U[k] = G[k]
                                    /\ k > j => U[k] = G[k + 1]
      <4>1. U = lmb_coalesce_regions(G, j, j + 1)
        BY <2>9, Zenon DEF U
      <4> QED
        BY ONLY SMTT(30), <2>2, <3>0, <4>1, Coalesced
    <3>5. /\ G[j].base \in Nat /\ G[j].size \in Nat \ {0}
          /\ G[j + 1].base \in Nat /\ G[j + 1].size \in Nat \ {0}
      <4>1. G[j] \in Blk /\ G[j + 1] \in Blk
        BY <2>5, <3>0
      <4> QED
        BY <4>1, Zenon DEF Blk
    <3>6. Inside(G[j], U[j]) /\ Inside(G[j + 1], U[j])
      <4>1. /\ U[j].base = G[j].base /\ End(U[j]) = End(G[j + 1])
            /\ G[j].base <= G[j + 1].base /\ End(G[j]) <= End(G[j + 1])
        <5>1. G[j] \in Blk /\ G[j + 1] \in Blk
          BY <2>5, <3>0
        <5>2. U[j].base = G[j].base /\ U[j].size = G[j].size + G[j + 1].size
          BY <3>4, Zenon
        <5> QED
          BY ONLY <3>3, <5>1, <5>2, JoinedEnd, Zenon
      <4>2. G[j].base <= G[j].base /\ End(G[j + 1]) <= End(G[j + 1])
        BY <3>5 DEF End
      <4> QED
        BY <4>1, <4>2, ZenonT(30) DEF Inside
    <3>7. ASSUME NEW h \in H \ {b}, NEW k \in 1 .. Len(T), Inside(h, G[k])
          PROVE  \E l \in 1 .. Len(U) : Inside(h, U[l])
      <4>0. h \in Blk /\ j \in 1 .. Len(U) /\ U[j] \in Blk
        <5>1. h \in Blk
          BY <1>0, Zenon
        <5>2. j \in 1 .. Len(U)
          BY ONLY <1>0, <2>2, <3>0, <3>4
        <5>3. U[j] \in Blk
          BY ONLY <3>4, <5>2
        <5> QED
          BY <5>1, <5>2, <5>3, Zenon
      <4>1. CASE k = j
        <5>1. Inside(h, U[j])
          BY <2>5, <3>6, <3>7, <4>0, <4>1, InsideTrans, ZenonT(30)
        <5> QED
          BY <4>0, <5>1, Zenon
      <4>2. CASE k = j + 1
        <5>1. Inside(h, U[j])
          BY <2>5, <3>6, <3>7, <4>0, <4>2, InsideTrans, ZenonT(30)
        <5> QED
          BY <4>0, <5>1, Zenon
      <4>3. CASE k < j
        <5>1. k \in 1 .. Len(U) /\ U[k] = G[k]
          BY SMTT(30), <1>0, <2>2, <3>0, <3>4, <4>3
        <5> QED
          BY <3>7, <5>1, ZenonT(30)
      <4>4. CASE k > j + 1
        <5>1. k - 1 \in 1 .. Len(U) /\ k - 1 > j /\ (k - 1) + 1 = k
          BY <1>0, <2>2, <3>0, <3>4, <4>4
        <5>2. U[k - 1] = G[k]
          BY <3>4, <5>1, Zenon
        <5> QED
          BY <3>7, <5>1, <5>2, ZenonT(30)
      <4>5. k = j \/ k = j + 1 \/ k < j \/ k > j + 1
        BY ONLY <1>0, <2>2, k \in 1 .. Len(T)
      <4> QED
        BY <1>0, <2>2, <4>1, <4>2, <4>3, <4>4, <4>5, Zenon
    <3> QED
      BY <2>7, <3>7, ZenonT(30) DEF Covers, U
  <2> QED
    BY <2>1, <2>8, <2>9, Zenon
<1>10. ASSUME NEW p, Behind(L, p, rest), x.rgn = InsertAfter(L, p, rest)
       PROVE  Covers(H \ {b}, x.rgn)
  <2> DEFINE V == x.rgn
  <2>1. /\ V \in Seq(Blk) /\ Len(V) = Len(T) + 1 /\ V[p + 1] = rest
        /\ \A j \in 1 .. p :
             V[j] = IF j = 1 /\ rest.base < L[1].base THEN rest ELSE L[j]
        /\ \A j \in p + 1 .. Len(T) : V[j + 1] = L[j]
    <3>1. /\ V \in Seq(Blk) /\ Len(V) = Len(L) + 1 /\ V[p + 1] = rest
          /\ \A j \in 1 .. p :
               V[j] = IF j = 1 /\ rest.base < L[1].base THEN rest ELSE L[j]
          /\ \A j \in p + 1 .. Len(L) : V[j + 1] = L[j]
      <4>1. V = InsertAfter(L, p, rest) /\ Behind(L, p, rest) /\ L \in Seq(Blk)
        BY <1>1, <1>10, Zenon
      <4> HIDE DEF V
      <4> QED
        BY ONLY rest \in Blk, <4>1, InsertedAfter
    <3> QED
      BY ONLY <1>1, <3>1
  <2>2. p \in 0 .. Len(T)
    BY <1>1, <1>10, Zenon DEF Behind
  <2> HIDE DEF V
  <2>3. p + 1 \in 1 .. Len(V)
    BY <1>0, <2>1, <2>2
  <2>4. ASSUME NEW k \in 1 .. Len(T), ~(k = 1 /\ p > 0 /\ rest.base < L[1].base)
        PROVE  \E l \in 1 .. Len(V) : V[l] = L[k]
    <3>1. CASE k <= p
      <4>1. k \in 1 .. p /\ k \in 1 .. Len(V) /\ p > 0
        BY <1>0, <2>1, <2>2, <3>1
      <4> QED
        BY <2>1, <2>4, <4>1, Zenon
    <3>2. CASE ~(k <= p)
      <4>1. k \in p + 1 .. Len(T) /\ k + 1 \in 1 .. Len(V)
        BY <1>0, <2>1, <2>2, <3>2
      <4> QED
        BY <2>1, <4>1, Zenon
    <3> QED
      BY <3>1, <3>2, Zenon
  <2>5. ASSUME NEW h \in H \ {b}, Inside(h, rest) PROVE \E l \in 1 .. Len(V) : Inside(h, V[l])
    BY <2>1, <2>3, <2>5, Zenon
  <2>6. ASSUME NEW h \in H \ {b}, NEW k \in 1 .. Len(T), Inside(h, L[k])
        PROVE  \E l \in 1 .. Len(V) : Inside(h, V[l])
    <3>1. CASE ~(k = 1 /\ p > 0 /\ rest.base < L[1].base)
      BY <2>4, <2>6, <3>1, Zenon
    <3>2. CASE k = 1 /\ p > 0 /\ rest.base < L[1].base
      <4>1. 1 \in 1 .. Len(T) /\ i # 1 /\ 1 < i
        BY <1>0, <1>1, <1>3, <3>2
      <4>2. L[1] = T[1] /\ T[i].base < T[1].base /\ T[1].base \in Nat
        BY SMTT(30), <1>1, <1>3, <1>4, <3>2, <4>1
      <4>3. Over(H, T, 1, i)
        <5>1. Over(H, T, 1, i) \/ Ordered(T[1], T[i])
          BY <4>1, ZenonT(30) DEF Tab
        <5>2. T[i].base \in Nat
          BY <1>0, BlkEnd, Zenon
        <5>3. ~(T[1].base < T[i].base)
          BY ONLY <4>2, <5>2
        <5> QED
          BY <5>1, <5>3, Zenon DEF Ordered
      <4>4. PICK c \in 1 + 1 .. i : T[c].base < T[1].base /\ Cap(H, T[1], T[c])
        BY <4>3, Zenon DEF Over
      <4>5. c \in 1 .. Len(T) /\ c # 1
        BY ONLY <1>0, i \in 1 .. Len(T), c \in 1 + 1 .. i
      <4>6. Inside(T[1], T[c])
        BY <1>0, <4>1, <4>4, <4>5, CapInside, Zenon
      <4>7. Inside(h, T[c])
        <5>1. h \in Blk
          BY <1>0, Zenon
        <5> QED
          BY <1>0, <2>6, <3>2, <4>1, <4>2, <4>5, <4>6, <5>1, InsideTrans, ZenonT(30)
      <4>8. Inside(h, L[c]) \/ Inside(h, rest)
        BY <1>6, <4>5, <4>7, Zenon
      <4> QED
        BY <2>4, <2>5, <4>5, <4>8, Zenon
    <3> QED
      BY <3>1, <3>2, Zenon
  <2> QED
    BY <1>7, <2>5, <2>6, ZenonT(30) DEF Covers, V
<1> QED
  <2>1. L \in Seq(Blk)
    BY <1>1, ZenonT(30)
  <2> QED
    BY <2>1, <1>8, <1>9, <1>10, AddShape, Zenon

(* What lmb_free(b) makes of the table T, and whether it loses a part.      *)
FreeAt(T, b) == FirstOf({k \in 1 .. Len(T) : Inside(b, T[k])}, 0)
FreeRest(T, b) ==
  [base |-> End(b), size |-> End(T[FreeAt(T, b)]) - End(b)]
FreeSplit(T, b) ==
  lmb_add_region([T EXCEPT ![FreeAt(T, b)].size = b.base - T[FreeAt(T, b)].base],
                 FreeRest(T, b))
FreeTable(T, b) ==
  IF FreeAt(T, b) = 0 THEN T
  ELSE IF T[FreeAt(T, b)] = b THEN lmb_remove_region(T, FreeAt(T, b))
  ELSE IF T[FreeAt(T, b)].base = b.base THEN [T EXCEPT ![FreeAt(T, b)] = FreeRest(T, b)]
  ELSE IF End(T[FreeAt(T, b)]) = End(b) THEN [T EXCEPT ![FreeAt(T, b)].size = @ - b.size]
  ELSE FreeSplit(T, b).rgn
FreeLoses(T, b) ==
  /\ FreeAt(T, b) # 0 /\ T[FreeAt(T, b)].base # b.base
  /\ End(T[FreeAt(T, b)]) # End(b) /\ ~FreeSplit(T, b).ok

(* lmb_free(): the blocks that stay in use stay covered, unless the table   *)
(* has no room for what lies behind the freed one.                          *)
LEMMA Freed ==
  ASSUME NEW H, NEW T, Tab(H, T), Apart(H), NEW b \in H,
         Len(T) <= MAX_LMB_REGIONS
  PROVE  /\ FreeTable(T, b) \in Seq(Blk)
         /\ Len(FreeTable(T, b)) <= MAX_LMB_REGIONS
         /\ ~FreeLoses(T, b) => Covers(H \ {b}, FreeTable(T, b))
<1>i. PICK i : i = FirstOf({k \in 1 .. Len(T) : Inside(b, T[k])}, 0)
  BY Zenon
<1>r. PICK r : r = T[i]
  OBVIOUS
<1>s. PICK rest : rest = [base |-> End(b), size |-> End(r) - End(b)]
  BY Zenon
<1>l. PICK L : L = [T EXCEPT ![i].size = b.base - r.base]
  BY Zenon
<1>x. PICK x : x = lmb_add_region(L, rest)
  OBVIOUS
<1>v. PICK V : V = IF i = 0 THEN T
                   ELSE IF r = b THEN lmb_remove_region(T, i)
                   ELSE IF r.base = b.base THEN [T EXCEPT ![i] = rest]
                   ELSE IF End(r) = End(b) THEN [T EXCEPT ![i].size = @ - b.size]
                   ELSE x.rgn
  BY Zenon
<1>e. /\ V = FreeTable(T, b)
      /\ FreeLoses(T, b) <=> i # 0 /\ r.base # b.base /\ End(r) # End(b) /\ ~x.ok
  BY <1>i, <1>r, <1>s, <1>l, <1>x, <1>v, Zenon
     DEF FreeTable, FreeLoses, FreeSplit, FreeRest, FreeAt
<1>0. /\ T \in Seq(Blk) /\ H \subseteq Blk /\ Len(T) \in Nat /\ b \in Blk
      /\ \A j \in 1 .. Len(T) : T[j] \in Blk
      /\ DOMAIN T = 1 .. Len(T)
  BY DEF Tab
<1>1. /\ i \in 1 .. Len(T) /\ Inside(b, T[i])
      /\ \A k \in 1 .. i - 1 : ~Inside(b, T[k])
  <2> DEFINE S == {k \in 1 .. Len(T) : Inside(b, T[k])}
  <2>1. S \subseteq Nat /\ S # {}
    <3>1. \E k \in 1 .. Len(T) : Inside(b, T[k])
      BY Zenon  DEF Tab, Covers
    <3> QED
      BY <1>0, <3>1
  <2>2. i = FirstOf(S, 0)
    BY <1>i, Zenon
  <2> HIDE DEF S
  <2>3. i \in S /\ \A j \in S : i <= j
    BY ONLY <2>1, <2>2, FirstIs, Zenon
  <2>4. i \in 1 .. Len(T) /\ Inside(b, T[i])
    BY <2>3, Zenon DEF S
  <2>5. ASSUME NEW k \in 1 .. i - 1 PROVE ~Inside(b, T[k])
    <3>1. k \in 1 .. Len(T) /\ ~(i <= k)
      BY <1>0, <2>4
    <3> QED
      BY <2>3, <3>1, Zenon DEF S
  <2> QED
    BY <2>4, <2>5, Zenon
<1>2. i # 0 /\ r \in Blk /\ r = T[i]
  BY <1>0, <1>1, <1>r
<1>3. /\ b.base \in Nat /\ b.size \in Nat \ {0}
      /\ r.base \in Nat /\ r.size \in Nat \ {0}
      /\ r.base <= b.base /\ End(b) <= End(r)
  BY <1>0, <1>1, <1>2, Zenon DEF Blk, Inside
<1>a. b \in Blk /\ r \in Blk /\ Len(T) \in Nat /\ i \in 1 .. Len(T)
  BY <1>0, <1>1, <1>2, Zenon
<1>4. r = b <=> r.base = b.base /\ End(r) = End(b)
  BY ONLY <1>a, <1>3 DEF Blk, End
<1>5. ASSUME NEW h \in H \ {b}
      PROVE  /\ h \in Blk /\ h.base \in Nat /\ End(h) \in Nat /\ h.base < End(h)
             /\ End(h) <= b.base \/ End(b) <= h.base
  BY <1>0, BlkEnd, BesideFreed, Zenon
<1>6. ASSUME NEW U, U \in Seq(Blk), Len(U) = Len(T),
             \A j \in 1 .. Len(T) : j # i => U[j] = T[j],
             \A h \in H \ {b} : Inside(h, r) => Inside(h, U[i])
      PROVE  Covers(H \ {b}, U)
  <2> SUFFICES ASSUME NEW h \in H \ {b}
               PROVE  \E k \in 1 .. Len(U) : Inside(h, U[k])
    BY Zenon  DEF Covers
  <2>1. PICK k \in 1 .. Len(T) : Inside(h, T[k])
    BY Zenon  DEF Tab, Covers
  <2>2. Inside(h, U[k])
    BY <1>2, <1>6, <2>1, Zenon
  <2> QED
    BY <1>6, <2>2, Zenon
<1>7. ASSUME r = b
      PROVE  /\ V \in Seq(Blk) /\ Len(V) <= MAX_LMB_REGIONS
             /\ ~FreeLoses(T, b) => Covers(H \ {b}, V)
  <2> DEFINE n == Len(T) - 1
  <2>1. V = [k \in 1 .. n |-> IF k < i THEN T[k] ELSE T[k + 1]]
    BY <1>v, <1>2, <1>7, Zenon DEF lmb_remove_region
  <2>2. n \in Nat /\ \A k \in 1 .. n : (IF k < i THEN T[k] ELSE T[k + 1]) \in Blk
    BY <1>0, <1>1
  <2>a. n + 1 = Len(T)
    BY <1>0
  <2> HIDE DEF n
  <2>3. V \in [1 .. n -> Blk]
    BY <2>1, <2>2, Zenon
  <2>4. V \in Seq(Blk) /\ Len(V) = n
    BY ONLY <2>2, <2>3, SeqOf, Zenon
  <2>5. \A k \in 1 .. n : V[k] = IF k < i THEN T[k] ELSE T[k + 1]
    BY <2>1, Zenon
  <2>6. ASSUME NEW h \in H \ {b} PROVE \E k \in 1 .. Len(V) : Inside(h, V[k])
    <3>1. PICK k \in 1 .. Len(T) : Inside(h, T[k])
      BY Zenon  DEF Tab, Covers
    <3>2. k # i
      <4>1. k = i => b.base <= h.base /\ End(h) <= End(b)
        BY <1>2, <1>7, <3>1, Zenon DEF Inside
      <4>2. /\ h.base \in Nat /\ End(h) \in Nat /\ h.base < End(h)
            /\ End(h) <= b.base \/ End(b) <= h.base
        BY <1>5, Zenon
      <4> QED
        BY ONLY <1>3, <4>1, <4>2 DEF End
    <3>3. CASE k < i
      <4>0. k \in 1 .. n
        BY ONLY <1>a, k \in 1 .. Len(T), <2>2, <2>a, <3>3
      <4>1. k \in 1 .. n /\ V[k] = T[k]
        BY <2>5, <3>3, <4>0, Zenon
      <4> QED
        BY <2>4, <3>1, <4>1, Zenon
    <3>4. CASE i < k
      <4>1. k - 1 \in 1 .. n /\ ~(k - 1 < i) /\ (k - 1) + 1 = k
        BY ONLY <1>a, k \in 1 .. Len(T), <2>2, <2>a, <3>4
      <4>2. V[k - 1] = T[k]
        BY <2>5, <4>1, Zenon
      <4> QED
        BY <2>4, <3>1, <4>1, <4>2, Zenon
    <3>5. k < i \/ i < k
      BY ONLY <1>a, k \in 1 .. Len(T), <3>2
    <3> QED
      BY <3>3, <3>4, <3>5, Zenon
  <2>7. Len(V) <= MAX_LMB_REGIONS
    BY <1>0, <2>2, <2>a, <2>4, TableAssumption
  <2> QED
    BY <2>4, <2>6, <2>7, Zenon DEF Covers
<1>8. ASSUME r # b /\ r.base = b.base
      PROVE  /\ V \in Seq(Blk) /\ Len(V) <= MAX_LMB_REGIONS
             /\ ~FreeLoses(T, b) => Covers(H \ {b}, V)
  <2>1. V = [T EXCEPT ![i] = rest]
    BY <1>v, <1>2, <1>8, Zenon
  <2>2. rest \in Blk /\ rest.base = End(b) /\ End(rest) = End(r)
    <3>1. End(r) - End(b) \in Nat \ {0} /\ End(b) \in Nat
      BY SMTT(30), <1>3, <1>4, <1>8 DEF End
    <3>2. rest \in Blk /\ rest.base = End(b) /\ rest.size = End(r) - End(b)
      BY <1>s, <3>1, Zenon DEF Blk
    <3>3. End(r) \in Nat
      BY <1>3 DEF End
    <3>4. rest.base + rest.size = End(r)
      BY <3>1, <3>2, <3>3
    <3> QED
      BY <3>2, <3>4, Zenon DEF End
  <2>3. /\ V \in Seq(Blk) /\ Len(V) = Len(T) /\ V[i] = rest
        /\ \A j \in 1 .. Len(T) : j # i => V[j] = T[j]
    BY ONLY <1>0, <1>1, <2>1, <2>2, Replaced
  <2>4. ASSUME NEW h \in H \ {b}, Inside(h, r) PROVE Inside(h, V[i])
    <3>1. End(b) <= h.base
      BY <1>3, <1>5, <1>8, <2>4 DEF Inside
    <3> QED
      BY <2>2, <2>3, <2>4, <3>1, Zenon DEF Inside
  <2>5. Covers(H \ {b}, V)
    BY <1>6, <2>3, <2>4, Zenon
  <2> QED
    BY <2>3, <2>5, Zenon
<1>9. ASSUME r.base # b.base /\ End(r) = End(b)
      PROVE  /\ V \in Seq(Blk) /\ Len(V) <= MAX_LMB_REGIONS
             /\ ~FreeLoses(T, b) => Covers(H \ {b}, V)
  <2>0. r # b
    BY <1>4, <1>9, Zenon
  <2> DEFINE y == [r EXCEPT !.size = r.size - b.size]
  <2>1. V = [T EXCEPT ![i] = y]
    BY <1>v, <1>0, <1>1, <1>2, <1>9, <2>0, ZenonT(30)
  <2>2. r.size - b.size \in Nat \ {0} /\ r.base + (r.size - b.size) = b.base
    BY ONLY <1>3, <1>9 DEF End
  <2>3. y \in Blk /\ y.base = r.base /\ y.size = r.size - b.size
    BY <1>2, <2>2, ZenonT(30) DEF Blk
  <2> HIDE DEF y
  <2>4. /\ V \in Seq(Blk) /\ Len(V) = Len(T) /\ V[i] = y
        /\ \A j \in 1 .. Len(T) : j # i => V[j] = T[j]
    BY ONLY <1>0, <1>1, <2>1, <2>3, Replaced
  <2>5. End(y) = b.base
    BY <2>2, <2>3, Zenon DEF End
  <2>6. ASSUME NEW h \in H \ {b}, Inside(h, r) PROVE Inside(h, V[i])
    <3>2. /\ h.base \in Nat /\ End(h) \in Nat /\ h.base < End(h)
          /\ End(h) <= b.base \/ End(b) <= h.base
      BY <1>5, Zenon
    <3>1. End(h) <= b.base
      BY ONLY <1>3, <1>9, <2>6, <3>2 DEF Inside, End
    <3> QED
      BY <2>3, <2>4, <2>5, <2>6, <3>1, Zenon DEF Inside
  <2>7. Covers(H \ {b}, V)
    BY <1>6, <2>4, <2>6, Zenon
  <2> QED
    BY <2>4, <2>7, Zenon
<1>10. ASSUME r.base # b.base /\ End(r) # End(b)
      PROVE  /\ V \in Seq(Blk) /\ Len(V) <= MAX_LMB_REGIONS
             /\ ~FreeLoses(T, b) => Covers(H \ {b}, V)
  <2>0. r # b
    BY <1>4, <1>10, Zenon
  <2> DEFINE y == [r EXCEPT !.size = b.base - r.base]
  <2>1. L = [T EXCEPT ![i] = y]
    BY <1>l, <1>0, <1>1, <1>2, Zenon
  <2>2. /\ r.base < b.base /\ End(b) < End(r) /\ b.base - r.base \in Nat \ {0}
        /\ r.base + (b.base - r.base) = b.base
    BY ONLY <1>3, <1>10 DEF End
  <2>3. y \in Blk /\ y.base = r.base /\ y.size = b.base - r.base
    BY <1>2, <2>2, Zenon DEF Blk
  <2> HIDE DEF y
  <2>4. /\ L \in Seq(Blk) /\ Len(L) = Len(T) /\ L[i] = y
        /\ \A j \in 1 .. Len(T) : j # i => L[j] = T[j]
    BY ONLY <1>0, <1>1, <2>1, <2>3, Replaced
  <2>5. End(y) = b.base
    BY <2>2, <2>3, Zenon DEF End
  <2>6. Cut(T, L, i, b)
    BY <1>2, <2>3, <2>4, <2>5, Zenon DEF Cut
  <2>7. rest \in Blk /\ rest.base = End(b) /\ End(rest) = End(T[i])
    <3>1. End(r) - End(b) \in Nat \ {0} /\ End(b) \in Nat /\ End(r) \in Nat
      BY ONLY <1>3, <2>2 DEF End
    <3>2. rest \in Blk /\ rest.base = End(b) /\ rest.size = End(r) - End(b)
      BY <1>s, <3>1, Zenon DEF Blk
    <3>4. rest.base + rest.size = End(r)
      BY <3>1, <3>2
    <3> QED
      BY <1>2, <3>2, <3>4, Zenon DEF End
  <2>8. V = x.rgn
    BY <1>v, <1>2, <1>10, <2>0, Zenon
  <2>9. V \in Seq(Blk) /\ Len(V) <= MAX_LMB_REGIONS
    <3>1. Len(L) <= MAX_LMB_REGIONS
      BY <2>4, ZenonT(30)
    <3> QED
      BY ONLY <2>4, <2>7, <2>8, <3>1, <1>x, AddSeq, Zenon
  <2>10. x.ok => Covers(H \ {b}, V)
    <3>1. T[i].base < b.base /\ End(b) < End(T[i])
      BY <1>2, <2>2, Zenon
    <3> QED
      BY ONLY Zenon, Tab(H, T), Apart(H), b \in H, <1>x,
         <1>1, <2>6, <2>7, <2>8, <3>1, SplitCovers
  <2> QED
    BY <1>e, <1>2, <1>10, <2>9, <2>10, Zenon
<1> QED
  BY <1>4, <1>7, <1>8, <1>9, <1>10, <1>e, ZenonT(30)

(* What __lmb_alloc_base() knows of its candidate.                          *)
Searching ==
  /\ req.size \in AllocSizes /\ req.align \in Aligns /\ req.max_addr \in Nat
  /\ base \in Nat /\ base % req.align = 0
  /\ base + req.size <= MemEnd
  /\ req.max_addr = 0 \/ base + req.size <= req.max_addr

(* The inductive invariant of the boot memory.                              *)
LInv ==
  /\ pc \in {"idle", "search", "freed", "done"}
  /\ Len(reserved) <= MAX_LMB_REGIONS
  /\ pc \in {"idle", "search"} => Tab(held, reserved) /\ Apart(held) /\ ~lost
  /\ pc = "search" => Searching
  /\ pc = "freed" => /\ reserved \in Seq(Blk) /\ fdt.base \in Nat
                     /\ ~lost => Covers(held, reserved)

(* The invariant is strong enough.                                          *)
LEMMA LInvHolds == LInv => HeldIsReserved
<1> SUFFICES ASSUME LInv PROVE HeldIsReserved
  OBVIOUS
<1>1. Len(reserved) <= MAX_LMB_REGIONS
  BY Zenon DEF LInv
<1>2. ~lost /\ pc # "done" => Covers(held, reserved)
  BY Zenon  DEF LInv, Tab
<1> QED
  BY <1>1, <1>2, Zenon DEF HeldIsReserved, Covers

(* The sizes, alignments and blocks that callers use.                       *)
LEMMA SizeAlign ==
  /\ \A n \in AllocSizes : n \in Nat \ {0} /\ n <= MemBase
  /\ \A a \in Aligns : a \in Nat \ {0}
  /\ \A m \in MaxAddrs : m \in Nat
  /\ Blocks \subseteq Blk
<1>1. MemBase \in Nat
  BY MemAssumption, Zenon
<1>2. ASSUME NEW b \in Blocks PROVE b \in Blk
  <2>1. b \in Region /\ b.size > 0
    BY RequestAssumption, Zenon
  <2> QED
    BY <2>1 DEF Region, Blk
<1> QED
  BY <1>1, <1>2, RequestAssumption

(* A block that overlaps none of those in use comes into use.               *)
LEMMA ApartGrows ==
  ASSUME NEW H, NEW b, Apart(H), H \subseteq Blk, b \in Blk,
         \A c \in H : ~lmb_addrs_overlap(b, c)
  PROVE  Apart(H \cup {b})
<1>1. ASSUME NEW c \in H PROVE ~lmb_addrs_overlap(c, b)
  <2>1. ~lmb_addrs_overlap(b, c)
    OBVIOUS
  <2> QED
    BY <2>1, Zenon DEF lmb_addrs_overlap
<1> QED
  BY <1>1, Zenon DEF Apart

(* A table of one region, with one block in it.                             *)
LEMMA OneRegion ==
  ASSUME NEW b \in Blk
  PROVE  Tab({b}, <<b>>) /\ Apart({b})
<1> DEFINE T == <<b>>
<1>1. T \in Seq(Blk) /\ Len(T) = 1 /\ T[1] = b /\ {b} \subseteq Blk
  OBVIOUS
<1> HIDE DEF T
<1>2. \A i \in 1 .. Len(T) : i = 1
  BY <1>1
<1>3. Inside(b, b)
  BY BlkEnd DEF Inside
<1>4. Headed({b}, b)
  BY <1>3, Zenon DEF Headed
<1>5. Filled({b}, b)
  <2>1. b.base \in Nat /\ End(b) \in Nat
    BY BlkEnd, Zenon
  <2>2. \A e \in b.base + 1 .. End(b) - 1 : b.base <= e /\ e < End(b)
    BY <2>1
  <2> QED
    BY <2>2, Zenon DEF Filled
<1>6. \A k, l \in 1 .. Len(T) : ~(k < l)
  BY <1>1
<1>7. 1 \in 1 .. Len(T)
  BY <1>1
<1>8. Covers({b}, T)
  BY <1>1, <1>3, <1>7, Zenon DEF Covers
<1>9. \A i \in 1 .. Len(T) : Headed({b}, T[i]) /\ Filled({b}, T[i])
  BY <1>1, <1>2, <1>4, <1>5, Zenon
<1>10. Tab({b}, T)
  BY <1>1, <1>6, <1>8, <1>9, Zenon DEF Tab
<1>11. Apart({b})
  BY Zenon  DEF Apart
<1> QED
  BY <1>10, <1>11, Zenon DEF T

(* boot_start_lmb() gives the table its shape.                              *)
LEMMA LmbInitInv == LmbInit => LInv
<1> SUFFICES ASSUME LmbInit PROVE LInv
  OBVIOUS
<1> DEFINE D == <<[base |-> 0, size |-> 0]>>
<1>1. Stack \in Blk
  BY MemAssumption DEF Stack, Blk
<1>2. reserved = <<Stack>>
  <2>1. Len(D) = 1 /\ D[1].size = 0
    OBVIOUS
  <2>2. reserved = lmb_add_region(D, Stack).rgn
    BY Zenon  DEF LmbInit
  <2> HIDE DEF D
  <2>3. lmb_add_region(D, Stack) = [rgn |-> <<Stack>>, ok |-> TRUE]
    BY <2>1, Zenon DEF lmb_add_region
  <2> QED
    BY <2>2, <2>3
<1>3. Len(reserved) = 1
  BY <1>2, Zenon
<1>4. Tab(held, reserved) /\ Apart(held)
  BY <1>1, <1>2, OneRegion, Zenon DEF LmbInit
<1>5. pc = "idle" /\ ~lost
  BY Zenon  DEF LmbInit
<1> QED
  BY <1>3, <1>4, <1>5, TableAssumption DEF LInv

(* lmb_reserve() keeps the invariant, ...                                   *)
LEMMA ReserveInv == LInv /\ Reserve => LInv'
<1> SUFFICES ASSUME LInv, Reserve PROVE LInv'
  OBVIOUS
<1>0. /\ pc = "idle" /\ pc' = pc /\ Tab(held, reserved) /\ Apart(held) /\ ~lost
      /\ Len(reserved) <= MAX_LMB_REGIONS /\ reserved \in Seq(Blk)
      /\ held \subseteq Blk
  BY Zenon DEF LInv, Reserve, Tab
<1>1. PICK b \in Blocks : /\ \A c \in held : ~lmb_addrs_overlap(b, c)
                          /\ lmb_reserve(b)
  BY Zenon DEF Reserve
<1> DEFINE x == lmb_add_region(reserved, b)
<1>2. /\ reserved' = x.rgn /\ lost' = lost
      /\ held' = IF x.ok THEN held \cup {b} ELSE held
  BY <1>1, Zenon DEF lmb_reserve
<1>3. b \in Blk
  BY SizeAlign, Zenon
<1>4. x = lmb_add_region(reserved, b)
  OBVIOUS
<1> HIDE DEF x
<1>5. x.rgn \in Seq(Blk) /\ Len(x.rgn) <= MAX_LMB_REGIONS
  BY <1>0, <1>3, <1>4, AddSeq, Zenon
<1>6. Fits(held, reserved, b, b)
  BY <1>1, <1>3, Plain, Zenon
<1>7. /\ x.ok => Tab(held \cup {b}, x.rgn)
      /\ ~x.ok => x.rgn = reserved
  <2>1. PICK K : K = held \cup {b}
    BY Zenon
  <2>2. Tab(held, reserved)
    BY <1>0, Zenon
  <2>3. (x.ok => Tab(K, x.rgn)) /\ (~x.ok => x.rgn = reserved)
    BY ONLY <1>4, <1>6, <2>1, <2>2, AddRegion
  <2> QED
    BY <2>1, <2>3, Zenon
<1>8. Apart(held \cup {b})
  BY <1>0, <1>1, <1>3, ApartGrows, Zenon
<1>9. Tab(held', reserved') /\ Apart(held')
  BY <1>0, <1>2, <1>7, <1>8, Zenon
<1> QED
  BY <1>0, <1>2, <1>5, <1>9, Zenon DEF LInv

(* ... so does the first candidate of __lmb_alloc_base(), ...               *)
LEMMA AllocStartInv ==
  ASSUME LInv, NEW s \in AllocSizes, NEW a \in Aligns, NEW m \in MaxAddrs,
         AllocStart(s, a, m)
  PROVE  LInv'
<1>0. /\ pc = "idle" /\ pc' = "search" /\ Tab(held, reserved) /\ Apart(held)
      /\ ~lost /\ Len(reserved) <= MAX_LMB_REGIONS
      /\ reserved' = reserved /\ held' = held /\ lost' = lost
  BY Zenon DEF LInv, AllocStart
<1>t. PICK top : top = IF m = 0 \/ MemEnd < m THEN MemEnd ELSE m
  OBVIOUS
<1>1. /\ s \in Nat \ {0} /\ s <= MemBase /\ a \in Nat \ {0} /\ m \in Nat
      /\ MemBase \in Nat /\ MemEnd \in Nat /\ MemBase < MemEnd
  BY SizeAlign, MemAssumption
<1>2. m = 0 \/ MemBase < m
  BY Zenon DEF AllocStart
<1>3. /\ top \in Nat /\ top - s \in Nat /\ top <= MemEnd
      /\ m = 0 \/ top <= m
  BY <1>t, <1>1, <1>2
<1>4. base' = lmb_align_down(top - s, a)
  BY <1>t, Zenon DEF AllocStart
<1>5. req'.size = s /\ req'.align = a /\ req'.max_addr = m
  BY Zenon DEF AllocStart
<1>6. base' \in Nat /\ base' <= top - s /\ base' % a = 0
  BY ONLY <1>1, <1>3, <1>4, AlignDown, Zenon
<1>7. base' + s <= MemEnd /\ (m = 0 \/ base' + s <= m)
  <2>1. PICK n : n = base'
    OBVIOUS
  <2>2. n \in Nat /\ n <= top - s
    BY <1>6, <2>1, Zenon
  <2>3. n + s <= MemEnd /\ (m = 0 \/ n + s <= m)
    BY ONLY <1>1, <1>3, <2>2
  <2> QED
    BY <2>1, <2>3, Zenon
<1>8. Searching'
  BY <1>1, <1>5, <1>6, <1>7, Zenon DEF Searching
<1> QED
  BY <1>0, <1>8, Zenon DEF LInv

(* ... its failure, ...                                                     *)
LEMMA AllocFailInv == LInv /\ AllocFail => LInv'
<1> SUFFICES ASSUME LInv, AllocFail PROVE LInv'
  OBVIOUS
<1>1. /\ pc = "search" /\ pc' = "idle"
      /\ reserved' = reserved /\ held' = held /\ lost' = lost
  BY Zenon DEF AllocFail
<1> QED
  BY <1>1, Zenon DEF LInv

(* ... the next candidate, which stays aligned, in the RAM and below the    *)
(* bound, ...                                                               *)
LEMMA AllocNextInv == LInv /\ AllocNext => LInv'
<1> SUFFICES ASSUME LInv, AllocNext PROVE LInv'
  OBVIOUS
<1>0. /\ pc = "search" /\ Searching /\ Overlapping # {}
      /\ Tab(held, reserved) /\ Apart(held)
      /\ ~lost /\ Len(reserved) <= MAX_LMB_REGIONS
      /\ reserved' = reserved /\ held' = held /\ lost' = lost /\ req' = req
  BY Zenon DEF LInv, AllocNext
<1> DEFINE i == FirstOf(Overlapping, 0)
           res_base == reserved[i].base
<1>1. IF res_base < req.size
      THEN pc' = "idle" /\ base' = base
      ELSE /\ base' = lmb_align_down(res_base - req.size, req.align)
           /\ pc' = pc
  BY Zenon  DEF AllocNext
<1>2. i \in Overlapping
  <2>1. Overlapping \subseteq Nat
    <3>1. Len(reserved) \in Nat
      BY <1>0 DEF Tab
    <3> QED
      BY <3>1 DEF Overlapping
  <2> QED
    BY <1>0, <2>1, FirstIs, Zenon
<1> HIDE DEF i
<1>3. i \in 1 .. Len(reserved) /\ lmb_addrs_overlap(Candidate, reserved[i])
  BY <1>2, ZenonT(30) DEF Overlapping
<1>4. reserved[i] \in Blk /\ res_base \in Nat
  BY <1>0, <1>3, BlkEnd DEF Tab
<1>5. res_base < base + req.size
  <2>1. Candidate.base = base /\ Candidate.size = req.size
    BY Zenon DEF Candidate
  <2>2. res_base < End(Candidate)
    BY <1>3, Zenon DEF lmb_addrs_overlap
  <2> QED
    BY <2>1, <2>2, Zenon DEF End
<1> HIDE DEF res_base
<1>6. /\ req.size \in Nat \ {0} /\ req.align \in Nat \ {0} /\ req.max_addr \in Nat
      /\ req.align \in Aligns /\ req.size \in AllocSizes
      /\ base \in Nat /\ base % req.align = 0 /\ base + req.size <= MemEnd
      /\ req.max_addr = 0 \/ base + req.size <= req.max_addr
      /\ MemEnd \in Nat
  BY <1>0, SizeAlign, MemAssumption, Zenon DEF Searching
<1>7. CASE res_base < req.size
  <2>1. pc' = "idle"
    BY <1>1, <1>7, Zenon
  <2> QED
    BY <1>0, <2>1, Zenon DEF LInv
<1>8. CASE ~(res_base < req.size)
  <2>0. pc' = "search" /\ base' = lmb_align_down(res_base - req.size, req.align)
    BY <1>0, <1>1, <1>8, Zenon
  <2>1. res_base - req.size \in Nat
    BY <1>4, <1>6, <1>8
  <2>2. base' \in Nat /\ base' <= res_base - req.size /\ base' % req.align = 0
    BY ONLY <1>6, <2>0, <2>1, AlignDown, Zenon
  <2>3. /\ base' + req.size <= MemEnd
        /\ req.max_addr = 0 \/ base' + req.size <= req.max_addr
    BY <1>4, <1>5, <1>6, <2>1, <2>2
  <2>4. Searching'
    BY <1>0, <1>6, <2>2, <2>3, Zenon DEF Searching
  <2> QED
    BY <1>0, <2>0, <2>4, Zenon DEF LInv
<1> QED
  BY <1>7, <1>8, Zenon

(* The block that __lmb_alloc_base() takes overlaps none in use.            *)
LEMMA CandidateFree ==
  ASSUME LInv, pc = "search", Overlapping = {}
  PROVE  /\ Candidate \in Blk
         /\ \A i \in 1 .. Len(reserved) : ~lmb_addrs_overlap(Candidate, reserved[i])
         /\ \A c \in held : ~lmb_addrs_overlap(Candidate, c)
<1>0. Tab(held, reserved) /\ Searching
  BY Zenon DEF LInv
<1>1. Candidate \in Blk
  <2>1. base \in Nat /\ req.size \in Nat \ {0}
    BY <1>0, SizeAlign, Zenon DEF Searching
  <2> QED
    BY <2>1, Zenon DEF Candidate, Blk
<1>2. \A i \in 1 .. Len(reserved) : ~lmb_addrs_overlap(Candidate, reserved[i])
  BY Zenon  DEF Overlapping
<1>3. ASSUME NEW c \in held PROVE ~lmb_addrs_overlap(Candidate, c)
  <2>1. PICK i \in 1 .. Len(reserved) : Inside(c, reserved[i])
    BY <1>0, Zenon DEF Tab, Covers
  <2>2. c \in Blk /\ reserved[i] \in Blk
    BY <1>0 DEF Tab
  <2>3. ~lmb_addrs_overlap(Candidate, reserved[i])
    BY <1>2, Zenon
  <2> QED
    BY <1>1, <2>1, <2>2, <2>3, BlkEnd DEF lmb_addrs_overlap, Inside
<1> QED
  BY <1>1, <1>2, <1>3, Zenon

(* ... taking the block, ...                                                *)
LEMMA AllocTakeInv == LInv /\ AllocTake => LInv'
<1> SUFFICES ASSUME LInv, AllocTake PROVE LInv'
  OBVIOUS
<1>0. /\ pc = "search" /\ pc' = "idle" /\ Searching /\ Overlapping = {}
      /\ Tab(held, reserved) /\ Apart(held)
      /\ ~lost /\ Len(reserved) <= MAX_LMB_REGIONS /\ lost' = lost
      /\ reserved \in Seq(Blk) /\ held \subseteq Blk
  BY Zenon DEF LInv, AllocTake, Tab
<1>1. /\ Candidate \in Blk
      /\ \A i \in 1 .. Len(reserved) : ~lmb_addrs_overlap(Candidate, reserved[i])
      /\ \A c \in held : ~lmb_addrs_overlap(Candidate, c)
  BY <1>0, CandidateFree, Zenon
<1> DEFINE r == [base |-> base, size |-> lmb_align_up(req.size, req.align)]
           h == Candidate
           x == lmb_add_region(reserved, r)
<1>2. reserved' = x.rgn /\ held' = IF x.ok THEN held \cup {h} ELSE held
  BY Zenon  DEF AllocTake
<1>3. Fits(held, reserved, h, r)
  <2>1. h = [base |-> base, size |-> req.size]
    BY Zenon  DEF Candidate
  <2>2. base \in Nat /\ req.size \in Nat \ {0} /\ req.align \in Aligns
        /\ base % req.align = 0
    BY <1>0, SizeAlign, Zenon DEF Searching
  <2>3. r = [base |-> base, size |-> lmb_align_up(req.size, req.align)]
    OBVIOUS
  <2> HIDE DEF h, r
  <2>4. /\ \A i \in 1 .. Len(reserved) : ~lmb_addrs_overlap(h, reserved[i])
        /\ \A c \in held : ~lmb_addrs_overlap(h, c)
    BY <1>1, Zenon DEF h
  <2> QED
    BY <2>1, <2>2, <2>3, <2>4, Rounded, Zenon
<1>4. x = lmb_add_region(reserved, r)
  OBVIOUS
<1> HIDE DEF x, r, h
<1>5. r \in Blk /\ h \in Blk
  BY <1>3, Zenon DEF Fits
<1>6. x.rgn \in Seq(Blk) /\ Len(x.rgn) <= MAX_LMB_REGIONS
  BY <1>0, <1>4, <1>5, AddSeq, Zenon
<1>7. /\ x.ok => Tab(held \cup {h}, x.rgn)
      /\ ~x.ok => x.rgn = reserved
  <2>1. PICK K : K = held \cup {h}
    BY Zenon
  <2>2. Tab(held, reserved)
    BY <1>0, Zenon
  <2>3. (x.ok => Tab(K, x.rgn)) /\ (~x.ok => x.rgn = reserved)
    BY ONLY <1>4, <1>3, <2>1, <2>2, AddRegion
  <2> QED
    BY <2>1, <2>3, Zenon
<1>8. Apart(held \cup {h})
  BY <1>0, <1>1, <1>5, ApartGrows, Zenon DEF h
<1>9. Tab(held', reserved') /\ Apart(held')
  BY <1>0, <1>2, <1>7, <1>8, Zenon
<1> QED
  BY <1>0, <1>2, <1>6, <1>9, Zenon DEF LInv

(* ... lmb_free() of a block in use, ...                                    *)
LEMMA FreeInv ==
  ASSUME LInv, NEW b \in held, lmb_free(b)
  PROVE  LInv'
<1>0. /\ pc = "idle" /\ pc' = "freed" /\ held' = held \ {b} /\ fdt' = b
      /\ Tab(held, reserved) /\ Apart(held) /\ Len(reserved) <= MAX_LMB_REGIONS
      /\ held \subseteq Blk
  BY Zenon DEF LInv, lmb_free, Tab
<1>1. reserved' = FreeTable(reserved, b)
  BY Zenon  DEF lmb_free, FreeTable, FreeSplit, FreeRest, FreeAt
<1>2. lost' = FreeLoses(reserved, b)
  BY Zenon  DEF lmb_free, FreeLoses, FreeSplit, FreeRest, FreeAt
<1>6. /\ FreeTable(reserved, b) \in Seq(Blk)
      /\ Len(FreeTable(reserved, b)) <= MAX_LMB_REGIONS
      /\ ~FreeLoses(reserved, b) => Covers(held \ {b}, FreeTable(reserved, b))
  BY <1>0, Freed, Zenon
<1>4. b.base \in Nat
  BY <1>0, BlkEnd, Zenon
<1>5. /\ reserved' \in Seq(Blk) /\ fdt'.base \in Nat
      /\ ~lost' => Covers(held', reserved')
  BY <1>0, <1>1, <1>2, <1>6, <1>4, Zenon
<1> QED
  BY <1>0, <1>1, <1>6, <1>5, Zenon DEF LInv

(* ... and reserving the device tree again.                                 *)
LEMMA ReserveFdtInv ==
  ASSUME LInv, NEW s \in AllocSizes, ReserveFdt(s)
  PROVE  LInv'
<1>0. /\ pc = "freed" /\ pc' = "done" /\ reserved \in Seq(Blk)
      /\ fdt.base \in Nat /\ Len(reserved) <= MAX_LMB_REGIONS
  BY Zenon DEF LInv, ReserveFdt
<1> DEFINE b == [base |-> fdt.base, size |-> s]
           x == lmb_add_region(reserved, b)
<1>1. reserved' = x.rgn
  BY Zenon  DEF ReserveFdt, lmb_reserve
<1>2. b \in Blk
  BY <1>0, SizeAlign, Zenon DEF Blk
<1>3. x = lmb_add_region(reserved, b)
  OBVIOUS
<1> HIDE DEF x, b
<1>4. Len(x.rgn) <= MAX_LMB_REGIONS
  BY <1>0, <1>2, <1>3, AddSeq, Zenon
<1> QED
  BY <1>0, <1>1, <1>4, Zenon DEF LInv

(* Every step keeps the invariant.                                          *)
LEMMA LmbStep == LInv /\ [LmbNext]_lmbVars => LInv'
<1> SUFFICES ASSUME LInv, [LmbNext]_lmbVars PROVE LInv'
  OBVIOUS
<1>1. CASE UNCHANGED lmbVars
  <2>1. /\ reserved' = reserved /\ pc' = pc /\ req' = req /\ base' = base
        /\ fdt' = fdt /\ held' = held /\ lost' = lost
    BY <1>1, Zenon DEF lmbVars
  <2> QED
    BY <2>1, Zenon DEF LInv, Searching
<1>2. CASE LmbNext
  BY ZenonT(30), <1>2, ReserveInv, AllocStartInv, AllocFailInv, AllocNextInv,
     AllocTakeInv, FreeInv, ReserveFdtInv DEF LmbNext
<1> QED
  BY <1>1, <1>2, Zenon

(* The step of AllocTakesFree.                                              *)
TakesFree ==
  pc = "search" =>
    \A b \in held' \ held :
      /\ MemBase <= b.base /\ End(b) <= MemEnd
      /\ req.max_addr = 0 \/ End(b) <= req.max_addr
      /\ b.base % req.align = 0
      /\ \A c \in held : ~lmb_addrs_overlap(b, c)

(* Every step takes only what is free.                                      *)
LEMMA AllocTakesFreeStep == LInv /\ LmbNext => TakesFree
<1> SUFFICES ASSUME LInv, LmbNext, pc = "search", NEW b \in held' \ held
             PROVE  /\ MemBase <= b.base /\ End(b) <= MemEnd
                    /\ req.max_addr = 0 \/ End(b) <= req.max_addr
                    /\ b.base % req.align = 0
                    /\ \A c \in held : ~lmb_addrs_overlap(b, c)
  BY Zenon  DEF TakesFree
<1>1. AllocTake
  <2>1. ~Reserve /\ \A s \in AllocSizes : ~ReserveFdt(s)
    BY Zenon DEF Reserve, ReserveFdt
  <2>2. \A s \in AllocSizes, a \in Aligns, m \in MaxAddrs : ~AllocStart(s, a, m)
    BY Zenon DEF AllocStart
  <2>3. \A c \in held \ {Stack} : ~lmb_free(c)
    BY Zenon DEF lmb_free
  <2>4. ~AllocFail /\ ~AllocNext
    BY Zenon DEF AllocFail, AllocNext
  <2> QED
    BY <2>1, <2>2, <2>3, <2>4, Zenon DEF LmbNext
<1>2. Overlapping = {} /\ MemBase <= base
  BY <1>1, Zenon DEF AllocTake
<1>3. b = Candidate
  <2>1. held' = held \cup {Candidate} \/ held' = held
    BY <1>1, Zenon DEF AllocTake
  <2> QED
    BY <2>1, Zenon
<1>4. \A c \in held : ~lmb_addrs_overlap(Candidate, c)
  BY <1>2, CandidateFree, Zenon
<1>5. Candidate.base = base /\ End(Candidate) = base + req.size
  BY Zenon DEF Candidate, End
<1>6. Searching
  BY Zenon DEF LInv
<1> QED
  BY <1>2, <1>3, <1>4, <1>5, <1>6, Zenon DEF Searching

-----------------------------------------------------------------------------
(* The invariant of the boot memory.                                        *)
LEMMA LmbHolds == LmbSpec => []LInv
<1>1. LInv /\ [LmbNext]_lmbVars => LInv'
  BY LmbStep
<1> QED
  BY <1>1, LmbInitInv, PTL DEF LmbSpec

(* The table of lib/lmb.c never outgrows its array, and every block that is *)
(* reserved or allocated lies inside one region of it, up to lmb_free() of  *)
(* the device tree and after it.                                            *)
THEOREM BlocksAreReserved == LmbSpec => []HeldIsReserved
  BY LInvHolds, LmbHolds, PTL

(* __lmb_alloc_base() takes an aligned block of the RAM, below the bound,   *)
(* that overlaps no block in use.                                           *)
THEOREM AllocationIsFree == LmbSpec => AllocTakesFree
<1>1. LInv /\ [LmbNext]_lmbVars => [TakesFree]_lmbVars
  BY AllocTakesFreeStep
<1> QED
  BY <1>1, LmbHolds, PTL DEF LmbSpec, AllocTakesFree, TakesFree
=============================================================================
