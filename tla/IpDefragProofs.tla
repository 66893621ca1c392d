--------------------------- MODULE IpDefragProofs ---------------------------
(* Proofs about __NetDefragment() of net.c, for any datagrams, however they *)
(* are cut, and every size of the buffer.                                   *)
EXTENDS IpDefrag, TLAPS

(* Reassembly: the holes that a set C of fragments of a datagram d leaves,  *)
(* and the list of them in the buffer.                                      *)

(* The block at which fragment k of d begins; for k = Count(d) + 1 the end. *)
F(d, k) == Blocks(Cuts[d][k])

(* With fragments C there, those at which a hole begins.                    *)
Begins(d, C) ==
    {k \in 1 .. Count(d) : k \notin C /\ (k = 1 \/ k - 1 \in C)}

(* The hole that begins with fragment k ends at byte b.                     *)
EndIs(d, C, k, b) ==
    \/ b = Endless /\ \A j \in k .. Count(d) : j \notin C
    \/ \E e \in C : /\ k < e /\ b = Cuts[d][e]
                    /\ \A j \in k .. e - 1 : j \notin C

(* n is the index of the hole of L behind that of k, ...                    *)
NextHoleIs(d, L, k, n) ==
    \/ n = 0 /\ \A j \in L : j <= k
    \/ \E m \in L : /\ k < m /\ n = F(d, m)
                    /\ \A j \in L : j <= k \/ m <= j

(* ... and of the one before it.                                            *)
PrevHoleIs(d, L, k, n) ==
    \/ n = 0 /\ \A j \in L : k <= j
    \/ \E m \in L : /\ m < k /\ n = F(d, m)
                    /\ \A j \in L : j <= m \/ k <= j

Hole == [last_byte : 0 .. Endless, next_hole : 0 .. LastBlock, prev_hole : 0 .. LastBlock]

(* The list of the holes L in p.  All holes are in it, but for one at the   *)
(* front.                                                                   *)
List(d, C, L, p, first) ==
    /\ DOMAIN p = 0 .. LastBlock
    /\ C \subseteq 1 .. Count(d)
    /\ \A k \in C : Cuts[d][k + 1] <= IP_MAXUDP
    /\ L \subseteq Begins(d, C)
    /\ Begins(d, C) \ L \subseteq {1}
    /\ \E k \in L : first = F(d, k) /\ \A j \in L : k <= j
    /\ \A k \in L : /\ p[F(d, k)] \in Hole
                    /\ EndIs(d, C, k, p[F(d, k)].last_byte)
                    /\ NextHoleIs(d, L, k, p[F(d, k)].next_hole)
                    /\ PrevHoleIs(d, L, k, p[F(d, k)].prev_hole)

(* The fragments C are in p.                                                *)
Data(d, C, p) ==
    \A k \in C : \A i \in F(d, k) .. F(d, k + 1) - 1 : p[i] = Byte(d, i)

(* What was received of datagram d: the fragments C, in buffer p.           *)
Received(d, C, p, first, tot, arr, front, hand) ==
    /\ C # {} /\ \A k \in C : Cuts[d][k + 1] <= IP_MAXUDP
    /\ arr = {Fragment(d, k) : k \in C}
    /\ front => 1 \in C
    /\ tot = IF Count(d) \in C THEN TotalLen(d) ELSE Endless
    /\ Data(d, C, p)
    /\ hand = None => \E L \in SUBSET Begins(d, C) : List(d, C, L, p, first)
    /\ hand # None =>
          /\ Count(d) \in C /\ Begins(d, C) \subseteq {1}
          /\ hand = [i \in 0 .. Blocks(TotalLen(d)) - 1 |-> p[i]]

(* The inductive invariant.                                                 *)
DInv ==
    /\ DOMAIN payload = 0 .. LastBlock
    /\ total_len = 0 => handed = None
    /\ total_len # 0 =>
          /\ ip_id \in Datagrams
          /\ \E C \in SUBSET (1 .. Count(ip_id)) :
                Received(ip_id, C, payload, first_hole, total_len, arrived, inFront, handed)

-----------------------------------------------------------------------------
(* 0xffff is a number.                                                      *)
LEMMA EndlessNat == Endless \in Nat
BY DEF Endless

(* The cuts of a datagram, and the blocks at which its fragments begin.     *)
LEMMA CutType ==
  ASSUME NEW d \in Datagrams
  PROVE  /\ Count(d) \in Nat /\ Count(d) > 1
         /\ \A k \in 1 .. Count(d) + 1 : Cuts[d][k] \in 0 .. Endless
         /\ \A j, k \in 1 .. Count(d) + 1 : j < k => Cuts[d][j] < Cuts[d][k]
         /\ \A k \in 1 .. Count(d) : Cuts[d][k] % 8 = 0
         /\ Cuts[d][1] = 0
BY CutsAssumption, EndlessNat DEF Count

(* Blocks() rounds up.                                                      *)
LEMMA BlocksOfBytes ==
  /\ \A b \in Nat : Blocks(b) \in Nat /\ 8 * Blocks(b) >= b /\ 8 * Blocks(b) < b + 8
  /\ \A b \in Nat : b % 8 = 0 => 8 * Blocks(b) = b /\ b \div 8 = Blocks(b)
BY DEF Blocks

(* Where the fragments begin.                                               *)
LEMMA FType ==
  ASSUME NEW d \in Datagrams
  PROVE  /\ \A k \in 1 .. Count(d) + 1 : F(d, k) \in Nat
         /\ \A k \in 1 .. Count(d) : 8 * F(d, k) = Cuts[d][k]
         /\ \A k \in 1 .. Count(d) : Cuts[d][k] \div 8 = F(d, k)
         /\ F(d, 1) = 0
<1>1. \A k \in 1 .. Count(d) : k \in 1 .. Count(d) + 1
  BY CutType
<1>2. \A k \in 1 .. Count(d) + 1 : Cuts[d][k] \in Nat
  BY CutType
<1>3. 8 * Blocks(0) = 0 /\ Blocks(0) \in Nat
  BY BlocksOfBytes
<1>4. F(d, 1) = 0
  BY <1>3, CutType DEF F
<1> QED
  BY <1>1, <1>2, <1>4, CutType, BlocksOfBytes, Zenon DEF F

(* They are in order.                                                       *)
LEMMA FOrder ==
  ASSUME NEW d \in Datagrams, NEW j \in 1 .. Count(d) + 1,
         NEW k \in 1 .. Count(d) + 1, j < k
  PROVE  F(d, j) < F(d, k)
<1>1. j \in 1 .. Count(d) /\ Count(d) \in Nat
  BY CutType
<1>2. Cuts[d][j] < Cuts[d][k] /\ Cuts[d][k] \in Nat /\ Cuts[d][j] \in Nat
  BY CutType
<1>3. 8 * F(d, j) = Cuts[d][j] /\ F(d, j) \in Nat
  BY <1>1, FType, Zenon
<1>4. F(d, k) \in Nat /\ 8 * F(d, k) >= Cuts[d][k]
  BY <1>2, BlocksOfBytes, Zenon DEF F
<1> QED
  BY ONLY <1>2, <1>3, <1>4

(* Of two fragments, or ends.                                               *)
LEMMA FSame ==
  ASSUME NEW d \in Datagrams, NEW j \in 1 .. Count(d) + 1,
         NEW k \in 1 .. Count(d) + 1
  PROVE  /\ F(d, j) = F(d, k) <=> j = k
         /\ F(d, j) <= F(d, k) <=> j <= k
         /\ Cuts[d][j] <= Cuts[d][k] <=> j <= k
<1>1. j < k \/ j = k \/ k < j
  BY CutType
<1>2. /\ F(d, j) \in Nat /\ F(d, k) \in Nat /\ Cuts[d][j] \in Nat /\ Cuts[d][k] \in Nat
      /\ j \in Nat /\ k \in Nat
  BY FType, CutType
<1>3. CASE j < k
  <2>1. F(d, j) < F(d, k) /\ Cuts[d][j] < Cuts[d][k]
    BY <1>3, FOrder, CutType, Zenon
  <2> QED
    BY ONLY <1>2, <1>3, <2>1
<1>4. CASE k < j
  <2>1. F(d, k) < F(d, j) /\ Cuts[d][k] < Cuts[d][j]
    BY <1>4, FOrder, CutType, Zenon
  <2> QED
    BY ONLY <1>2, <1>4, <2>1
<1>5. CASE j = k
  BY <1>2, <1>5
<1> QED
  BY <1>1, <1>3, <1>4, <1>5, Zenon

(* The fragments of a datagram, as the code sees them.                      *)
LEMMA FragmentIs ==
  ASSUME NEW d \in Datagrams, NEW k \in 1 .. Count(d), NEW f, f = Fragment(d, k)
  PROVE  /\ f.ip_id = d /\ f.offset8 = F(d, k) /\ f.offset8 * 8 = Cuts[d][k]
         /\ f.len \in Nat \ {0} /\ f.offset8 * 8 + f.len = Cuts[d][k + 1]
         /\ f.offset8 + Blocks(f.len) = F(d, k + 1)
         /\ f.more <=> k < Count(d)
         /\ f.more => f.offset8 + f.len \div 8 = F(d, k + 1)
         /\ BlocksOf(f) = F(d, k) .. F(d, k + 1) - 1
<1>0. k \in 1 .. Count(d) + 1 /\ k + 1 \in 1 .. Count(d) + 1 /\ k < k + 1 /\ Count(d) \in Nat
  BY CutType
<1>1. PICK a \in Nat, b \in Nat : a = Cuts[d][k] /\ b = Cuts[d][k + 1]
  BY <1>0, CutType
<1>2. a < b /\ a % 8 = 0 /\ (k < Count(d) => b % 8 = 0)
  <2>1. k < Count(d) => k + 1 \in 1 .. Count(d)
    BY <1>0
  <2> QED
    BY <1>0, <1>1, <2>1, CutType, Zenon
<1>3. /\ f.ip_id = d /\ f.offset8 = a \div 8 /\ f.len = b - a
      /\ f.more <=> k < Count(d)
  <2>1. f = [ip_id |-> d, offset8 |-> Cuts[d][k] \div 8, len |-> Cuts[d][k + 1] - Cuts[d][k],
             more |-> k < Count(d)]
    BY Zenon DEF Fragment
  <2>2. /\ f.ip_id = d /\ f.offset8 = Cuts[d][k] \div 8 /\ f.len = Cuts[d][k + 1] - Cuts[d][k]
        /\ f.more = (k < Count(d))
    BY ONLY <2>1, Zenon
  <2> QED
    BY ONLY <1>1, <2>2, Zenon
<1>4. f.offset8 = F(d, k) /\ 8 * F(d, k) = a /\ F(d, k) \in Nat
  BY <1>0, <1>1, <1>3, FType, Zenon
<1>5. F(d, k + 1) = Blocks(b)
  BY <1>1, Zenon DEF F
<1>6. f.offset8 + Blocks(f.len) = Blocks(b)
  BY ONLY <1>1, <1>2, <1>3, <1>4 DEF Blocks
<1>7. b % 8 = 0 => f.offset8 + f.len \div 8 = Blocks(b)
  BY ONLY <1>1, <1>2, <1>3, <1>4 DEF Blocks
<1>8. f.offset8 * 8 = a /\ f.len \in Nat \ {0} /\ f.offset8 * 8 + f.len = b
  BY ONLY <1>1, <1>2, <1>3, <1>4
<1>9. BlocksOf(f) = F(d, k) .. F(d, k + 1) - 1
  <2>1. Blocks(f.len) \in Nat
    BY Zenon, <1>8, BlocksOfBytes
  <2>2. f.offset8 + Blocks(f.len) - 1 = F(d, k + 1) - 1
    BY ONLY <1>4, <1>5, <1>6, <2>1
  <2> QED
    BY ONLY <1>4, <2>2, Zenon DEF BlocksOf
<1> QED
  BY <1>1, <1>2, <1>3, <1>4, <1>5, <1>6, <1>7, <1>8, <1>9, Zenon

(* Where a hole begins there is room for its descriptor.                    *)
LEMMA BeginInBuffer ==
  ASSUME NEW d \in Datagrams, NEW C, NEW k \in Begins(d, C),
         \A j \in C : Cuts[d][j + 1] <= IP_MAXUDP
  PROVE  F(d, k) \in 0 .. LastBlock
<1>1. IP_MAXUDP \in Nat
  BY BufferAssumption, EndlessNat
<1>2. k \in 1 .. Count(d) + 1 /\ Cuts[d][k] \in Nat
  BY CutType DEF Begins
<1>3. Cuts[d][k] <= IP_MAXUDP
  <2>1. k = 1 \/ (k - 1 \in C /\ (k - 1) + 1 = k)
    BY <1>2, CutType DEF Begins
  <2> QED
    BY <1>1, <1>2, <2>1, CutType
<1> QED
  BY ONLY <1>1, <1>2, <1>3 DEF F, LastBlock, Blocks

(* The blocks of one fragment are not those at which others begin, ...      *)
LEMMA BlockApart ==
  ASSUME NEW d \in Datagrams, NEW c \in 1 .. Count(d), NEW x \in F(d, c) .. F(d, c + 1) - 1,
         NEW i \in 1 .. Count(d) + 1, i # c
  PROVE  x # F(d, i)
<1>1. /\ c \in 1 .. Count(d) + 1 /\ c + 1 \in 1 .. Count(d) + 1 /\ c \in Nat /\ i \in Nat
      /\ F(d, c) \in Nat /\ F(d, c + 1) \in Nat /\ F(d, i) \in Nat
  BY CutType, FType
<1>2. /\ F(d, c) <= F(d, i) <=> c <= i
      /\ F(d, c + 1) <= F(d, i) <=> c + 1 <= i
  BY <1>1, FSame, Zenon
<1> QED
  BY ONLY <1>1, <1>2, i # c, x \in F(d, c) .. F(d, c + 1) - 1

(* ... and they are in the buffer if the fragment fits.                     *)
LEMMA BlockInBuffer ==
  ASSUME NEW d \in Datagrams, NEW c \in 1 .. Count(d), NEW x \in F(d, c) .. F(d, c + 1) - 1,
         Cuts[d][c + 1] <= IP_MAXUDP
  PROVE  x \in 0 .. LastBlock
<1>1. /\ F(d, c) \in Nat /\ c + 1 \in 1 .. Count(d) + 1 /\ Cuts[d][c + 1] \in Nat
      /\ IP_MAXUDP \in Nat
  BY CutType, FType, BufferAssumption, EndlessNat
<1>2. F(d, c + 1) = Blocks(Cuts[d][c + 1])
  BY Zenon DEF F
<1>3. Blocks(Cuts[d][c + 1]) <= LastBlock /\ LastBlock \in Nat /\ Blocks(Cuts[d][c + 1]) \in Nat
  BY ONLY <1>1, Cuts[d][c + 1] <= IP_MAXUDP DEF Blocks, LastBlock
<1> QED
  BY ONLY <1>1, <1>2, <1>3, x \in F(d, c) .. F(d, c + 1) - 1

(* The length of a datagram.                                                *)
LEMMA TotalLenIs ==
  ASSUME NEW d \in Datagrams
  PROVE  /\ TotalLen(d) \in 1 .. Endless /\ Blocks(TotalLen(d)) \in Nat \ {0}
         /\ Blocks(TotalLen(d)) = F(d, Count(d) + 1) /\ Endless # 0
<1>1. /\ Count(d) + 1 \in 1 .. Count(d) + 1 /\ 1 \in 1 .. Count(d) + 1 /\ 1 < Count(d) + 1
  BY CutType
<1>2. TotalLen(d) \in 0 .. Endless /\ 0 < TotalLen(d)
  BY <1>1, CutType DEF TotalLen
<1>3. Blocks(TotalLen(d)) \in Nat /\ 8 * Blocks(TotalLen(d)) >= TotalLen(d)
  BY <1>2, BlocksOfBytes, EndlessNat
<1>4. Blocks(TotalLen(d)) = F(d, Count(d) + 1)
  BY Zenon DEF F, TotalLen
<1> QED
  BY ONLY <1>2, <1>3, <1>4, EndlessNat

(* The links of the list, on both sides of every hole.                      *)
Linked(d, L, p) ==
    \A k \in L : /\ NextHoleIs(d, L, k, p[F(d, k)].next_hole)
                 /\ PrevHoleIs(d, L, k, p[F(d, k)].prev_hole)

(* What a list of holes gives for every hole of it.                         *)
LEMMA ListFacts ==
  ASSUME NEW d \in Datagrams, NEW C, NEW L, NEW p, NEW first, List(d, C, L, p, first)
  PROVE  /\ C \subseteq 1 .. Count(d) /\ L \subseteq 1 .. Count(d)
         /\ L \subseteq Begins(d, C) /\ Linked(d, L, p) /\ DOMAIN p = 0 .. LastBlock
         /\ \A i \in L : /\ F(d, i) \in 0 .. LastBlock /\ p[F(d, i)] \in Hole
                         /\ EndIs(d, C, i, p[F(d, i)].last_byte)
<1>1. L \subseteq Begins(d, C) /\ \A j \in C : Cuts[d][j + 1] <= IP_MAXUDP
  BY Zenon DEF List
<1>2. \A i \in L : F(d, i) \in 0 .. LastBlock
  BY <1>1, BeginInBuffer, Zenon
<1>3. L \subseteq 1 .. Count(d)
  BY <1>1, Zenon DEF Begins
<1> QED
  BY <1>1, <1>2, <1>3, Zenon DEF List, Linked

(* h is a hole of the list that does not end before s.                      *)
Found(d, L, p, s, h) == \E j \in L : h = F(d, j) /\ p[F(d, j)].last_byte >= s

-----------------------------------------------------------------------------
(* Setting one field of one descriptor.                                     *)
WithNext(p, a, v) == [p EXCEPT ![a].next_hole = v]
WithPrev(p, a, v) == [p EXCEPT ![a].prev_hole = v]
WithLast(p, a, v) == [p EXCEPT ![a].last_byte = v]

(* What FixHoles is given: the end of the datagram is known with its last   *)
(* fragment.                                                                *)
Given(d, p, k, j) ==
    IF k < Count(d) THEN p ELSE WithLast(p, F(d, j), Cuts[d][k + 1])

-----------------------------------------------------------------------------
(* What is not the beginning of a fragment still missing stays.             *)
FixedKeeps(d, C, p, r) ==
    /\ DOMAIN r.p = 0 .. LastBlock
    /\ \A x \in 0 .. LastBlock :
          (\A i \in 1 .. Count(d) : i \notin C => x # F(d, i)) => r.p[x] = p[x]

(* The list is in the descriptors of its holes.                             *)
LEMMA SameHoles ==
  ASSUME NEW d \in Datagrams, NEW C, NEW L, NEW p, NEW first, List(d, C, L, p, first),
         NEW q, DOMAIN q = 0 .. LastBlock, \A i \in L : q[F(d, i)] = p[F(d, i)]
  PROVE  List(d, C, L, q, first)
BY Zenon DEF List

(* The copy, block by block.                                                *)
IsCopy(d, k, p, q) ==
    /\ DOMAIN q = 0 .. LastBlock
    /\ \A x \in 0 .. LastBlock :
          /\ x \in F(d, k) .. F(d, k + 1) - 1 => q[x] = Byte(d, x)
          /\ x \notin F(d, k) .. F(d, k + 1) - 1 => q[x] = p[x]

(* CopyFragment makes it.                                                   *)
LEMMA CopyIs ==
  ASSUME NEW d \in Datagrams, NEW k \in 1 .. Count(d), NEW p, DOMAIN p = 0 .. LastBlock,
         NEW q, q = CopyFragment(p, Fragment(d, k))
  PROVE  IsCopy(d, k, p, q)
<1> DEFINE f == Fragment(d, k)
<1>1. f.ip_id = d /\ BlocksOf(f) = F(d, k) .. F(d, k + 1) - 1
  BY FragmentIs
<1> HIDE DEF f
<1>2. q = [x \in DOMAIN p |-> IF x \in BlocksOf(f) THEN Byte(f.ip_id, x) ELSE p[x]]
  BY Zenon DEF CopyFragment, f
<1>3. q = [x \in 0 .. LastBlock |->
             IF x \in F(d, k) .. F(d, k + 1) - 1 THEN Byte(d, x) ELSE p[x]]
  BY ONLY <1>1, <1>2, DOMAIN p = 0 .. LastBlock, Zenon
<1> QED
  BY ONLY <1>3, Zenon DEF IsCopy

(* Copying a fragment leaves the holes, ...                                 *)
LEMMA CopyList ==
  ASSUME NEW d \in Datagrams, NEW C, NEW L, NEW p, NEW first, List(d, C, L, p, first),
         NEW k \in C, NEW q, q = CopyFragment(p, Fragment(d, k))
  PROVE  List(d, C, L, q, first)
<1>1. /\ C \subseteq 1 .. Count(d) /\ L \subseteq 1 .. Count(d) /\ L \subseteq Begins(d, C)
      /\ DOMAIN p = 0 .. LastBlock
      /\ \A i \in L : F(d, i) \in 0 .. LastBlock
  BY ListFacts, Zenon
<1>2. /\ DOMAIN q = 0 .. LastBlock
      /\ \A x \in 0 .. LastBlock :
            /\ x \in F(d, k) .. F(d, k + 1) - 1 => q[x] = Byte(d, x)
            /\ x \notin F(d, k) .. F(d, k + 1) - 1 => q[x] = p[x]
  <2>1. k \in 1 .. Count(d) /\ DOMAIN p = 0 .. LastBlock
    BY <1>1, Zenon
  <2>2. IsCopy(d, k, p, q)
    BY <2>1, CopyIs, Zenon
  <2> QED
    BY ONLY <2>2, Zenon DEF IsCopy
<1>3. ASSUME NEW i \in L PROVE q[F(d, i)] = p[F(d, i)]
  <2>1. i # k /\ i \in 1 .. Count(d) + 1 /\ k \in 1 .. Count(d)
    BY <1>1, CutType DEF Begins
  <2>2. F(d, i) \notin F(d, k) .. F(d, k + 1) - 1
    BY <2>1, BlockApart, Zenon
  <2> QED
    BY <1>1, <1>2, <2>2, Zenon
<1> QED
  BY <1>2, <1>3, SameHoles, Zenon

(* ... and what came before.                                                *)
LEMMA CopyData ==
  ASSUME NEW d \in Datagrams, NEW C, C \subseteq 1 .. Count(d), NEW k \in 1 .. Count(d),
         \A c \in C \cup {k} : Cuts[d][c + 1] <= IP_MAXUDP,
         NEW p, Data(d, C, p), NEW r, FixedKeeps(d, C, p, r),
         NEW q, q = CopyFragment(r.p, Fragment(d, k))
  PROVE  DOMAIN q = 0 .. LastBlock /\ Data(d, C \cup {k}, q)
<1>1. DOMAIN r.p = 0 .. LastBlock
  BY Zenon DEF FixedKeeps
<1>2. /\ DOMAIN q = 0 .. LastBlock
      /\ \A x \in 0 .. LastBlock :
            /\ x \in F(d, k) .. F(d, k + 1) - 1 => q[x] = Byte(d, x)
            /\ x \notin F(d, k) .. F(d, k + 1) - 1 => q[x] = r.p[x]
  <2>1. IsCopy(d, k, r.p, q)
    BY <1>1, CopyIs, Zenon
  <2> QED
    BY ONLY <2>1, Zenon DEF IsCopy
<1>3. ASSUME NEW c \in C \cup {k}, NEW x \in F(d, c) .. F(d, c + 1) - 1
      PROVE  q[x] = Byte(d, x)
  <2>1. c \in 1 .. Count(d)
    BY Zenon
  <2>2. x \in 0 .. LastBlock
    BY <2>1, BlockInBuffer, Zenon
  <2>3. CASE x \in F(d, k) .. F(d, k + 1) - 1
    BY <1>2, <2>2, <2>3, Zenon
  <2>4. CASE x \notin F(d, k) .. F(d, k + 1) - 1
    <3>1. c \in C
      BY <2>4, Zenon
    <3>2. \A i \in 1 .. Count(d) : i \notin C => x # F(d, i)
      <4>1. \A i \in 1 .. Count(d) : i \in 1 .. Count(d) + 1
        BY CutType
      <4> QED
        BY <2>1, <3>1, <4>1, BlockApart, Zenon
    <3>3. r.p[x] = p[x]
      BY <2>2, <3>2, Zenon DEF FixedKeeps
    <3>4. p[x] = Byte(d, x)
      BY <3>1, Zenon DEF Data
    <3> QED
      BY ONLY <1>2, <2>2, <2>4, <3>3, <3>4, Zenon
  <2> QED
    BY <2>3, <2>4, Zenon
<1> QED
  BY <1>2, <1>3, Zenon DEF Data

-----------------------------------------------------------------------------
(* The fragment that fills part of a hole: it is in the hole, or it was     *)
(* there already and its hole ends where it begins.                         *)
LEMMA Taken ==
  ASSUME NEW d \in Datagrams, NEW C, NEW L, NEW p, NEW first, List(d, C, L, p, first),
         NEW k \in 1 .. Count(d), NEW j \in L,
         p[F(d, j)].last_byte >= Cuts[d][k], ~ (F(d, k + 1) <= F(d, j))
  PROVE  /\ j <= k
         /\ \/ k \in C /\ j < k /\ p[F(d, j)].last_byte = Cuts[d][k]
            \/ (\A i \in j .. k : i \notin C) /\ p[F(d, j)].last_byte > Cuts[d][k]
<1> DEFINE b == p[F(d, j)].last_byte
<1>1. /\ Count(d) \in Nat /\ k \in Nat /\ j \in Nat /\ j \in 1 .. Count(d) + 1
      /\ k \in 1 .. Count(d) + 1 /\ k + 1 \in 1 .. Count(d) + 1 /\ C \subseteq 1 .. Count(d)
  BY CutType DEF List, Begins
<1>2. j <= k
  <2>1. ~ (k + 1 <= j)
    BY <1>1, FSame, Zenon
  <2> QED
    BY ONLY <1>1, <2>1
<1>3. EndIs(d, C, j, b)
  BY Zenon DEF List
<1>4. Cuts[d][k] \in Nat /\ Cuts[d][k] < Endless /\ Endless \in Nat
  <2>1. Cuts[d][k] < Cuts[d][k + 1] /\ Cuts[d][k + 1] \in 0 .. Endless /\ Cuts[d][k] \in 0 .. Endless
    BY <1>1, CutType
  <2> QED
    BY ONLY <2>1, EndlessNat
<1> HIDE DEF b
<1>5. CASE b = Endless /\ \A i \in j .. Count(d) : i \notin C
  BY ONLY <1>1, <1>2, <1>4, <1>5 DEF b
<1>6. ASSUME NEW e \in C, j < e, b = Cuts[d][e], \A i \in j .. e - 1 : i \notin C
      PROVE  \/ k \in C /\ j < k /\ b = Cuts[d][k]
             \/ (\A i \in j .. k : i \notin C) /\ b > Cuts[d][k]
  <2>1. e \in 1 .. Count(d) + 1 /\ e \in Nat /\ Cuts[d][e] \in Nat
    BY <1>1, CutType
  <2>2. /\ Cuts[d][e] <= Cuts[d][k] <=> e <= k
        /\ Cuts[d][k] <= Cuts[d][e] <=> k <= e
    BY <1>1, <2>1, FSame, Zenon
  <2>3. Cuts[d][k] <= Cuts[d][e]
    BY <1>4, <1>6, <2>1 DEF b
  <2>4. CASE e = k
    BY <1>6, <2>4
  <2>5. CASE k < e
    <3>1. \A i \in j .. k : i \notin C
      BY ONLY <1>1, <1>6, <2>1, <2>5
    <3> QED
      BY ONLY <1>1, <1>4, <1>6, <2>1, <2>2, <2>5, <3>1
  <2> QED
    BY ONLY <1>1, <2>1, <2>2, <2>3, <2>4, <2>5
<1> QED
  BY <1>2, <1>3, <1>5, <1>6, Zenon DEF EndIs, b

(* Where holes begin once fragment k has come too.                          *)
BeginsWith(d, C, k) ==
    (Begins(d, C) \ {k}) \cup {i \in {k + 1} : k < Count(d) /\ i \notin C}

(* Only fragment k and the one behind it matter.                            *)
LEMMA BeginsAdd ==
  ASSUME NEW d \in Datagrams, NEW C, C \subseteq 1 .. Count(d),
         NEW k \in 1 .. Count(d), k \notin C
  PROVE  Begins(d, C \cup {k}) = BeginsWith(d, C, k)
BY CutType DEF Begins, BeginsWith

(* The other holes end where they did ...                                   *)
LEMMA EndKept ==
  ASSUME NEW d \in Datagrams, NEW C, C \subseteq 1 .. Count(d),
         NEW k \in 1 .. Count(d), NEW j \in Begins(d, C), \A i \in j .. k : i \notin C,
         j <= k, NEW i \in Begins(d, C), i # j, NEW b, EndIs(d, C, i, b)
  PROVE  EndIs(d, C \cup {k}, i, b)
<1>1. /\ Count(d) \in Nat /\ k \in Nat /\ j \in Nat /\ i \in Nat /\ C \subseteq Nat
      /\ 1 <= i /\ 1 <= j
  BY CutType DEF Begins
<1>2. (i = 1 \/ i - 1 \in C) /\ (j = 1 \/ j - 1 \in C)
  BY DEF Begins
<1>3. CASE b = Endless /\ \A m \in i .. Count(d) : m \notin C
  <2>1. k \notin i .. Count(d)
    <3>1. ~ (i < j)
      <4> SUFFICES ASSUME i < j PROVE FALSE
        OBVIOUS
      <4>1. j - 1 \in C /\ j - 1 \in i .. Count(d)
        BY ONLY <1>1, <1>2, k \in 1 .. Count(d), j <= k, i < j
      <4> QED
        BY ONLY <1>3, <4>1
    <3>2. ~ (i - 1 \in j .. k)
      BY <1>1, <1>2, <3>1
    <3> QED
      BY ONLY <1>1, <3>1, <3>2, i # j
  <2> QED
    BY <1>3, <2>1 DEF EndIs
<1>4. ASSUME NEW e \in C, i < e, b = Cuts[d][e], \A m \in i .. e - 1 : m \notin C
      PROVE  EndIs(d, C \cup {k}, i, b)
  <2>0. e \in Nat
    BY <1>1
  <2>1. k \notin i .. e - 1
    <3>1. CASE i < j
      <4>1. j - 1 \in C /\ j - 1 >= i
        BY ONLY <1>1, <1>2, <3>1
      <4>2. e <= j - 1
        BY ONLY <1>1, <1>4, <2>0, <4>1
      <4> QED
        BY ONLY <1>1, <2>0, <4>2, j <= k
    <3>2. CASE j < i
      <4>1. i - 1 \in C /\ i - 1 >= j
        BY ONLY <1>1, <1>2, <3>2
      <4>2. ~ (i - 1 \in j .. k)
        BY <4>1
      <4> QED
        BY ONLY <1>1, <4>1, <4>2
    <3> QED
      BY ONLY <1>1, <3>1, <3>2, i # j
  <2> QED
    BY <1>4, <2>1 DEF EndIs
<1> QED
  BY <1>3, <1>4, Zenon DEF EndIs

(* ... the hole behind fragment k ends where the hole it was in ended ...   *)
LEMMA EndBehind ==
  ASSUME NEW d \in Datagrams, NEW C, C \subseteq 1 .. Count(d),
         NEW k \in 1 .. Count(d), k < Count(d), NEW j \in 1 .. Count(d), j <= k,
         NEW b, EndIs(d, C, j, b), ~ (b <= Cuts[d][k + 1])
  PROVE  EndIs(d, C \cup {k}, k + 1, b)
<1>1. /\ Count(d) \in Nat /\ k \in Nat /\ j \in Nat /\ C \subseteq Nat
      /\ k + 1 \in 1 .. Count(d) + 1
  BY CutType
<1>2. CASE b = Endless /\ \A m \in j .. Count(d) : m \notin C
  <2>1. \A m \in k + 1 .. Count(d) : m \notin C /\ m # k
    BY ONLY <1>1, <1>2, j <= k
  <2> QED
    BY <1>2, <2>1 DEF EndIs
<1>3. ASSUME NEW e \in C, j < e, b = Cuts[d][e], \A m \in j .. e - 1 : m \notin C
      PROVE  EndIs(d, C \cup {k}, k + 1, b)
  <2>1. e \in 1 .. Count(d) + 1 /\ e \in Nat
    BY <1>1
  <2>2. ~ (e <= k + 1)
    BY <1>1, <1>3, <2>1, FSame, Zenon
  <2>3. k + 1 < e /\ \A m \in k + 1 .. e - 1 : m \notin C /\ m # k
    BY ONLY <1>1, <1>3, <2>1, <2>2, j <= k
  <2> QED
    BY <1>3, <2>3 DEF EndIs
<1> QED
  BY <1>2, <1>3, Zenon DEF EndIs

(* ... and what is left of that hole before fragment k ends there.          *)
LEMMA EndBefore ==
  ASSUME NEW d \in Datagrams, NEW C, NEW k \in 1 .. Count(d), NEW j \in 1 .. Count(d),
         j < k, \A i \in j .. k : i \notin C
  PROVE  EndIs(d, C \cup {k}, j, Cuts[d][k])
<1>1. \A i \in j .. k - 1 : i \notin C /\ i # k
  BY CutType
<1> QED
  BY <1>1 DEF EndIs

-----------------------------------------------------------------------------
(* The indices tell the fragments apart, and only the first has index 0.    *)
LEMMA Indices ==
  ASSUME NEW d \in Datagrams, NEW L, L \subseteq 1 .. Count(d)
  PROVE  /\ L \subseteq Nat
         /\ \A i, m \in L : F(d, i) = F(d, m) => i = m
         /\ \A i \in L : F(d, i) = 0 <=> i = 1
         /\ \A i \in L : 1 <= i
<1>1. /\ \A i \in L : i \in 1 .. Count(d) + 1 /\ i \in Nat /\ 1 <= i
      /\ 1 \in 1 .. Count(d) + 1
  BY CutType
<1>2. \A i, m \in L : F(d, i) = F(d, m) => i = m
  BY <1>1, FSame, Zenon
<1>3. \A i \in L : F(d, i) = F(d, 1) <=> i = 1
  BY <1>1, FSame, Zenon
<1> QED
  BY <1>1, <1>2, <1>3, FType, Zenon

(* The neighbours of hole j point to it, and only they do.                  *)
Mutual(d, L, p, j) ==
    \A i \in L :
        /\ p[F(d, i)].next_hole = F(d, j) /\ i < j => p[F(d, j)].prev_hole = F(d, i)
        /\ p[F(d, i)].prev_hole = F(d, j) /\ j < i => p[F(d, j)].next_hole = F(d, i)

(* So it is in a linked list.                                               *)
LEMMA Neighbours ==
  ASSUME NEW d \in Datagrams, NEW L, L \subseteq 1 .. Count(d), NEW p, Linked(d, L, p),
         NEW j \in L
  PROVE  Mutual(d, L, p, j)
<1> SUFFICES ASSUME NEW i \in L
             PROVE  /\ p[F(d, i)].next_hole = F(d, j) /\ i < j => p[F(d, j)].prev_hole = F(d, i)
                    /\ p[F(d, i)].prev_hole = F(d, j) /\ j < i => p[F(d, j)].next_hole = F(d, i)
  BY Zenon DEF Mutual
<1>1. /\ L \subseteq Nat /\ \A m, n \in L : F(d, m) = F(d, n) => m = n
      /\ \A m \in L : F(d, m) = 0 <=> m = 1
      /\ \A m \in L : 1 <= m
  BY Indices, Zenon
<1>2. /\ NextHoleIs(d, L, i, p[F(d, i)].next_hole) /\ NextHoleIs(d, L, j, p[F(d, j)].next_hole)
      /\ PrevHoleIs(d, L, i, p[F(d, i)].prev_hole) /\ PrevHoleIs(d, L, j, p[F(d, j)].prev_hole)
  BY Zenon DEF Linked
<1>3. ASSUME p[F(d, i)].next_hole = F(d, j), i < j
      PROVE  p[F(d, j)].prev_hole = F(d, i)
  <2>1. F(d, j) # 0
    BY ONLY <1>1, <1>3, i \in L, j \in L
  <2>2. \A m \in L : m <= i \/ j <= m
    BY <1>1, <1>2, <1>3, <2>1, Zenon DEF NextHoleIs
  <2>3. ~ \A m \in L : j <= m
    BY ONLY <1>1, <1>3, i \in L, j \in L
  <2>4. PICK m \in L : /\ m < j /\ p[F(d, j)].prev_hole = F(d, m)
                       /\ \A n \in L : n <= m \/ j <= n
    BY <1>2, <2>3, Zenon DEF PrevHoleIs
  <2>5. m = i
    BY ONLY <1>1, <1>3, <2>2, <2>4, i \in L, j \in L
  <2> QED
    BY ONLY <2>4, <2>5
<1>4. ASSUME p[F(d, i)].prev_hole = F(d, j), j < i
      PROVE  p[F(d, j)].next_hole = F(d, i)
  <2>1. \A m \in L : m <= j \/ i <= m
    <3>1. ~ \A m \in L : i <= m
      BY ONLY <1>1, <1>4, i \in L, j \in L
    <3> QED
      BY <1>1, <1>2, <1>4, <3>1, Zenon DEF PrevHoleIs
  <2>3. ~ \A m \in L : m <= j
    BY ONLY <1>1, <1>4, i \in L, j \in L
  <2>4. PICK m \in L : /\ j < m /\ p[F(d, j)].next_hole = F(d, m)
                       /\ \A n \in L : n <= j \/ m <= n
    BY <1>2, <2>3, Zenon DEF NextHoleIs
  <2>5. m = i
    BY ONLY <1>1, <1>4, <2>1, <2>4, i \in L, j \in L
  <2> QED
    BY ONLY <2>4, <2>5
<1> QED
  BY <1>3, <1>4, Zenon

(* Hole j leaves the list.  Where it had none before it, by its own link,   *)
(* those before it leave too.                                               *)
Without(p, d, L, j) ==
    {i \in L : i # j /\ (p[F(d, j)].prev_hole = 0 => j < i)}

(* The links around it make the others a list.                              *)
LEMMA LinkRemove ==
  ASSUME NEW d \in Datagrams, NEW L, L \subseteq 1 .. Count(d), NEW p, Linked(d, L, p),
         NEW j \in L, NEW q,
         \A i \in Without(p, d, L, j) :
            /\ q[F(d, i)].next_hole =
                  IF F(d, i) = p[F(d, j)].prev_hole /\ p[F(d, j)].prev_hole # 0
                  THEN p[F(d, j)].next_hole ELSE p[F(d, i)].next_hole
            /\ q[F(d, i)].prev_hole =
                  IF F(d, i) = p[F(d, j)].next_hole /\ p[F(d, j)].next_hole # 0
                  THEN p[F(d, j)].prev_hole ELSE p[F(d, i)].prev_hole
  PROVE  Linked(d, Without(p, d, L, j), q)
<1> DEFINE pv == p[F(d, j)].prev_hole
           nx == p[F(d, j)].next_hole
           K == Without(p, d, L, j)
<1>1. /\ L \subseteq Nat /\ \A m, n \in L : F(d, m) = F(d, n) => m = n
      /\ \A m \in L : F(d, m) = 0 <=> m = 1
      /\ \A m \in L : 1 <= m
  BY Indices, Zenon
<1>n. \A i \in L :
         /\ p[F(d, i)].next_hole = F(d, j) /\ i < j => p[F(d, j)].prev_hole = F(d, i)
         /\ p[F(d, i)].prev_hole = F(d, j) /\ j < i => p[F(d, j)].next_hole = F(d, i)
  <2>1. Mutual(d, L, p, j)
    BY Neighbours, Zenon
  <2> QED
    BY ONLY <2>1, Zenon DEF Mutual
<1>2. NextHoleIs(d, L, j, nx) /\ PrevHoleIs(d, L, j, pv)
  BY Zenon DEF Linked
<1>3. K = {i \in L : i # j /\ (pv = 0 => j < i)}
  BY Zenon DEF Without
<1> SUFFICES ASSUME NEW i \in K
             PROVE  /\ NextHoleIs(d, K, i, q[F(d, i)].next_hole)
                    /\ PrevHoleIs(d, K, i, q[F(d, i)].prev_hole)
  BY Zenon DEF Linked
<1>4. i \in L /\ i # j /\ (pv = 0 => j < i)
  BY <1>3, Zenon
<1>5. NextHoleIs(d, L, i, p[F(d, i)].next_hole) /\ PrevHoleIs(d, L, i, p[F(d, i)].prev_hole)
  BY <1>4, Zenon DEF Linked
<1>6. /\ p[F(d, i)].next_hole = F(d, j) /\ i < j => pv = F(d, i)
      /\ p[F(d, i)].prev_hole = F(d, j) /\ j < i => nx = F(d, i)
  BY ONLY <1>4, <1>n, Zenon
<1>7. NextHoleIs(d, K, i, q[F(d, i)].next_hole)
  <2>1. CASE F(d, i) = pv /\ pv # 0
    <3>1. q[F(d, i)].next_hole = nx
      BY <2>1, Zenon
    <3>2. i < j /\ \A m \in L : m <= i \/ j <= m
      BY <1>1, <1>2, <1>4, <2>1, Zenon DEF PrevHoleIs
    <3>3. CASE nx = 0 /\ \A m \in L : m <= j
      <4>1. \A m \in K : m <= i
        BY ONLY <1>1, <1>3, <1>4, <3>2, <3>3, j \in L
      <4> QED
        BY <3>1, <3>3, <4>1, Zenon DEF NextHoleIs
    <3>4. ASSUME NEW n \in L, j < n, nx = F(d, n), \A m \in L : m <= j \/ n <= m
          PROVE  NextHoleIs(d, K, i, nx)
      <4>1. n \in K /\ i < n
        BY ONLY <1>1, <1>3, <1>4, <3>2, <3>4, j \in L
      <4>2. \A m \in K : m <= i \/ n <= m
        BY ONLY <1>1, <1>3, <1>4, <3>2, <3>4, j \in L
      <4> QED
        BY <3>4, <4>1, <4>2, Zenon DEF NextHoleIs
    <3> QED
      BY <1>2, <3>1, <3>3, <3>4, Zenon DEF NextHoleIs
  <2>2. CASE ~ (F(d, i) = pv /\ pv # 0)
    <3>1. q[F(d, i)].next_hole = p[F(d, i)].next_hole
      BY <2>2, Zenon
    <3>2. CASE p[F(d, i)].next_hole = 0 /\ \A m \in L : m <= i
      BY <1>3, <3>1, <3>2, Zenon DEF NextHoleIs
    <3>3. ASSUME NEW n \in L, i < n, p[F(d, i)].next_hole = F(d, n),
                 \A m \in L : m <= i \/ n <= m
          PROVE  NextHoleIs(d, K, i, p[F(d, i)].next_hole)
      <4>1. n # j
        <5> SUFFICES ASSUME n = j PROVE FALSE
          OBVIOUS
        <5>1. pv = F(d, i) /\ i < j
          BY <1>6, <3>3, Zenon
        <5>2. pv # 0
          BY ONLY <1>1, <1>4, <5>1, j \in L
        <5> QED
          BY <2>2, <5>1, <5>2, Zenon
      <4>2. n \in K
        BY ONLY <1>1, <1>3, <1>4, <3>3, <4>1, j \in L
      <4> QED
        BY <1>3, <3>3, <4>2, Zenon DEF NextHoleIs
    <3> QED
      BY <1>5, <3>1, <3>2, <3>3, Zenon DEF NextHoleIs
  <2> QED
    BY <2>1, <2>2, Zenon
<1>8. PrevHoleIs(d, K, i, q[F(d, i)].prev_hole)
  <2>1. CASE F(d, i) = nx /\ nx # 0
    <3>1. q[F(d, i)].prev_hole = pv
      BY <2>1, Zenon
    <3>2. j < i /\ \A m \in L : m <= j \/ i <= m
      BY <1>1, <1>2, <1>4, <2>1, Zenon DEF NextHoleIs
    <3>3. CASE pv = 0
      <4>1. \A m \in K : i <= m
        BY ONLY <1>1, <1>3, <1>4, <3>2, <3>3, j \in L
      <4> QED
        BY <3>1, <3>3, <4>1, Zenon DEF PrevHoleIs
    <3>4. CASE pv # 0
      <4>0. PICK n \in L : n < j /\ pv = F(d, n) /\ \A m \in L : m <= n \/ j <= m
        BY <1>2, <3>4, Zenon DEF PrevHoleIs
      <4>1. n \in K /\ n < i
        BY ONLY <1>1, <1>3, <1>4, <3>2, <3>4, <4>0, j \in L
      <4>2. \A m \in K : m <= n \/ i <= m
        BY ONLY <1>1, <1>3, <1>4, <3>2, <4>0, j \in L
      <4> QED
        BY <3>1, <4>0, <4>1, <4>2, Zenon DEF PrevHoleIs
    <3> QED
      BY <3>3, <3>4, Zenon
  <2>2. CASE ~ (F(d, i) = nx /\ nx # 0)
    <3>1. q[F(d, i)].prev_hole = p[F(d, i)].prev_hole
      BY <2>2, Zenon
    <3>2. CASE p[F(d, i)].prev_hole = 0 /\ \A m \in L : i <= m
      BY <1>3, <3>1, <3>2, Zenon DEF PrevHoleIs
    <3>3. ASSUME NEW n \in L, n < i, p[F(d, i)].prev_hole = F(d, n),
                 \A m \in L : m <= n \/ i <= m
          PROVE  PrevHoleIs(d, K, i, p[F(d, i)].prev_hole)
      <4>1. n # j
        <5> SUFFICES ASSUME n = j PROVE FALSE
          OBVIOUS
        <5>1. nx = F(d, i) /\ j < i
          BY <1>6, <3>3, Zenon
        <5>2. nx # 0
          BY ONLY <1>1, <1>4, <5>1, j \in L
        <5> QED
          BY <2>2, <5>1, <5>2, Zenon
      <4>2. n \in K
        BY ONLY <1>1, <1>3, <1>4, <3>3, <4>1, j \in L
      <4> QED
        BY <1>3, <3>3, <4>2, Zenon DEF PrevHoleIs
    <3> QED
      BY <1>5, <3>1, <3>2, <3>3, Zenon DEF PrevHoleIs
  <2> QED
    BY <2>1, <2>2, Zenon
<1> QED
  BY <1>7, <1>8, Zenon

(* Hole j moves to fragment w, in the same place of the list.               *)
LEMMA LinkMove ==
  ASSUME NEW d \in Datagrams, NEW L, L \subseteq 1 .. Count(d), NEW p, Linked(d, L, p),
         NEW j \in L, NEW w \in 1 .. Count(d), j < w, \A i \in L : i <= j \/ w < i, NEW q,
         q[F(d, w)].next_hole = p[F(d, j)].next_hole,
         q[F(d, w)].prev_hole = p[F(d, j)].prev_hole,
         \A i \in Without(p, d, L, j) :
            /\ q[F(d, i)].next_hole =
                  IF F(d, i) = p[F(d, j)].prev_hole /\ p[F(d, j)].prev_hole # 0
                  THEN F(d, w) ELSE p[F(d, i)].next_hole
            /\ q[F(d, i)].prev_hole =
                  IF F(d, i) = p[F(d, j)].next_hole /\ p[F(d, j)].next_hole # 0
                  THEN F(d, w) ELSE p[F(d, i)].prev_hole
  PROVE  Linked(d, Without(p, d, L, j) \cup {w}, q)
<1> DEFINE pv == p[F(d, j)].prev_hole
           nx == p[F(d, j)].next_hole
           W == Without(p, d, L, j)
           K == W \cup {w}
<1>1. /\ L \subseteq Nat /\ \A m, n \in L : F(d, m) = F(d, n) => m = n
      /\ \A m \in L : F(d, m) = 0 <=> m = 1
      /\ \A m \in L : 1 <= m
  BY Indices, Zenon
<1>0. L \subseteq Nat
  BY <1>1, Zenon
<1>w. w \in Nat /\ j < w /\ j \in L /\ \A i \in L : i <= j \/ w < i
  BY CutType
<1>n. \A i \in L :
         /\ p[F(d, i)].next_hole = F(d, j) /\ i < j => p[F(d, j)].prev_hole = F(d, i)
         /\ p[F(d, i)].prev_hole = F(d, j) /\ j < i => p[F(d, j)].next_hole = F(d, i)
  <2>1. Mutual(d, L, p, j)
    BY Neighbours, Zenon
  <2> QED
    BY ONLY <2>1, Zenon DEF Mutual
<1>2. NextHoleIs(d, L, j, nx) /\ PrevHoleIs(d, L, j, pv)
  BY Zenon DEF Linked
<1>3. W = {i \in L : i # j /\ (pv = 0 => j < i)}
  BY Zenon DEF Without
<1>a. NextHoleIs(d, K, w, q[F(d, w)].next_hole)
  <2>1. CASE nx = 0 /\ \A m \in L : m <= j
    <3>1. \A m \in K : m <= w
      BY ONLY <1>1, <1>w, <1>3, <2>1
    <3> QED
      BY <2>1, <3>1, Zenon DEF NextHoleIs
  <2>2. ASSUME NEW n \in L, j < n, nx = F(d, n), \A m \in L : m <= j \/ n <= m
        PROVE  NextHoleIs(d, K, w, nx)
    <3>1. n \in K /\ w < n
      BY ONLY <1>1, <1>w, <1>3, <2>2
    <3>2. \A m \in K : m = w \/ m \in L
      BY <1>3, Zenon
    <3>3. \A m \in L : m <= w \/ n <= m
      BY ONLY <1>0, <1>w, <2>2
    <3>4. w <= w
      BY <1>w
    <3> QED
      BY <2>2, <3>1, <3>2, <3>3, <3>4, Zenon DEF NextHoleIs
  <2> QED
    BY <1>2, <2>1, <2>2, Zenon DEF NextHoleIs
<1>b. PrevHoleIs(d, K, w, q[F(d, w)].prev_hole)
  <2>1. CASE pv = 0
    <3>0. \A m \in K : m = w \/ (m \in L /\ j < m)
      BY <1>3, <2>1, Zenon
    <3>1. \A m \in K : w <= m
      <4> SUFFICES ASSUME NEW m \in K PROVE w <= m
        BY Zenon
      <4>1. m = w \/ (m \in L /\ j < m /\ (m <= j \/ w < m) /\ m \in Nat)
        BY ONLY <1>0, <1>w, <3>0, m \in K, Zenon
      <4> QED
        BY ONLY <1>0, <1>w, <4>1
    <3> QED
      BY <2>1, <3>1, Zenon DEF PrevHoleIs
  <2>2. CASE pv # 0
    <3>0. PICK n \in L : n < j /\ pv = F(d, n) /\ \A m \in L : m <= n \/ j <= m
      BY <1>2, <2>2, Zenon DEF PrevHoleIs
    <3>1. n \in K /\ n < w
      <4>1. n < w /\ n # j
        BY ONLY <1>0, <1>w, n \in L, <3>0
      <4> QED
        BY <1>3, <2>2, <4>1, Zenon
    <3>2. \A m \in K : m = w \/ (m \in L /\ m # j)
      BY <1>3, Zenon
    <3>3. \A m \in L : m = j \/ m <= n \/ w <= m
      BY ONLY <1>0, <1>w, <3>0
    <3>4. w <= w
      BY <1>w
    <3> QED
      BY <3>0, <3>1, <3>2, <3>3, <3>4, Zenon DEF PrevHoleIs
  <2> QED
    BY <2>1, <2>2, Zenon
<1>c. ASSUME NEW i \in W
      PROVE  /\ NextHoleIs(d, K, i, q[F(d, i)].next_hole)
             /\ PrevHoleIs(d, K, i, q[F(d, i)].prev_hole)
  <2>4. i \in L /\ i # j /\ (pv = 0 => j < i)
    BY <1>3, Zenon
  <2>5. NextHoleIs(d, L, i, p[F(d, i)].next_hole) /\ PrevHoleIs(d, L, i, p[F(d, i)].prev_hole)
    BY <2>4, Zenon DEF Linked
  <2>6. /\ p[F(d, i)].next_hole = F(d, j) /\ i < j => pv = F(d, i)
        /\ p[F(d, i)].prev_hole = F(d, j) /\ j < i => nx = F(d, i)
    BY ONLY <2>4, <1>n, Zenon
  <2>7. NextHoleIs(d, K, i, q[F(d, i)].next_hole)
    <3>1. CASE F(d, i) = pv /\ pv # 0
      <4>1. q[F(d, i)].next_hole = F(d, w)
        BY <3>1, Zenon
      <4>2. i < j /\ \A m \in L : m <= i \/ j <= m
        BY <1>1, <1>2, <2>4, <3>1, Zenon DEF PrevHoleIs
      <4>3. w \in K /\ i < w /\ \A m \in K : m <= i \/ w <= m
        BY ONLY <1>1, <1>w, <1>3, <2>4, <4>2
      <4> QED
        BY <4>1, <4>3, Zenon DEF NextHoleIs
    <3>2. CASE ~ (F(d, i) = pv /\ pv # 0)
      <4>1. q[F(d, i)].next_hole = p[F(d, i)].next_hole
        BY <3>2, Zenon
      <4>2. CASE p[F(d, i)].next_hole = 0 /\ \A m \in L : m <= i
        <5>1. \A m \in K : m <= i
          BY ONLY <1>1, <1>w, <1>3, <2>4, <4>2
        <5> QED
          BY <4>1, <4>2, <5>1, Zenon DEF NextHoleIs
      <4>3. ASSUME NEW n \in L, i < n, p[F(d, i)].next_hole = F(d, n),
                   \A m \in L : m <= i \/ n <= m
            PROVE  NextHoleIs(d, K, i, p[F(d, i)].next_hole)
        <5>1. n # j
          <6> SUFFICES ASSUME n = j PROVE FALSE
            OBVIOUS
          <6>1. pv = F(d, i) /\ i < j
            BY <2>6, <4>3, Zenon
          <6>2. pv # 0
            BY ONLY <1>1, <1>w, <2>4, <6>1
          <6> QED
            BY <3>2, <6>1, <6>2, Zenon
        <5>2. n \in K /\ \A m \in K : m <= i \/ n <= m
          BY ONLY <1>1, <1>w, <1>3, <2>4, <4>3, <5>1
        <5> QED
          BY <4>3, <5>2, Zenon DEF NextHoleIs
      <4> QED
        BY <2>5, <4>1, <4>2, <4>3, Zenon DEF NextHoleIs
    <3> QED
      BY <3>1, <3>2, Zenon
  <2>8. PrevHoleIs(d, K, i, q[F(d, i)].prev_hole)
    <3>1. CASE F(d, i) = nx /\ nx # 0
      <4>1. q[F(d, i)].prev_hole = F(d, w)
        BY <3>1, Zenon
      <4>2. j < i /\ \A m \in L : m <= j \/ i <= m
        BY <1>1, <1>2, <2>4, <3>1, Zenon DEF NextHoleIs
      <4>3. w \in K /\ w < i /\ \A m \in K : m <= w \/ i <= m
        BY ONLY <1>1, <1>w, <1>3, <2>4, <4>2
      <4> QED
        BY <4>1, <4>3, Zenon DEF PrevHoleIs
    <3>2. CASE ~ (F(d, i) = nx /\ nx # 0)
      <4>1. q[F(d, i)].prev_hole = p[F(d, i)].prev_hole
        BY <3>2, Zenon
      <4>2. CASE p[F(d, i)].prev_hole = 0 /\ \A m \in L : i <= m
        <5>1. \A m \in K : i <= m
          BY ONLY <1>1, <1>w, <1>3, <2>4, <4>2
        <5> QED
          BY <4>1, <4>2, <5>1, Zenon DEF PrevHoleIs
      <4>3. ASSUME NEW n \in L, n < i, p[F(d, i)].prev_hole = F(d, n),
                   \A m \in L : m <= n \/ i <= m
            PROVE  PrevHoleIs(d, K, i, p[F(d, i)].prev_hole)
        <5>1. n # j
          <6> SUFFICES ASSUME n = j PROVE FALSE
            OBVIOUS
          <6>1. nx = F(d, i) /\ j < i
            BY <2>6, <4>3, Zenon
          <6>2. nx # 0
            BY ONLY <1>1, <1>w, <2>4, <6>1
          <6> QED
            BY <3>2, <6>1, <6>2, Zenon
        <5>2. n \in K /\ \A m \in K : m <= n \/ i <= m
          BY ONLY <1>1, <1>w, <1>3, <2>4, <4>3, <5>1
        <5> QED
          BY <4>3, <5>2, Zenon DEF PrevHoleIs
      <4> QED
        BY <2>5, <4>1, <4>2, <4>3, Zenon DEF PrevHoleIs
    <3> QED
      BY <3>1, <3>2, Zenon
  <2> QED
    BY <2>7, <2>8, Zenon
<1> QED
  BY <1>a, <1>b, <1>c, Zenon DEF Linked

(* Hole j is split, and its second part begins with fragment w.             *)
SplitLinks(d, L, p, j, w, q) ==
    /\ q[F(d, w)].next_hole = p[F(d, j)].next_hole
    /\ q[F(d, w)].prev_hole = F(d, j)
    /\ q[F(d, j)].next_hole = F(d, w)
    /\ q[F(d, j)].prev_hole = p[F(d, j)].prev_hole
    /\ \A i \in L \ {j} :
          /\ q[F(d, i)].next_hole = p[F(d, i)].next_hole
          /\ q[F(d, i)].prev_hole =
                IF F(d, i) = p[F(d, j)].next_hole /\ p[F(d, j)].next_hole # 0
                THEN F(d, w) ELSE p[F(d, i)].prev_hole

(* The list is linked again.                                                *)
LEMMA LinkSplit ==
  ASSUME NEW d \in Datagrams, NEW L, L \subseteq 1 .. Count(d), NEW p, Linked(d, L, p),
         NEW j \in L, NEW w \in 1 .. Count(d), j < w, \A i \in L : i <= j \/ w < i, NEW q,
         SplitLinks(d, L, p, j, w, q)
  PROVE  Linked(d, L \cup {w}, q)
<1>q. /\ q[F(d, w)].next_hole = p[F(d, j)].next_hole
      /\ q[F(d, w)].prev_hole = F(d, j)
      /\ q[F(d, j)].next_hole = F(d, w)
      /\ q[F(d, j)].prev_hole = p[F(d, j)].prev_hole
      /\ \A i \in L \ {j} :
            /\ q[F(d, i)].next_hole = p[F(d, i)].next_hole
            /\ q[F(d, i)].prev_hole =
                  IF F(d, i) = p[F(d, j)].next_hole /\ p[F(d, j)].next_hole # 0
                  THEN F(d, w) ELSE p[F(d, i)].prev_hole
  BY Zenon DEF SplitLinks
<1> DEFINE pv == p[F(d, j)].prev_hole
           nx == p[F(d, j)].next_hole
           K == L \cup {w}
<1>1. /\ L \subseteq Nat /\ \A m, n \in L : F(d, m) = F(d, n) => m = n
      /\ \A m \in L : F(d, m) = 0 <=> m = 1
      /\ \A m \in L : 1 <= m
  BY Indices, Zenon
<1>0. L \subseteq Nat
  BY <1>1, Zenon
<1>w. w \in Nat /\ j < w /\ j \in L /\ \A i \in L : i <= j \/ w < i
  BY CutType
<1>n. \A i \in L :
         /\ p[F(d, i)].next_hole = F(d, j) /\ i < j => p[F(d, j)].prev_hole = F(d, i)
         /\ p[F(d, i)].prev_hole = F(d, j) /\ j < i => p[F(d, j)].next_hole = F(d, i)
  <2>1. Mutual(d, L, p, j)
    BY Neighbours, Zenon
  <2> QED
    BY ONLY <2>1, Zenon DEF Mutual
<1>2. NextHoleIs(d, L, j, nx) /\ PrevHoleIs(d, L, j, pv)
  BY Zenon DEF Linked
<1>a. NextHoleIs(d, K, w, q[F(d, w)].next_hole)
  <2>1. CASE nx = 0 /\ \A m \in L : m <= j
    <3>1. \A m \in K : m <= w
      BY ONLY <1>1, <1>w, <2>1
    <3> QED
      BY <1>q, <2>1, <3>1, Zenon DEF NextHoleIs
  <2>2. ASSUME NEW n \in L, j < n, nx = F(d, n), \A m \in L : m <= j \/ n <= m
        PROVE  NextHoleIs(d, K, w, nx)
    <3>1. n \in K /\ w < n /\ \A m \in K : m <= w \/ n <= m
      BY ONLY <1>1, <1>w, <2>2
    <3> QED
      BY <2>2, <3>1, Zenon DEF NextHoleIs
  <2> QED
    BY <1>q, <1>2, <2>1, <2>2, Zenon DEF NextHoleIs
<1>b. PrevHoleIs(d, K, w, F(d, j)) /\ NextHoleIs(d, K, j, F(d, w))
  <2>1. /\ \A m \in K : m <= j \/ w <= m
        /\ j \in K /\ w \in K /\ j < w
    BY ONLY <1>1, <1>w
  <2> QED
    BY <2>1, Zenon DEF PrevHoleIs, NextHoleIs
<1>d. PrevHoleIs(d, K, j, pv)
  <2>1. CASE pv = 0 /\ \A m \in L : j <= m
    <3>1. \A m \in K : j <= m
      BY ONLY <1>1, <1>w, <2>1
    <3> QED
      BY <2>1, <3>1, Zenon DEF PrevHoleIs
  <2>2. ASSUME NEW n \in L, n < j, pv = F(d, n), \A m \in L : m <= n \/ j <= m
        PROVE  PrevHoleIs(d, K, j, pv)
    <3>1. n \in K /\ \A m \in K : m <= n \/ j <= m
      BY ONLY <1>1, <1>w, <2>2
    <3> QED
      BY <2>2, <3>1, Zenon DEF PrevHoleIs
  <2> QED
    BY <1>2, <2>1, <2>2, Zenon DEF PrevHoleIs
<1>c. ASSUME NEW i \in L, i # j
      PROVE  /\ NextHoleIs(d, K, i, q[F(d, i)].next_hole)
             /\ PrevHoleIs(d, K, i, q[F(d, i)].prev_hole)
  <2>4. i \in L \ {j}
    BY <1>c, Zenon
  <2>5. NextHoleIs(d, L, i, p[F(d, i)].next_hole) /\ PrevHoleIs(d, L, i, p[F(d, i)].prev_hole)
    BY <2>4, Zenon DEF Linked
  <2>6. p[F(d, i)].prev_hole = F(d, j) /\ j < i => nx = F(d, i)
    BY ONLY <1>c, <1>n, Zenon
  <2>7. NextHoleIs(d, K, i, q[F(d, i)].next_hole)
    <3>1. q[F(d, i)].next_hole = p[F(d, i)].next_hole
      BY <1>q, <2>4, Zenon
    <3>2. CASE p[F(d, i)].next_hole = 0 /\ \A m \in L : m <= i
      <4>1. \A m \in K : m <= i
        BY ONLY <1>1, <1>w, <2>4, <3>2
      <4> QED
        BY <3>1, <3>2, <4>1, Zenon DEF NextHoleIs
    <3>3. ASSUME NEW n \in L, i < n, p[F(d, i)].next_hole = F(d, n),
                 \A m \in L : m <= i \/ n <= m
          PROVE  NextHoleIs(d, K, i, p[F(d, i)].next_hole)
      <4>1. n \in K /\ \A m \in K : m <= i \/ n <= m
        BY ONLY <1>0, <1>w, <2>4, <3>3
      <4> QED
        BY <3>3, <4>1, Zenon DEF NextHoleIs
    <3> QED
      BY <2>5, <3>1, <3>2, <3>3, Zenon DEF NextHoleIs
  <2>8. PrevHoleIs(d, K, i, q[F(d, i)].prev_hole)
    <3>1. CASE F(d, i) = nx /\ nx # 0
      <4>1. q[F(d, i)].prev_hole = F(d, w)
        BY <1>q, <2>4, <3>1, Zenon
      <4>2. j < i /\ \A m \in L : m <= j \/ i <= m
        BY <1>1, <1>2, <2>4, <3>1, Zenon DEF NextHoleIs
      <4>3. w \in K /\ w < i /\ \A m \in K : m <= w \/ i <= m
        BY ONLY <1>1, <1>w, <2>4, <4>2
      <4> QED
        BY <4>1, <4>3, Zenon DEF PrevHoleIs
    <3>2. CASE ~ (F(d, i) = nx /\ nx # 0)
      <4>1. q[F(d, i)].prev_hole = p[F(d, i)].prev_hole
        BY <1>q, <2>4, <3>2, Zenon
      <4>2. CASE p[F(d, i)].prev_hole = 0 /\ \A m \in L : i <= m
        <5>1. \A m \in K : i <= m
          BY ONLY <1>1, <1>w, <2>4, <4>2
        <5> QED
          BY <4>1, <4>2, <5>1, Zenon DEF PrevHoleIs
      <4>3. ASSUME NEW n \in L, n < i, p[F(d, i)].prev_hole = F(d, n),
                   \A m \in L : m <= n \/ i <= m
            PROVE  PrevHoleIs(d, K, i, p[F(d, i)].prev_hole)
        <5>1. n # j
          <6> SUFFICES ASSUME n = j PROVE FALSE
            OBVIOUS
          <6>1. nx = F(d, i) /\ j < i
            BY <2>6, <4>3, Zenon
          <6>2. nx # 0
            BY ONLY <1>1, <1>w, <2>4, <6>1
          <6> QED
            BY <3>2, <6>1, <6>2, Zenon
        <5>2. n \in K /\ \A m \in K : m <= n \/ i <= m
          BY ONLY <1>1, <1>w, <2>4, <4>3, <5>1
        <5> QED
          BY <4>3, <5>2, Zenon DEF PrevHoleIs
      <4> QED
        BY <2>5, <4>1, <4>2, <4>3, Zenon DEF PrevHoleIs
    <3> QED
      BY <3>1, <3>2, Zenon
  <2> QED
    BY <2>7, <2>8, Zenon
<1> QED
  BY <1>q, <1>a, <1>b, <1>c, <1>d, Zenon DEF Linked

-----------------------------------------------------------------------------
(* What the four ways to fix the list write into the descriptors.           *)
Desc(b, n, v) == [last_byte |-> b, next_hole |-> n, prev_hole |-> v]
IsDesc(r) == r = Desc(r.last_byte, r.next_hole, r.prev_hole)

(* The fields of a descriptor.                                              *)
LEMMA DescFields ==
  ASSUME NEW b, NEW n, NEW v
  PROVE  /\ Desc(b, n, v).last_byte = b /\ Desc(b, n, v).next_hole = n
         /\ Desc(b, n, v).prev_hole = v /\ IsDesc(Desc(b, n, v))
BY DEF Desc, IsDesc

(* A hole is described.                                                     *)
LEMMA HoleDesc ==
  /\ \A r \in Hole : /\ IsDesc(r) /\ r.last_byte \in 0 .. Endless
                     /\ r.next_hole \in 0 .. LastBlock /\ r.prev_hole \in 0 .. LastBlock
  /\ \A b \in 0 .. Endless : \A n, v \in 0 .. LastBlock : Desc(b, n, v) \in Hole
BY DEF Hole, Desc, IsDesc

NextSet(r, p, a, v) ==
    /\ DOMAIN r = DOMAIN p
    /\ \A x \in DOMAIN p : IsDesc(p[x]) =>
          r[x] = Desc(p[x].last_byte, IF x = a THEN v ELSE p[x].next_hole, p[x].prev_hole)

PrevSet(r, p, a, v) ==
    /\ DOMAIN r = DOMAIN p
    /\ \A x \in DOMAIN p : IsDesc(p[x]) =>
          r[x] = Desc(p[x].last_byte, p[x].next_hole, IF x = a THEN v ELSE p[x].prev_hole)

LastSet(r, p, a, v) ==
    /\ DOMAIN r = DOMAIN p
    /\ \A x \in DOMAIN p : x # a => r[x] = p[x]
    /\ a \in DOMAIN p /\ IsDesc(p[a]) => r[a] = Desc(v, p[a].next_hole, p[a].prev_hole)

(* Setting next_hole does that ...                                          *)
LEMMA SetNext ==
  ASSUME NEW p, NEW a, NEW v, NEW r, r = WithNext(p, a, v)
  PROVE  NextSet(r, p, a, v)
<1>0. r = [p EXCEPT ![a].next_hole = v]
  BY Zenon DEF WithNext
<1>d. DOMAIN r = DOMAIN p
  BY ONLY <1>0
<1> SUFFICES ASSUME NEW x \in DOMAIN p, IsDesc(p[x])
             PROVE  r[x] = Desc(p[x].last_byte, IF x = a THEN v ELSE p[x].next_hole, p[x].prev_hole)
  BY <1>d, Zenon DEF NextSet
<1>1. CASE x = a
  <2>1. r[x] = [p[x] EXCEPT !.next_hole = v]
    BY ONLY <1>0, <1>1, x \in DOMAIN p
  <2> QED
    BY ONLY IsDesc(p[x]), <1>1, <2>1 DEF IsDesc, Desc
<1>2. CASE x # a
  <2>1. r[x] = p[x]
    BY ONLY <1>0, <1>2, x \in DOMAIN p
  <2> QED
    BY ONLY IsDesc(p[x]), <1>2, <2>1, Zenon DEF IsDesc
<1> QED
  BY <1>1, <1>2, Zenon

(* ... setting prev_hole, ...                                               *)
LEMMA SetPrev ==
  ASSUME NEW p, NEW a, NEW v, NEW r, r = WithPrev(p, a, v)
  PROVE  PrevSet(r, p, a, v)
<1>0. r = [p EXCEPT ![a].prev_hole = v]
  BY Zenon DEF WithPrev
<1>d. DOMAIN r = DOMAIN p
  BY ONLY <1>0
<1> SUFFICES ASSUME NEW x \in DOMAIN p, IsDesc(p[x])
             PROVE  r[x] = Desc(p[x].last_byte, p[x].next_hole, IF x = a THEN v ELSE p[x].prev_hole)
  BY <1>d, Zenon DEF PrevSet
<1>1. CASE x = a
  <2>1. r[x] = [p[x] EXCEPT !.prev_hole = v]
    BY ONLY <1>0, <1>1, x \in DOMAIN p
  <2> QED
    BY ONLY IsDesc(p[x]), <1>1, <2>1 DEF IsDesc, Desc
<1>2. CASE x # a
  <2>1. r[x] = p[x]
    BY ONLY <1>0, <1>2, x \in DOMAIN p
  <2> QED
    BY ONLY IsDesc(p[x]), <1>2, <2>1, Zenon DEF IsDesc
<1> QED
  BY <1>1, <1>2, Zenon

(* ... and setting last_byte.                                               *)
LEMMA SetLast ==
  ASSUME NEW p, NEW a, NEW v, NEW r, r = WithLast(p, a, v)
  PROVE  LastSet(r, p, a, v)
<1>0. r = [p EXCEPT ![a].last_byte = v]
  BY Zenon DEF WithLast
<1>1. ASSUME a \in DOMAIN p, IsDesc(p[a])
      PROVE  r[a] = Desc(v, p[a].next_hole, p[a].prev_hole)
  <2>1. r[a] = [p[a] EXCEPT !.last_byte = v]
    BY ONLY <1>0, <1>1
  <2> QED
    BY ONLY <1>1, <2>1 DEF IsDesc, Desc
<1> QED
  BY <1>0, <1>1 DEF LastSet

(* The descriptor at x, with "next" set if x is the index a, "prev" if it   *)
(* is b; index 0 is none.                                                   *)
Patched(p, x, a, next, b, prev) ==
    Desc(p[x].last_byte,
         IF x = a /\ a # 0 THEN next ELSE p[x].next_hole,
         IF x = b /\ b # 0 THEN prev ELSE p[x].prev_hole)

(* A hole is taken out of the list.                                         *)
Removed(r, q, from, pv, nx) ==
    /\ DOMAIN r.p = 0 .. LastBlock
    /\ r.first = IF pv = 0 /\ nx # 0 THEN nx ELSE from
    /\ r.done <=> pv = 0 /\ nx = 0
    /\ \A x \in 0 .. LastBlock :
          IsDesc(q[x]) => r.p[x] = Patched(q, x, pv, nx, nx, pv)

(* So RemoveHole does it.                                                   *)
LEMMA RemoveFields ==
  ASSUME NEW q, DOMAIN q = 0 .. LastBlock, NEW from, NEW h, NEW pv, NEW nx,
         pv = q[h].prev_hole, nx = q[h].next_hole,
         NEW r, r = RemoveHole(q, from, h)
  PROVE  Removed(r, q, from, pv, nx)
<1>1. CASE pv = 0 /\ nx = 0
  <2>1. r = [p |-> q, first |-> from, done |-> TRUE]
    BY <1>1 DEF RemoveHole
  <2>2. r.p = q /\ r.first = from /\ r.done = TRUE
    BY ONLY <2>1
  <2> QED
    BY <1>1, <2>2, Zenon DEF Patched, IsDesc, Removed
<1>2. CASE pv = 0 /\ nx # 0
  <2>1. r = [p |-> [q EXCEPT ![nx].prev_hole = 0], first |-> nx, done |-> FALSE]
    BY <1>2 DEF RemoveHole
  <2>2. r.p = WithPrev(q, nx, 0) /\ r.first = nx /\ r.done = FALSE
    BY ONLY <2>1 DEF WithPrev
  <2>3. PrevSet(r.p, q, nx, 0)
    BY ONLY <2>2, SetPrev, Zenon
  <2> QED
    BY <1>2, <2>2, <2>3, Zenon DEF Patched, NextSet, PrevSet, Removed
<1>3. CASE pv # 0 /\ nx = 0
  <2>1. r = [p |-> [q EXCEPT ![pv].next_hole = 0], first |-> from, done |-> FALSE]
    BY <1>3 DEF RemoveHole
  <2>2. r.p = WithNext(q, pv, 0) /\ r.first = from /\ r.done = FALSE
    BY ONLY <2>1 DEF WithNext
  <2>3. NextSet(r.p, q, pv, 0)
    BY ONLY <2>2, SetNext, Zenon
  <2> QED
    BY <1>3, <2>2, <2>3, Zenon DEF Patched, NextSet, PrevSet, Removed
<1>4. CASE pv # 0 /\ nx # 0
  <2> DEFINE m == WithPrev(q, nx, pv)
  <2>1. r = [p |-> [m EXCEPT ![pv].next_hole = nx], first |-> from, done |-> FALSE]
    BY <1>4 DEF RemoveHole, WithPrev
  <2>2. r.p = WithNext(m, pv, nx) /\ r.first = from /\ r.done = FALSE
    BY ONLY <2>1 DEF WithNext
  <2>3. PrevSet(m, q, nx, pv)
    BY ONLY SetPrev, Zenon
  <2> HIDE DEF m
  <2>4. NextSet(r.p, m, pv, nx)
    BY ONLY <2>2, SetNext, Zenon
  <2>5. \A x \in DOMAIN q : IsDesc(q[x]) =>
           r.p[x] = Desc(q[x].last_byte, IF x = pv THEN nx ELSE q[x].next_hole,
                         IF x = nx THEN pv ELSE q[x].prev_hole)
    BY ONLY <2>3, <2>4, DescFields DEF NextSet, PrevSet
  <2> QED
    BY <1>4, <2>2, <2>3, <2>4, <2>5, Zenon DEF Patched, NextSet, PrevSet, Removed
<1> QED
  BY <1>1, <1>2, <1>3, <1>4, Zenon

(* The link back is set if there is a hole behind.                          *)
BackLinked(r, p, a, v) ==
    /\ DOMAIN r = DOMAIN p
    /\ \A x \in DOMAIN p : IsDesc(p[x]) => r[x] = Patched(p, x, 0, 0, a, v)

(* By the test on its index.                                                *)
LEMMA BackLink ==
  ASSUME NEW p, NEW a, NEW v, NEW r, r = IF a # 0 THEN WithPrev(p, a, v) ELSE p
  PROVE  BackLinked(r, p, a, v)
<1>1. CASE a # 0
  <2>1. PrevSet(r, p, a, v)
    BY <1>1, SetPrev, Zenon
  <2> QED
    BY <1>1, <2>1, Zenon DEF PrevSet, Patched, BackLinked
<1>2. CASE a = 0
  BY <1>2, Zenon DEF Patched, IsDesc, BackLinked
<1> QED
  BY <1>1, <1>2, Zenon

(* A hole moves.                                                            *)
Moved(r, q, from, h, newh, pv, nx) ==
    /\ DOMAIN r.p = 0 .. LastBlock /\ r.done = FALSE
    /\ r.first = IF pv # 0 THEN from ELSE newh
    /\ r.p[newh] = q[h]
    /\ \A x \in 0 .. LastBlock :
          x # newh /\ IsDesc(q[x]) => r.p[x] = Patched(q, x, pv, newh, nx, newh)

(* So MoveHole does it.                                                     *)
LEMMA MoveFields ==
  ASSUME NEW q, DOMAIN q = 0 .. LastBlock, NEW from, NEW h, NEW newh \in 0 .. LastBlock,
         IsDesc(q[h]), NEW pv, NEW nx,
         pv = q[h].prev_hole, nx = q[h].next_hole, pv # 0 => pv # newh, nx # 0 => nx # newh,
         NEW r, r = MoveHole(q, from, h, newh)
  PROVE  Moved(r, q, from, h, newh, pv, nx)
<1> DEFINE m == [q EXCEPT ![newh] = q[h]]
           n == IF m[newh].next_hole # 0 THEN WithPrev(m, m[newh].next_hole, newh) ELSE m
<1>1. /\ DOMAIN m = 0 .. LastBlock /\ m[newh] = q[h]
      /\ \A x \in 0 .. LastBlock : x # newh => m[x] = q[x]
  OBVIOUS
<1>2. r = IF n[newh].prev_hole # 0
          THEN [p |-> WithNext(n, n[newh].prev_hole, newh), first |-> from, done |-> FALSE]
          ELSE [p |-> n, first |-> newh, done |-> FALSE]
  BY Zenon DEF MoveHole, WithNext, WithPrev
<1>3. m[newh].next_hole = nx
  BY ONLY <1>1, nx = q[h].next_hole
<1>4. n = IF nx # 0 THEN WithPrev(m, nx, newh) ELSE m
  BY <1>3, Zenon
<1> HIDE DEF m, n
<1>5. /\ DOMAIN n = DOMAIN m
      /\ \A x \in DOMAIN m : IsDesc(m[x]) => n[x] = Patched(m, x, 0, 0, nx, newh)
  <2>1. BackLinked(n, m, nx, newh)
    BY ONLY <1>4, BackLink, Zenon
  <2> QED
    BY ONLY <2>1, Zenon DEF BackLinked
<1>6. n[newh] = q[h]
  <2>1. n[newh] = Patched(m, newh, 0, 0, nx, newh)
    BY <1>1, <1>5, Zenon
  <2> QED
    BY <1>1, <2>1, Zenon DEF Patched, IsDesc
<1>7. \A x \in 0 .. LastBlock : x # newh /\ IsDesc(q[x]) => n[x] = Patched(q, x, 0, 0, nx, newh)
  BY <1>1, <1>5, Zenon DEF Patched
<1>8. n[newh].prev_hole = pv
  BY <1>6
<1>9. CASE pv # 0
  <2>1. r = [p |-> WithNext(n, pv, newh), first |-> from, done |-> FALSE]
    BY <1>2, <1>8, <1>9, Zenon
  <2>2. r.p = WithNext(n, pv, newh) /\ r.first = from /\ r.done = FALSE
    BY ONLY <2>1
  <2>3. NextSet(r.p, n, pv, newh)
    BY <2>2, SetNext, Zenon
  <2>4. r.p[newh] = q[h]
    BY <1>1, <1>5, <1>6, <1>9, <2>3, ZenonT(30) DEF NextSet, IsDesc
  <2>5. ASSUME NEW x \in 0 .. LastBlock, x # newh, IsDesc(q[x])
        PROVE  r.p[x] = Patched(q, x, pv, newh, nx, newh)
    <3>1. n[x] = Patched(q, x, 0, 0, nx, newh)
      BY <1>7, <2>5, Zenon
    <3>2. /\ IsDesc(n[x]) /\ n[x].last_byte = q[x].last_byte
          /\ n[x].next_hole = q[x].next_hole
          /\ n[x].prev_hole = IF x = nx /\ nx # 0 THEN newh ELSE q[x].prev_hole
      BY ONLY <3>1, DescFields DEF Patched
    <3>3. r.p[x] = Desc(n[x].last_byte, IF x = pv THEN newh ELSE n[x].next_hole, n[x].prev_hole)
      BY <1>1, <1>5, <2>3, <3>2, Zenon DEF NextSet
    <3> QED
      BY ONLY <1>9, <3>2, <3>3, Zenon DEF Patched
  <2> QED
    BY <1>1, <1>5, <1>9, <2>2, <2>3, <2>4, <2>5, Zenon DEF Moved, NextSet
<1>10. CASE pv = 0
  <2>1. r = [p |-> n, first |-> newh, done |-> FALSE]
    BY <1>2, <1>8, <1>10, Zenon
  <2>2. r.p = n /\ r.first = newh /\ r.done = FALSE
    BY ONLY <2>1
  <2> QED
    BY <1>1, <1>5, <1>6, <1>7, <1>10, <2>2, Zenon DEF Moved, Patched
<1> QED
  BY <1>9, <1>10, Zenon

(* A hole is split.                                                         *)
Halved(r, q, from, h, newh, start, pv, nx) ==
    /\ DOMAIN r.p = 0 .. LastBlock /\ r.done = FALSE /\ r.first = from
    /\ r.p[newh] = Desc(q[h].last_byte, nx, h)
    /\ r.p[h] = Desc(start, newh, pv)
    /\ \A x \in 0 .. LastBlock :
          x # newh /\ x # h /\ IsDesc(q[x]) => r.p[x] = Patched(q, x, 0, 0, nx, newh)

(* So SplitHole does it.                                                    *)
LEMMA SplitFields ==
  ASSUME NEW q, DOMAIN q = 0 .. LastBlock, NEW from, NEW h \in 0 .. LastBlock,
         NEW newh \in 0 .. LastBlock, h # newh, NEW start,
         IsDesc(q[h]), NEW pv, NEW nx,
         pv = q[h].prev_hole, nx = q[h].next_hole, nx # 0 => nx # newh /\ nx # h,
         NEW r, r = SplitHole(q, from, h, newh, start)
  PROVE  Halved(r, q, from, h, newh, start, pv, nx)
<1> DEFINE m0 == [q EXCEPT ![newh] = [q[h] EXCEPT !.prev_hole = h]]
           m1 == [m0 EXCEPT ![h].last_byte = start]
           m == [m1 EXCEPT ![h].next_hole = newh]
<1>a. /\ DOMAIN m0 = 0 .. LastBlock /\ m0[newh] = [q[h] EXCEPT !.prev_hole = h]
      /\ m0[h] = q[h] /\ \A x \in 0 .. LastBlock : x # newh => m0[x] = q[x]
  OBVIOUS
<1>5. r = [p |-> IF m[newh].next_hole # 0 THEN WithPrev(m, m[newh].next_hole, newh) ELSE m,
           first |-> from, done |-> FALSE]
  BY Zenon DEF SplitHole, WithPrev
<1> HIDE DEF m0
<1>b. /\ DOMAIN m1 = DOMAIN m0 /\ m1[newh] = m0[newh]
      /\ m1[h] = [m0[h] EXCEPT !.last_byte = start]
      /\ \A x \in DOMAIN m0 : x # h => m1[x] = m0[x]
  BY <1>a
<1> HIDE DEF m1
<1>c. /\ DOMAIN m = DOMAIN m1 /\ m[newh] = m1[newh]
      /\ m[h] = [m1[h] EXCEPT !.next_hole = newh]
      /\ \A x \in DOMAIN m1 : x # h => m[x] = m1[x]
  BY <1>a, <1>b
<1> HIDE DEF m
<1>1. /\ DOMAIN m = 0 .. LastBlock /\ m[newh] = [q[h] EXCEPT !.prev_hole = h]
      /\ m[h] = [[q[h] EXCEPT !.last_byte = start] EXCEPT !.next_hole = newh]
      /\ \A x \in 0 .. LastBlock : x # newh /\ x # h => m[x] = q[x]
  BY <1>a, <1>b, <1>c, Zenon
<1>2. q[h] = Desc(q[h].last_byte, nx, pv)
  BY Zenon DEF IsDesc
<1>3. m[newh] = Desc(q[h].last_byte, nx, h)
  BY ONLY <1>1, <1>2 DEF Desc
<1>4. m[h] = Desc(start, newh, pv)
  <2>1. [q[h] EXCEPT !.last_byte = start] = Desc(start, nx, pv)
    BY ONLY <1>2 DEF Desc
  <2>2. m[h] = [Desc(start, nx, pv) EXCEPT !.next_hole = newh]
    BY ONLY <1>1, <2>1, Zenon
  <2> QED
    BY ONLY <2>2 DEF Desc
<1>6. m[newh].next_hole = nx
  BY ONLY <1>3, DescFields
<1>7. /\ r.p = IF nx # 0 THEN WithPrev(m, nx, newh) ELSE m
      /\ r.first = from /\ r.done = FALSE
  BY ONLY <1>5, <1>6
<1>8. /\ DOMAIN r.p = DOMAIN m
      /\ \A x \in DOMAIN m : IsDesc(m[x]) => r.p[x] = Patched(m, x, 0, 0, nx, newh)
  <2>1. BackLinked(r.p, m, nx, newh)
    BY ONLY <1>7, BackLink, Zenon
  <2> QED
    BY ONLY <2>1, Zenon DEF BackLinked
<1>9. IsDesc(m[newh]) /\ IsDesc(m[h])
  BY ONLY <1>3, <1>4, DescFields
<1>10. r.p[newh] = m[newh]
  <2>1. r.p[newh] = Patched(m, newh, 0, 0, nx, newh)
    BY <1>1, <1>8, <1>9, Zenon
  <2> QED
    BY <1>9, <2>1, Zenon DEF Patched, IsDesc
<1>11. r.p[h] = m[h]
  <2>1. r.p[h] = Patched(m, h, 0, 0, nx, newh)
    BY <1>1, <1>8, <1>9, Zenon
  <2> QED
    BY <1>9, <2>1, Zenon DEF Patched, IsDesc
<1>12. \A x \in 0 .. LastBlock :
          x # newh /\ x # h /\ IsDesc(q[x]) => r.p[x] = Patched(q, x, 0, 0, nx, newh)
  BY <1>1, <1>8, Zenon DEF Patched
<1> QED
  BY <1>1, <1>3, <1>4, <1>7, <1>8, <1>10, <1>11, <1>12, Zenon DEF Halved

-----------------------------------------------------------------------------
(* Fragment k lies in the hole that begins with fragment j.                 *)
Fills(d, C, L, p, first, k, j) ==
    /\ List(d, C, L, p, first)
    /\ k \in 1 .. Count(d) /\ Cuts[d][k + 1] <= IP_MAXUDP
    /\ j \in L /\ j <= k /\ \A i \in j .. k : i \notin C

(* The list after fragment k, from its parts.                               *)
LEMMA MakeList ==
  ASSUME NEW d \in Datagrams, NEW C, NEW L, NEW p, NEW first, NEW k, NEW j,
         Fills(d, C, L, p, first, k, j),
         NEW K, K \subseteq Begins(d, C \cup {k}), Begins(d, C \cup {k}) \ K \subseteq {1},
         NEW q, DOMAIN q = 0 .. LastBlock, Linked(d, K, q),
         NEW g \in K, \A i \in K : g <= i,
         \A i \in K : q[F(d, i)] \in Hole /\ EndIs(d, C \cup {k}, i, q[F(d, i)].last_byte)
  PROVE  List(d, C \cup {k}, K, q, F(d, g))
<1>1. /\ C \subseteq 1 .. Count(d) /\ k \in 1 .. Count(d) /\ Cuts[d][k + 1] <= IP_MAXUDP
      /\ \A i \in C : Cuts[d][i + 1] <= IP_MAXUDP
  BY Zenon DEF Fills, List
<1>2. /\ C \cup {k} \subseteq 1 .. Count(d)
      /\ \A i \in C \cup {k} : Cuts[d][i + 1] <= IP_MAXUDP
  BY <1>1, Zenon
<1> QED
  BY <1>2, Zenon DEF List, Linked

(* The other holes end where they did.                                      *)
OthersEnd(d, C, L, p, k, j) ==
    \A i \in L : i # j => EndIs(d, C \cup {k}, i, p[F(d, i)].last_byte)

(* Where a fragment in a hole leaves the beginnings of the holes.           *)
LEMMA FillBegins ==
  ASSUME NEW d \in Datagrams, NEW C, NEW L, NEW p, NEW first, NEW k, NEW j,
         Fills(d, C, L, p, first, k, j)
  PROVE  /\ k \notin C /\ k \in Nat /\ j \in Nat /\ j <= k /\ Begins(d, C) \subseteq Nat
         /\ j # k => k \notin Begins(d, C)
         /\ k + 1 \notin Begins(d, C)
         /\ OthersEnd(d, C, L, p, k, j)
<1>1. /\ C \subseteq 1 .. Count(d) /\ L \subseteq Begins(d, C)
      /\ \A i \in L : EndIs(d, C, i, p[F(d, i)].last_byte)
  BY ListFacts, Zenon DEF Fills
<1>2. k \in 1 .. Count(d) /\ j \in L /\ j <= k /\ \A i \in j .. k : i \notin C
  BY Zenon DEF Fills
<1>3. Count(d) \in Nat
  BY CutType
<1>4. Begins(d, C) \subseteq 1 .. Count(d)
  BY Zenon DEF Begins
<1>5. k \notin C /\ k \in Nat /\ j \in Nat /\ j <= k /\ Begins(d, C) \subseteq Nat
  BY ONLY <1>1, <1>2, <1>3, <1>4
<1>6. j # k => k \notin Begins(d, C)
  <2> SUFFICES ASSUME j # k, k \in Begins(d, C) PROVE FALSE
    BY Zenon
  <2>1. k = 1 \/ k - 1 \in C
    BY DEF Begins
  <2>2. k - 1 \in j .. k /\ 1 <= j
    BY ONLY <1>1, <1>2, <1>3, <1>4, <1>5, j # k
  <2> QED
    BY ONLY <1>2, <1>5, <2>1, <2>2, j # k
<1>7. k + 1 \notin Begins(d, C)
  <2> SUFFICES ASSUME k + 1 \in Begins(d, C) PROVE FALSE
    BY Zenon
  <2>1. k + 1 = 1 \/ (k + 1) - 1 \in C
    BY DEF Begins
  <2> QED
    BY ONLY <1>2, <1>5, <2>1
<1>8. ASSUME NEW i \in L, i # j PROVE EndIs(d, C \cup {k}, i, p[F(d, i)].last_byte)
  <2>1. i \in Begins(d, C) /\ j \in Begins(d, C) /\ EndIs(d, C, i, p[F(d, i)].last_byte)
    BY <1>1, <1>2, Zenon
  <2> QED
    BY ONLY Zenon, <1>1, <1>2, <1>8, <2>1, EndKept, d \in Datagrams
<1> QED
  BY <1>5, <1>6, <1>7, <1>8, Zenon DEF OthersEnd

(* What is lost of the list with hole j.                                    *)
FrontLost(d, L, p, j) ==
    /\ Without(p, d, L, j) \subseteq L \ {j}
    /\ (L \ {j}) \ Without(p, d, L, j) \subseteq {1}
    /\ p[F(d, j)].prev_hole # 0 => Without(p, d, L, j) = L \ {j}
    /\ p[F(d, j)].prev_hole = 0 => \A i \in Without(p, d, L, j) : j < i

(* Of the holes before one that has none before it, by its own link, there  *)
(* is only the one at the front.                                            *)
LEMMA FrontOnly ==
  ASSUME NEW d \in Datagrams, NEW L, L \subseteq 1 .. Count(d), NEW p, Linked(d, L, p),
         NEW j \in L
  PROVE  FrontLost(d, L, p, j)
<1>1. /\ L \subseteq Nat /\ \A m, n \in L : F(d, m) = F(d, n) => m = n
      /\ \A m \in L : F(d, m) = 0 <=> m = 1
      /\ \A m \in L : 1 <= m
  BY Indices, Zenon
<1>2. ASSUME NEW i \in L, i # j, p[F(d, j)].prev_hole = 0, ~ (j < i) PROVE i = 1
  <2>1. i < j
    BY ONLY <1>1, <1>2, j \in L
  <2>2. ~ \A m \in L : j <= m
    BY ONLY <1>1, <2>1, i \in L, j \in L
  <2>3. PICK m \in L : /\ m < j /\ p[F(d, j)].prev_hole = F(d, m)
                       /\ \A n \in L : n <= m \/ j <= n
    BY <2>2, Zenon DEF Linked, PrevHoleIs
  <2>4. m = 1
    BY ONLY Zenon, <1>1, <1>2, <2>3
  <2> QED
    BY ONLY <1>1, <1>2, <2>1, <2>3, <2>4, j \in L
<1> QED
  BY <1>2, Zenon DEF Without, FrontLost

-----------------------------------------------------------------------------
(* The list once fragment k is in it: nothing is left, or there is a list.  *)
FixedList(d, C, r) ==
    /\ r.done \in BOOLEAN
    /\ r.done => Begins(d, C) \subseteq {1}
    /\ ~ r.done => \E K : List(d, C, K, r.p, r.first)

(* q is p but for where hole j ends.                                        *)
SameLinks(d, L, p, q, j) ==
    /\ DOMAIN q = 0 .. LastBlock
    /\ \A i \in L : i # j => q[F(d, i)] = p[F(d, i)]
    /\ IsDesc(q[F(d, j)])
    /\ q[F(d, j)].next_hole = p[F(d, j)].next_hole
    /\ q[F(d, j)].prev_hole = p[F(d, j)].prev_hole

(* Complete overlap.                                                        *)
LEMMA RemoveList ==
  ASSUME NEW d \in Datagrams, NEW C, NEW L, NEW p, NEW first, NEW k,
         Fills(d, C, L, p, first, k, k), k = Count(d) \/ k + 1 \in C,
         NEW q, SameLinks(d, L, p, q, k),
         NEW r, r = RemoveHole(q, first, F(d, k))
  PROVE  FixedList(d, C \cup {k}, r)
<1> DEFINE pv == p[F(d, k)].prev_hole
           nx == p[F(d, k)].next_hole
           W == Without(p, d, L, k)
<1>1. /\ L \subseteq 1 .. Count(d) /\ L \subseteq Begins(d, C) /\ Linked(d, L, p)
      /\ \A i \in L : F(d, i) \in 0 .. LastBlock /\ p[F(d, i)] \in Hole
  BY ListFacts, Zenon DEF Fills
<1>2. k \in L /\ k \in 1 .. Count(d) /\ Count(d) \in Nat
  BY CutType, Zenon DEF Fills
<1>3. Begins(d, C \cup {k}) = Begins(d, C) \ {k}
  <2>0. k \notin C /\ C \subseteq 1 .. Count(d)
    BY FillBegins, ListFacts, Zenon DEF Fills
  <2>1. Begins(d, C \cup {k}) = BeginsWith(d, C, k)
    BY Zenon, <1>2, <2>0, BeginsAdd
  <2>2. ~ (k < Count(d) /\ k + 1 \notin C)
    BY <1>2
  <2> QED
    BY ONLY <2>1, <2>2, Zenon DEF BeginsWith
<1>4. \A i \in L : i # k => EndIs(d, C \cup {k}, i, p[F(d, i)].last_byte)
  <2>1. OthersEnd(d, C, L, p, k, k)
    BY FillBegins, Zenon
  <2> QED
    BY ONLY <2>1, Zenon DEF OthersEnd
<1>5. /\ W \subseteq L \ {k} /\ (L \ {k}) \ W \subseteq {1}
      /\ pv # 0 => W = L \ {k}
      /\ pv = 0 => \A i \in W : k < i
  <2>1. FrontLost(d, L, p, k)
    BY <1>1, <1>2, FrontOnly, Zenon
  <2> QED
    BY ONLY <2>1, Zenon DEF FrontLost
<1>6. L \subseteq Nat
  BY <1>1, <1>2
<1>7. NextHoleIs(d, L, k, nx) /\ PrevHoleIs(d, L, k, pv)
  BY <1>1, <1>2, Zenon DEF Linked
<1>8. W \subseteq Begins(d, C \cup {k}) /\ Begins(d, C \cup {k}) \ W \subseteq {1}
  <2>1. Begins(d, C) \ L \subseteq {1}
    BY Zenon DEF Fills, List
  <2> QED
    BY ONLY <1>1, <1>3, <1>5, <2>1, Zenon
<1>9. Removed(r, q, first, pv, nx)
  BY RemoveFields, Zenon DEF SameLinks
<1>10. ASSUME r.done PROVE Begins(d, C \cup {k}) \subseteq {1}
  <2>1. pv = 0 /\ nx = 0
    BY <1>9, <1>10, Zenon DEF Removed
  <2>2. \A i \in L : i <= k
    <3> SUFFICES ASSUME NEW n \in L, k < n, nx = F(d, n) PROVE FALSE
      BY <1>7, Zenon DEF NextHoleIs
    <3>1. F(d, n) = 0 <=> n = 1
      BY <1>1, Indices, Zenon
    <3> QED
      BY ONLY <1>2, <2>1, <3>1, k < n, nx = F(d, n)
  <2>3. ASSUME NEW i \in W PROVE FALSE
    <3>1. k < i /\ i \in L /\ i <= k
      BY ONLY <1>5, <2>1, <2>2, <2>3, Zenon
    <3> QED
      BY ONLY <1>2, <1>6, <3>1
  <2> QED
    BY ONLY <1>8, <2>3, Zenon
<1>11. ASSUME ~ r.done PROVE List(d, C \cup {k}, W, r.p, r.first)
  <2>1. \A i \in W : r.p[F(d, i)] = Patched(p, F(d, i), pv, nx, nx, pv)
    <3> SUFFICES ASSUME NEW i \in W
                 PROVE  r.p[F(d, i)] = Patched(p, F(d, i), pv, nx, nx, pv)
      BY Zenon
    <3>1. i \in L /\ i # k
      BY <1>5, Zenon
    <3>2. q[F(d, i)] = p[F(d, i)]
      BY <3>1, Zenon DEF SameLinks
    <3>3. F(d, i) \in 0 .. LastBlock /\ IsDesc(q[F(d, i)])
      BY <1>1, <3>1, <3>2, HoleDesc, Zenon
    <3>4. r.p[F(d, i)] = Patched(q, F(d, i), pv, nx, nx, pv)
      BY <1>9, <3>3, Zenon DEF Removed
    <3> QED
      BY ONLY <3>2, <3>4, Zenon DEF Patched
  <2>2. \A i \in W : /\ r.p[F(d, i)].last_byte = p[F(d, i)].last_byte
                     /\ r.p[F(d, i)].next_hole =
                           IF F(d, i) = pv /\ pv # 0 THEN nx ELSE p[F(d, i)].next_hole
                     /\ r.p[F(d, i)].prev_hole =
                           IF F(d, i) = nx /\ nx # 0 THEN pv ELSE p[F(d, i)].prev_hole
    BY ONLY <2>1, DescFields DEF Patched
  <2>3. \A i \in W : r.p[F(d, i)] \in Hole
    <3> SUFFICES ASSUME NEW i \in W PROVE r.p[F(d, i)] \in Hole
      BY Zenon
    <3>1. p[F(d, i)] \in Hole /\ p[F(d, k)] \in Hole
      BY <1>1, <1>2, <1>5, Zenon
    <3>2. /\ p[F(d, i)].last_byte \in 0 .. Endless
          /\ p[F(d, i)].next_hole \in 0 .. LastBlock /\ p[F(d, i)].prev_hole \in 0 .. LastBlock
          /\ nx \in 0 .. LastBlock /\ pv \in 0 .. LastBlock
      BY ONLY <3>1, HoleDesc, Zenon
    <3> QED
      BY ONLY <2>1, <3>2, HoleDesc, i \in W, Zenon DEF Patched
  <2>4. Linked(d, W, r.p)
    BY <1>1, <1>2, <2>2, LinkRemove, Zenon
  <2>5. \A i \in W : EndIs(d, C \cup {k}, i, r.p[F(d, i)].last_byte)
    BY <1>4, <1>5, <2>2, Zenon
  <2>6. PICK g \in W : r.first = F(d, g) /\ \A i \in W : g <= i
    <3>1. CASE pv = 0
      <4>1. nx # 0 /\ r.first = nx
        BY <1>9, <1>11, <3>1, Zenon DEF Removed
      <4>2. PICK n \in L : k < n /\ nx = F(d, n) /\ \A i \in L : i <= k \/ n <= i
        BY <1>7, <4>1, Zenon DEF NextHoleIs
      <4>3. n \in W
        BY <4>2, <1>2, <1>6 DEF Without
      <4>4. \A i \in W : n <= i
        <5>1. \A i \in L : k < i => n <= i
          BY ONLY <1>2, <1>6, <4>2
        <5> QED
          BY ONLY <1>5, <3>1, <5>1, Zenon
      <4> QED
        BY <4>1, <4>2, <4>3, <4>4, Zenon
    <3>2. CASE pv # 0
      <4>1. r.first = first
        BY <1>9, <3>2, Zenon DEF Removed
      <4>2. PICK f \in L : first = F(d, f) /\ \A i \in L : f <= i
        BY Zenon DEF Fills, List
      <4>3. PICK m \in L : m < k
        BY <1>7, <3>2, Zenon DEF PrevHoleIs
      <4>4. f # k
        BY ONLY <1>2, <1>6, <4>2, <4>3
      <4> QED
        BY ONLY <1>5, <3>2, <4>1, <4>2, <4>4, Zenon
    <3> QED
      BY <3>1, <3>2, Zenon
  <2>7. DOMAIN r.p = 0 .. LastBlock
    BY <1>9, Zenon DEF Removed
  <2>8. List(d, C \cup {k}, W, r.p, F(d, g))
    BY <1>8, <2>3, <2>4, <2>5, <2>6, <2>7, MakeList, Zenon
  <2> QED
    BY ONLY <2>6, <2>8, Zenon
<1>12. r.done \in BOOLEAN
  BY Zenon DEF RemoveHole
<1> QED
  BY <1>10, <1>11, <1>12, Zenon DEF FixedList

(* The fragment covers the end of the hole.                                 *)
LEMMA ShrinkList ==
  ASSUME NEW d \in Datagrams, NEW C, NEW L, NEW p, NEW first, NEW k, NEW j,
         Fills(d, C, L, p, first, k, j), j # k, k = Count(d) \/ k + 1 \in C,
         NEW q, SameLinks(d, L, p, q, j),
         NEW r, r = ShrinkHole(q, first, F(d, j), Cuts[d][k])
  PROVE  FixedList(d, C \cup {k}, r)
<1>1. /\ L \subseteq 1 .. Count(d) /\ L \subseteq Begins(d, C) /\ Linked(d, L, p)
      /\ \A i \in L : F(d, i) \in 0 .. LastBlock /\ p[F(d, i)] \in Hole
  BY ListFacts, Zenon DEF Fills
<1>2. /\ j \in L /\ k \in 1 .. Count(d) /\ Count(d) \in Nat
      /\ \A i \in j .. k : i \notin C
  BY CutType, Zenon DEF Fills
<1>0. /\ k \notin C /\ C \subseteq 1 .. Count(d) /\ k \notin Begins(d, C)
      /\ k \in Nat /\ j \in Nat /\ j <= k
  <2>1. C \subseteq 1 .. Count(d)
    BY ListFacts, Zenon DEF Fills
  <2>2. k \notin C /\ k \notin Begins(d, C) /\ k \in Nat /\ j \in Nat /\ j <= k
    BY FillBegins, ZenonT(30)
  <2> QED
    BY ONLY <2>1, <2>2, Zenon
<1>3. Begins(d, C \cup {k}) = Begins(d, C)
  <2>1. Begins(d, C \cup {k}) = BeginsWith(d, C, k)
    BY Zenon, <1>0, <1>2, BeginsAdd
  <2>2. ~ (k < Count(d) /\ k + 1 \notin C)
    BY <1>2
  <2> QED
    BY ONLY <1>0, <2>1, <2>2, Zenon DEF BeginsWith
<1>4. \A i \in L : i # j => EndIs(d, C \cup {k}, i, p[F(d, i)].last_byte)
  <2>1. OthersEnd(d, C, L, p, k, j)
    BY FillBegins, Zenon
  <2> QED
    BY ONLY <2>1, Zenon DEF OthersEnd
<1>5. L \subseteq Begins(d, C \cup {k}) /\ Begins(d, C \cup {k}) \ L \subseteq {1}
  <2>1. Begins(d, C) \ L \subseteq {1}
    BY Zenon DEF Fills, List
  <2> QED
    BY ONLY <1>1, <1>3, <2>1, Zenon
<1>6. r.p = WithLast(q, F(d, j), Cuts[d][k]) /\ r.first = first /\ r.done = FALSE
  BY DEF ShrinkHole, WithLast
<1>7. /\ DOMAIN r.p = DOMAIN q
      /\ \A x \in DOMAIN q : x # F(d, j) => r.p[x] = q[x]
      /\ F(d, j) \in DOMAIN q /\ IsDesc(q[F(d, j)]) =>
            r.p[F(d, j)] = Desc(Cuts[d][k], q[F(d, j)].next_hole, q[F(d, j)].prev_hole)
  <2>1. LastSet(r.p, q, F(d, j), Cuts[d][k])
    BY ONLY <1>6, SetLast, Zenon
  <2> QED
    BY ONLY <2>1, Zenon DEF LastSet
<1>8. r.p[F(d, j)] = Desc(Cuts[d][k], p[F(d, j)].next_hole, p[F(d, j)].prev_hole)
  BY <1>1, <1>2, <1>7, Zenon DEF SameLinks
<1>9. \A i \in L : i # j => r.p[F(d, i)] = p[F(d, i)]
  <2>1. \A i \in L : F(d, i) = F(d, j) => i = j
    BY <1>1, <1>2, Indices, Zenon
  <2> QED
    BY <1>1, <1>7, <2>1, Zenon DEF SameLinks
<1>10. \A i \in L : /\ r.p[F(d, i)].next_hole = p[F(d, i)].next_hole
                    /\ r.p[F(d, i)].prev_hole = p[F(d, i)].prev_hole
  <2>1. /\ r.p[F(d, j)].next_hole = p[F(d, j)].next_hole
        /\ r.p[F(d, j)].prev_hole = p[F(d, j)].prev_hole
    BY ONLY <1>8, DescFields
  <2> QED
    BY <1>9, <2>1, Zenon
<1>11. Linked(d, L, r.p)
  BY <1>1, <1>10, Zenon DEF Linked
<1>12. \A i \in L : r.p[F(d, i)] \in Hole /\ EndIs(d, C \cup {k}, i, r.p[F(d, i)].last_byte)
  <2>1. r.p[F(d, j)] \in Hole
    <3>1. Cuts[d][k] \in 0 .. Endless
      BY <1>2, CutType
    <3>2. p[F(d, j)].next_hole \in 0 .. LastBlock /\ p[F(d, j)].prev_hole \in 0 .. LastBlock
      BY <1>1, <1>2, HoleDesc, Zenon
    <3> QED
      BY ONLY <1>8, <3>1, <3>2, HoleDesc, Zenon
  <2>2. EndIs(d, C \cup {k}, j, r.p[F(d, j)].last_byte)
    <3>1. r.p[F(d, j)].last_byte = Cuts[d][k]
      BY ONLY <1>8, DescFields
    <3>2. j < k /\ j \in 1 .. Count(d)
      BY <1>0, <1>1, <1>2
    <3>3. EndIs(d, C \cup {k}, j, Cuts[d][k])
      BY <1>2, <3>2, EndBefore, Zenon
    <3> QED
      BY ONLY <3>1, <3>3, Zenon
  <2> QED
    BY <1>1, <1>4, <1>9, <2>1, <2>2, Zenon
<1>13. PICK g \in L : first = F(d, g) /\ \A i \in L : g <= i
  BY Zenon DEF Fills, List
<1>14. DOMAIN r.p = 0 .. LastBlock
  BY <1>7, Zenon DEF SameLinks
<1>15. List(d, C \cup {k}, L, r.p, F(d, g))
  BY <1>5, <1>11, <1>12, <1>13, <1>14, MakeList, Zenon
<1> QED
  BY <1>6, <1>13, <1>15, Zenon DEF FixedList

(* Behind fragment k there is no hole before the next fragment that came.   *)
LEMMA FillAfter ==
  ASSUME NEW d \in Datagrams, NEW C, NEW L, NEW p, NEW first, NEW k, NEW j,
         Fills(d, C, L, p, first, k, j), k < Count(d), k + 1 \notin C
  PROVE  /\ k + 1 \in 1 .. Count(d) /\ k + 1 \notin L /\ j < k + 1
         /\ \A i \in L : i <= j \/ k + 1 < i
         /\ k + 1 \in Begins(d, C \cup {k})
         /\ F(d, k + 1) \in 0 .. LastBlock
         /\ \A i \in L : F(d, i) # F(d, k + 1)
         /\ F(d, k + 1) # 0
<1>1. L \subseteq 1 .. Count(d) /\ L \subseteq Begins(d, C)
  BY ListFacts, Zenon DEF Fills
<1>2. /\ j \in L /\ k \in 1 .. Count(d) /\ Count(d) \in Nat
      /\ (\A i \in j .. k : i \notin C) /\ j <= k /\ Cuts[d][k + 1] <= IP_MAXUDP
      /\ \A i \in C : Cuts[d][i + 1] <= IP_MAXUDP
  BY CutType, Zenon DEF Fills, List
<1>3. k + 1 \in 1 .. Count(d) /\ j < k + 1 /\ k \in Nat /\ j \in Nat /\ 1 <= j /\ k + 1 # 1
  BY <1>1, <1>2
<1>4. ASSUME NEW i \in L PROVE i <= j \/ k + 1 < i
  <2>1. i \in Nat /\ (i = 1 \/ i - 1 \in C)
    BY <1>1 DEF Begins
  <2>2. i - 1 # k + 1 \/ i = 1
    BY <2>1
  <2> QED
    BY ONLY <1>2, <1>3, <2>1, <2>2
<1>5. k + 1 \notin L
  BY <1>3, <1>4
<1>6. k + 1 \in Begins(d, C \cup {k})
  BY <1>2, <1>3 DEF Begins
<1>7. F(d, k + 1) \in 0 .. LastBlock
  <2>1. \A i \in C \cup {k} : Cuts[d][i + 1] <= IP_MAXUDP
    BY <1>2, Zenon
  <2> QED
    BY <1>6, <2>1, BeginInBuffer, Zenon
<1>8. \A i \in L : F(d, i) # F(d, k + 1)
  <2>1. \A i \in L : i \in 1 .. Count(d) + 1
    BY <1>1, <1>2
  <2>2. k + 1 \in 1 .. Count(d) + 1
    BY <1>2, <1>3
  <2> QED
    BY <1>5, <2>1, <2>2, FSame, Zenon
<1>9. F(d, k + 1) # 0
  <2>1. k + 1 \in 1 .. Count(d) + 1 /\ 1 \in 1 .. Count(d) + 1
    BY <1>2, <1>3
  <2>2. F(d, k + 1) = F(d, 1) <=> k + 1 = 1
    BY <2>1, FSame, Zenon
  <2> QED
    BY <1>3, <2>2, FType, Zenon
<1> QED
  BY <1>3, <1>4, <1>5, <1>6, <1>7, <1>8, <1>9, Zenon

(* The fragment covers the beginning of the hole.                           *)
LEMMA MoveList ==
  ASSUME NEW d \in Datagrams, NEW C, NEW L, NEW p, NEW first, NEW k,
         Fills(d, C, L, p, first, k, k), k < Count(d), k + 1 \notin C,
         ~ (p[F(d, k)].last_byte <= Cuts[d][k + 1]),
         NEW r, r = MoveHole(p, first, F(d, k), F(d, k + 1))
  PROVE  FixedList(d, C \cup {k}, r)
<1> DEFINE pv == p[F(d, k)].prev_hole
           nx == p[F(d, k)].next_hole
           W == Without(p, d, L, k)
           w == k + 1
           K == W \cup {w}
<1>1. /\ L \subseteq 1 .. Count(d) /\ L \subseteq Begins(d, C) /\ Linked(d, L, p)
      /\ \A i \in L : /\ F(d, i) \in 0 .. LastBlock /\ p[F(d, i)] \in Hole
                      /\ EndIs(d, C, i, p[F(d, i)].last_byte)
      /\ DOMAIN p = 0 .. LastBlock /\ C \subseteq 1 .. Count(d)
  BY ListFacts, Zenon DEF Fills
<1>2. k \in L /\ k \in 1 .. Count(d) /\ Count(d) \in Nat /\ k <= k
  BY CutType, Zenon DEF Fills
<1>a. /\ w \in 1 .. Count(d) /\ w \notin L /\ k < w /\ \A i \in L : i <= k \/ w < i
      /\ w \in Begins(d, C \cup {k}) /\ F(d, w) \in 0 .. LastBlock
      /\ (\A i \in L : F(d, i) # F(d, w)) /\ F(d, w) # 0
  BY FillAfter, Zenon
<1> HIDE DEF w
<1>0. k \notin C
  BY FillBegins, Zenon
<1>3. Begins(d, C \cup {k}) = (Begins(d, C) \ {k}) \cup {w}
  <2>1. Begins(d, C \cup {k}) = BeginsWith(d, C, k)
    BY Zenon, <1>0, <1>1, <1>2, BeginsAdd
  <2> QED
    BY ONLY <2>1, k < Count(d), k + 1 \notin C, Zenon DEF BeginsWith, w
<1>4. \A i \in L : i # k => EndIs(d, C \cup {k}, i, p[F(d, i)].last_byte)
  <2>1. OthersEnd(d, C, L, p, k, k)
    BY FillBegins, Zenon
  <2> QED
    BY ONLY <2>1, Zenon DEF OthersEnd
<1>5. /\ W \subseteq L \ {k} /\ (L \ {k}) \ W \subseteq {1}
      /\ pv # 0 => W = L \ {k}
      /\ pv = 0 => \A i \in W : k < i
  <2>1. FrontLost(d, L, p, k)
    BY <1>1, <1>2, FrontOnly, Zenon
  <2> QED
    BY ONLY <2>1, Zenon DEF FrontLost
<1>6. L \subseteq Nat /\ w \in Nat /\ k \in Nat
  BY <1>1, <1>2, <1>a
<1>7. NextHoleIs(d, L, k, nx) /\ PrevHoleIs(d, L, k, pv)
  BY <1>1, <1>2, Zenon DEF Linked
<1>8. K \subseteq Begins(d, C \cup {k}) /\ Begins(d, C \cup {k}) \ K \subseteq {1}
  <2>1. Begins(d, C) \ L \subseteq {1}
    BY Zenon DEF Fills, List
  <2> QED
    BY ONLY <1>1, <1>3, <1>5, <2>1, Zenon
<1>9. Moved(r, p, first, F(d, k), F(d, w), pv, nx)
  <2>1. IsDesc(p[F(d, k)])
    BY <1>1, <1>2, HoleDesc, Zenon
  <2>2. (pv # 0 => pv # F(d, w)) /\ (nx # 0 => nx # F(d, w))
    BY <1>7, <1>a, Zenon DEF NextHoleIs, PrevHoleIs
  <2>3. r = MoveHole(p, first, F(d, k), F(d, w))
    BY Zenon DEF w
  <2> QED
    BY <1>1, <1>a, <2>1, <2>2, <2>3, MoveFields, Zenon
<1>10. /\ DOMAIN r.p = 0 .. LastBlock /\ r.done = FALSE
       /\ r.first = IF pv # 0 THEN first ELSE F(d, w)
       /\ r.p[F(d, w)] = p[F(d, k)]
  BY ONLY <1>9, Zenon DEF Moved
<1>11. \A i \in W : r.p[F(d, i)] = Patched(p, F(d, i), pv, F(d, w), nx, F(d, w))
  <2> SUFFICES ASSUME NEW i \in W
               PROVE  r.p[F(d, i)] = Patched(p, F(d, i), pv, F(d, w), nx, F(d, w))
    BY Zenon
  <2>1. i \in L
    BY <1>5, Zenon
  <2>2. F(d, i) \in 0 .. LastBlock /\ IsDesc(p[F(d, i)]) /\ F(d, i) # F(d, w)
    BY <1>1, <1>a, <2>1, HoleDesc, Zenon
  <2> QED
    BY ONLY <1>9, <2>2, Zenon DEF Moved
<1>12. \A i \in W : /\ r.p[F(d, i)].last_byte = p[F(d, i)].last_byte
                    /\ r.p[F(d, i)].next_hole =
                          IF F(d, i) = pv /\ pv # 0 THEN F(d, w) ELSE p[F(d, i)].next_hole
                    /\ r.p[F(d, i)].prev_hole =
                          IF F(d, i) = nx /\ nx # 0 THEN F(d, w) ELSE p[F(d, i)].prev_hole
  BY ONLY <1>11, DescFields DEF Patched
<1>13. ASSUME NEW i \in W PROVE r.p[F(d, i)] \in Hole
  <2>1. p[F(d, i)] \in Hole
    BY <1>1, <1>5, Zenon
  <2>2. /\ p[F(d, i)].last_byte \in 0 .. Endless
        /\ p[F(d, i)].next_hole \in 0 .. LastBlock /\ p[F(d, i)].prev_hole \in 0 .. LastBlock
    BY ONLY <2>1, HoleDesc, Zenon
  <2> QED
    BY ONLY <1>a, <1>11, <2>2, HoleDesc, i \in W, Zenon DEF Patched
<1>14. Linked(d, K, r.p)
  <2>1. r.p[F(d, w)].next_hole = nx /\ r.p[F(d, w)].prev_hole = pv
    BY <1>10, Zenon
  <2> QED
    BY <1>1, <1>2, <1>a, <1>12, <2>1, LinkMove, Zenon
<1>15. r.p[F(d, w)] \in Hole /\ EndIs(d, C \cup {k}, w, r.p[F(d, w)].last_byte)
  <2>1. EndIs(d, C \cup {k}, k + 1, p[F(d, k)].last_byte)
    BY <1>1, <1>2, EndBehind, Zenon
  <2> QED
    BY <1>1, <1>2, <1>10, <2>1, Zenon DEF w
<1>16. \A i \in K : r.p[F(d, i)] \in Hole /\ EndIs(d, C \cup {k}, i, r.p[F(d, i)].last_byte)
  BY <1>4, <1>5, <1>12, <1>13, <1>15, Zenon
<1>17. PICK g \in K : r.first = F(d, g) /\ \A i \in K : g <= i
  <2>1. CASE pv = 0
    <3>1. \A i \in L : k < i => w <= i
      BY ONLY <1>a, <1>6
    <3>2. w <= w
      BY <1>6
    <3>3. r.first = F(d, w)
      BY ONLY <1>10, <2>1, Zenon
    <3>4. \A i \in K : w <= i
      BY ONLY <1>5, <2>1, <3>1, <3>2, Zenon
    <3> QED
      BY ONLY <3>3, <3>4, Zenon
  <2>2. CASE pv # 0
    <3>2. PICK f \in L : first = F(d, f) /\ \A i \in L : f <= i
      BY Zenon DEF Fills, List
    <3>3. PICK m \in L : m < k
      BY <1>7, <2>2, Zenon DEF PrevHoleIs
    <3>4. f # k /\ f <= w
      BY ONLY <1>2, <1>6, <1>a, <3>2, <3>3
    <3> QED
      BY ONLY <1>5, <1>10, <2>2, <3>2, <3>4, Zenon
  <2> QED
    BY <2>1, <2>2, Zenon
<1>18. List(d, C \cup {k}, K, r.p, F(d, g))
  BY <1>8, <1>10, <1>14, <1>16, <1>17, MakeList, Zenon
<1> QED
  BY ONLY <1>10, <1>17, <1>18, Zenon DEF FixedList

(* The fragment sits in the middle of the hole.                             *)
LEMMA SplitList ==
  ASSUME NEW d \in Datagrams, NEW C, NEW L, NEW p, NEW first, NEW k, NEW j,
         Fills(d, C, L, p, first, k, j), j # k, k < Count(d), k + 1 \notin C,
         ~ (p[F(d, j)].last_byte <= Cuts[d][k + 1]),
         NEW r, r = SplitHole(p, first, F(d, j), F(d, k + 1), Cuts[d][k])
  PROVE  FixedList(d, C \cup {k}, r)
<1> DEFINE pv == p[F(d, j)].prev_hole
           nx == p[F(d, j)].next_hole
           w == k + 1
           K == L \cup {w}
<1>1. /\ L \subseteq 1 .. Count(d) /\ L \subseteq Begins(d, C) /\ Linked(d, L, p)
      /\ \A i \in L : /\ F(d, i) \in 0 .. LastBlock /\ p[F(d, i)] \in Hole
                      /\ EndIs(d, C, i, p[F(d, i)].last_byte)
      /\ DOMAIN p = 0 .. LastBlock /\ C \subseteq 1 .. Count(d)
  BY ListFacts, Zenon DEF Fills
<1>2. /\ j \in L /\ k \in 1 .. Count(d) /\ Count(d) \in Nat
      /\ \A i \in j .. k : i \notin C
  BY CutType, Zenon DEF Fills
<1>a. /\ w \in 1 .. Count(d) /\ w \notin L /\ j < w /\ \A i \in L : i <= j \/ w < i
      /\ w \in Begins(d, C \cup {k}) /\ F(d, w) \in 0 .. LastBlock
      /\ (\A i \in L : F(d, i) # F(d, w)) /\ F(d, w) # 0
  BY FillAfter, Zenon
<1> HIDE DEF w
<1>0. /\ k \notin C /\ k \notin Begins(d, C) /\ k \in Nat /\ j \in Nat /\ j <= k
  BY FillBegins
<1>3. Begins(d, C \cup {k}) = Begins(d, C) \cup {w}
  <2>1. Begins(d, C \cup {k}) = BeginsWith(d, C, k)
    BY Zenon, <1>0, <1>1, <1>2, BeginsAdd
  <2> QED
    BY ONLY <1>0, <2>1, k < Count(d), k + 1 \notin C, Zenon DEF BeginsWith, w
<1>4. \A i \in L : i # j => EndIs(d, C \cup {k}, i, p[F(d, i)].last_byte)
  <2>1. OthersEnd(d, C, L, p, k, j)
    BY FillBegins, Zenon
  <2> QED
    BY ONLY <2>1, Zenon DEF OthersEnd
<1>6. L \subseteq Nat /\ w \in Nat
  BY <1>1, <1>2, <1>a
<1>7. NextHoleIs(d, L, j, nx) /\ PrevHoleIs(d, L, j, pv)
  BY <1>1, <1>2, Zenon DEF Linked
<1>8. K \subseteq Begins(d, C \cup {k}) /\ Begins(d, C \cup {k}) \ K \subseteq {1}
  <2>1. Begins(d, C) \ L \subseteq {1}
    BY Zenon DEF Fills, List
  <2> QED
    BY ONLY <1>1, <1>3, <2>1, Zenon
<1>9. Halved(r, p, first, F(d, j), F(d, w), Cuts[d][k], pv, nx)
  <2>1. IsDesc(p[F(d, j)]) /\ F(d, j) # F(d, w)
    BY <1>1, <1>2, <1>a, HoleDesc, Zenon
  <2>2. nx # 0 => nx # F(d, w) /\ nx # F(d, j)
    <3> SUFFICES ASSUME nx # 0 PROVE nx # F(d, w) /\ nx # F(d, j)
      BY Zenon
    <3>1. PICK n \in L : j < n /\ nx = F(d, n)
      BY <1>7, Zenon DEF NextHoleIs
    <3>2. n # j
      BY <1>0, <3>1
    <3>3. F(d, n) # F(d, j)
      BY <1>1, <1>2, <3>2, Indices, Zenon
    <3> QED
      BY <1>a, <3>1, <3>3, Zenon
  <2>3. r = SplitHole(p, first, F(d, j), F(d, w), Cuts[d][k])
    BY Zenon DEF w
  <2> QED
    BY <1>1, <1>2, <1>a, <2>1, <2>2, <2>3, SplitFields, Zenon
<1>10. /\ DOMAIN r.p = 0 .. LastBlock /\ r.done = FALSE /\ r.first = first
       /\ r.p[F(d, w)] = Desc(p[F(d, j)].last_byte, nx, F(d, j))
       /\ r.p[F(d, j)] = Desc(Cuts[d][k], F(d, w), pv)
  BY ONLY <1>9, Zenon DEF Halved
<1>11. ASSUME NEW i \in L \ {j}
       PROVE  r.p[F(d, i)] = Patched(p, F(d, i), 0, 0, nx, F(d, w))
  <2>1. i \in L /\ i # j
    BY Zenon
  <2>2. F(d, i) \in 0 .. LastBlock /\ IsDesc(p[F(d, i)]) /\ F(d, i) # F(d, w)
    BY <1>1, <1>a, <2>1, HoleDesc, Zenon
  <2>3. F(d, i) # F(d, j)
    BY <1>1, <1>2, <2>1, Indices, Zenon
  <2> QED
    BY ONLY <1>9, <2>2, <2>3, Zenon DEF Halved
<1>12. \A i \in L \ {j} :
          /\ r.p[F(d, i)].last_byte = p[F(d, i)].last_byte
          /\ r.p[F(d, i)].next_hole = p[F(d, i)].next_hole
          /\ r.p[F(d, i)].prev_hole =
                IF F(d, i) = nx /\ nx # 0 THEN F(d, w) ELSE p[F(d, i)].prev_hole
  BY ONLY <1>11, DescFields DEF Patched
<1>13. ASSUME NEW i \in L \ {j} PROVE r.p[F(d, i)] \in Hole
  <2>1. p[F(d, i)] \in Hole
    BY <1>1, Zenon
  <2>2. /\ p[F(d, i)].last_byte \in 0 .. Endless
        /\ p[F(d, i)].next_hole \in 0 .. LastBlock /\ p[F(d, i)].prev_hole \in 0 .. LastBlock
    BY ONLY <2>1, HoleDesc, Zenon
  <2> QED
    BY ONLY <1>a, <1>11, <2>2, HoleDesc, i \in L \ {j}, ZenonT(30) DEF Patched
<1>b. /\ r.p[F(d, w)].next_hole = nx /\ r.p[F(d, w)].prev_hole = F(d, j)
      /\ r.p[F(d, j)].next_hole = F(d, w) /\ r.p[F(d, j)].prev_hole = pv
      /\ r.p[F(d, w)].last_byte = p[F(d, j)].last_byte
      /\ r.p[F(d, j)].last_byte = Cuts[d][k]
  BY ONLY <1>10, DescFields
<1>14. Linked(d, K, r.p)
  <2>1. \A i \in L \ {j} :
           /\ r.p[F(d, i)].next_hole = p[F(d, i)].next_hole
           /\ r.p[F(d, i)].prev_hole =
                 IF F(d, i) = p[F(d, j)].next_hole /\ p[F(d, j)].next_hole # 0
                 THEN F(d, w) ELSE p[F(d, i)].prev_hole
    BY ONLY <1>12, Zenon
  <2>2. SplitLinks(d, L, p, j, w, r.p)
    BY ONLY <1>b, <2>1, Zenon DEF SplitLinks
  <2> QED
    BY <1>1, <1>2, <1>a, <2>2, LinkSplit, Zenon
<1>15. r.p[F(d, w)] \in Hole /\ EndIs(d, C \cup {k}, w, r.p[F(d, w)].last_byte)
  <2>0. j \in 1 .. Count(d) /\ EndIs(d, C, j, p[F(d, j)].last_byte)
    BY <1>1, <1>2, Zenon
  <2>1. EndIs(d, C \cup {k}, k + 1, p[F(d, j)].last_byte)
    BY <1>0, <1>1, <1>2, <2>0, EndBehind, Zenon
  <2>2. /\ p[F(d, j)].last_byte \in 0 .. Endless /\ nx \in 0 .. LastBlock
        /\ F(d, j) \in 0 .. LastBlock
    BY <1>1, <1>2, HoleDesc, Zenon
  <2>3. r.p[F(d, w)] \in Hole
    BY ONLY <1>10, <2>2, HoleDesc, Zenon
  <2> QED
    BY ONLY <1>b, <2>1, <2>3, Zenon DEF w
<1>c. r.p[F(d, j)] \in Hole /\ EndIs(d, C \cup {k}, j, r.p[F(d, j)].last_byte)
  <2>1. Cuts[d][k] \in 0 .. Endless
    BY <1>2, CutType
  <2>2. pv \in 0 .. LastBlock
    BY <1>1, <1>2, HoleDesc, Zenon
  <2>3. r.p[F(d, j)] \in Hole
    BY ONLY <1>10, <1>a, <2>1, <2>2, HoleDesc, Zenon
  <2>4. j < k /\ j \in 1 .. Count(d)
    BY <1>0, <1>1, <1>2
  <2>5. EndIs(d, C \cup {k}, j, Cuts[d][k])
    BY <1>2, <2>4, EndBefore, Zenon
  <2> QED
    BY ONLY <1>b, <2>3, <2>5, Zenon
<1>16. \A i \in K : r.p[F(d, i)] \in Hole /\ EndIs(d, C \cup {k}, i, r.p[F(d, i)].last_byte)
  <2>1. \A i \in L \ {j} : EndIs(d, C \cup {k}, i, r.p[F(d, i)].last_byte)
    BY ONLY <1>4, <1>12, Zenon
  <2>2. \A i \in K : i = j \/ i = w \/ i \in L \ {j}
    BY Zenon
  <2> QED
    BY ONLY <1>13, <1>15, <1>c, <2>1, <2>2, Zenon
<1>17. PICK g \in K : r.first = F(d, g) /\ \A i \in K : g <= i
  <2>1. PICK f \in L : first = F(d, f) /\ \A i \in L : f <= i
    BY Zenon DEF Fills, List
  <2>2. f <= w
    BY <1>2, <1>6, <1>a, <2>1
  <2> QED
    BY ONLY <1>10, <2>1, <2>2, Zenon
<1>18. List(d, C \cup {k}, K, r.p, F(d, g))
  BY <1>8, <1>10, <1>14, <1>16, <1>17, MakeList, Zenon
<1> QED
  BY ONLY <1>10, <1>17, <1>18, Zenon DEF FixedList

(* A hole ends with fragment k just when the next one came.                 *)
LEMMA EndAt ==
  ASSUME NEW d \in Datagrams, NEW C, C \subseteq 1 .. Count(d), NEW j \in 1 .. Count(d),
         NEW k \in 1 .. Count(d), j <= k, k < Count(d), \A i \in j .. k : i \notin C,
         NEW b, EndIs(d, C, j, b)
  PROVE  b <= Cuts[d][k + 1] <=> k + 1 \in C
<1>1. /\ Count(d) \in Nat /\ k \in Nat /\ j \in Nat /\ C \subseteq Nat
      /\ k + 1 \in 1 .. Count(d) + 1 /\ k + 2 \in 1 .. Count(d) + 1 /\ k + 1 \in j .. Count(d)
  BY CutType
<1>2. CASE b = Endless /\ \A m \in j .. Count(d) : m \notin C
  <2>1. /\ Cuts[d][k + 1] < Cuts[d][k + 2] /\ Cuts[d][k + 2] \in 0 .. Endless
        /\ Cuts[d][k + 1] \in 0 .. Endless
    BY <1>1, CutType
  <2> QED
    BY ONLY <1>1, <1>2, <2>1, EndlessNat
<1>3. ASSUME NEW e \in C, j < e, b = Cuts[d][e], \A m \in j .. e - 1 : m \notin C
      PROVE  b <= Cuts[d][k + 1] <=> k + 1 \in C
  <2>1. e \in 1 .. Count(d) + 1 /\ e \in Nat
    BY <1>1
  <2>2. Cuts[d][e] <= Cuts[d][k + 1] <=> e <= k + 1
    BY <1>1, <2>1, FSame, Zenon
  <2>3. e <= k + 1 <=> k + 1 \in C
    <3>1. ~ (e \in j .. k)
      BY Zenon
    <3>2. k + 1 < e => k + 1 \notin C
      BY ONLY <1>1, <1>3, <2>1, j <= k
    <3>3. e = k + 1 \/ k + 1 < e
      BY ONLY <1>1, <1>3, <2>1, <3>1
    <3> QED
      BY ONLY <1>1, <1>3, <2>1, <3>2, <3>3
  <2> QED
    BY ONLY <1>3, <2>2, <2>3, Zenon
<1> QED
  BY <1>2, <1>3, Zenon DEF EndIs

(* It has the links of p.                                                   *)
GivenIs(d, L, p, q, k, j) ==
    /\ SameLinks(d, L, p, q, j)
    /\ \A x \in 0 .. LastBlock : x # F(d, j) => q[x] = p[x]
    /\ k < Count(d) => q = p
    /\ ~ (k < Count(d)) => q[F(d, j)].last_byte = Cuts[d][k + 1]

(* Only an end changes.                                                     *)
LEMMA GivenLinks ==
  ASSUME NEW d \in Datagrams, NEW C, NEW L, NEW p, NEW first, List(d, C, L, p, first),
         NEW k, NEW j \in L, NEW q, q = Given(d, p, k, j)
  PROVE  GivenIs(d, L, p, q, k, j)
<1>1. /\ DOMAIN p = 0 .. LastBlock /\ L \subseteq 1 .. Count(d)
      /\ \A i \in L : F(d, i) \in 0 .. LastBlock /\ p[F(d, i)] \in Hole
  BY ListFacts, Zenon
<1>2. IsDesc(p[F(d, j)])
  BY <1>1, HoleDesc, Zenon
<1>3. CASE k < Count(d)
  BY <1>1, <1>2, <1>3, Zenon DEF Given, SameLinks, GivenIs
<1>4. CASE ~ (k < Count(d))
  <2>1. LastSet(q, p, F(d, j), Cuts[d][k + 1])
    BY <1>4, SetLast, Zenon DEF Given
  <2>2. /\ DOMAIN q = 0 .. LastBlock
        /\ \A x \in 0 .. LastBlock : x # F(d, j) => q[x] = p[x]
        /\ q[F(d, j)] = Desc(Cuts[d][k + 1], p[F(d, j)].next_hole, p[F(d, j)].prev_hole)
    BY <1>1, <1>2, <2>1, Zenon DEF LastSet
  <2>3. /\ IsDesc(q[F(d, j)]) /\ q[F(d, j)].next_hole = p[F(d, j)].next_hole
        /\ q[F(d, j)].prev_hole = p[F(d, j)].prev_hole
        /\ q[F(d, j)].last_byte = Cuts[d][k + 1]
    BY ONLY <2>2, DescFields
  <2>4. \A i \in L : i # j => F(d, i) # F(d, j)
    BY <1>1, Indices, Zenon
  <2> QED
    BY <1>1, <1>4, <2>2, <2>3, <2>4, Zenon DEF SameLinks, GivenIs
<1> QED
  BY <1>3, <1>4, Zenon

(* The cases of FixHoles, for a fragment of a datagram.                     *)
LEMMA FixCases ==
  ASSUME NEW d \in Datagrams, NEW k \in 1 .. Count(d), NEW j \in 1 .. Count(d), j <= k,
         NEW q, NEW from, NEW r, r = FixHoles(q, from, F(d, j), Fragment(d, k)),
         q[F(d, j)].last_byte \in Nat,
         NEW c, c <=> q[F(d, j)].last_byte <= Cuts[d][k + 1], c \/ k < Count(d)
  PROVE  r = IF c THEN IF j = k THEN RemoveHole(q, from, F(d, j))
                                ELSE ShrinkHole(q, from, F(d, j), Cuts[d][k])
                  ELSE IF j = k THEN MoveHole(q, from, F(d, j), F(d, k + 1))
                                ELSE SplitHole(q, from, F(d, j), F(d, k + 1), Cuts[d][k])
<1> DEFINE f == Fragment(d, k)
           h == F(d, j)
<1>1. /\ f.offset8 = F(d, k) /\ f.offset8 * 8 = Cuts[d][k]
      /\ f.offset8 * 8 + f.len = Cuts[d][k + 1]
      /\ f.more <=> k < Count(d)
      /\ f.more => f.offset8 + f.len \div 8 = F(d, k + 1)
  BY FragmentIs
<1>2. (h >= F(d, k) <=> j = k) /\ (h < F(d, k) <=> j # k)
  <2>1. /\ j \in 1 .. Count(d) + 1 /\ k \in 1 .. Count(d) + 1 /\ j \in Nat /\ k \in Nat
        /\ F(d, j) \in Nat /\ F(d, k) \in Nat
    BY CutType, FType
  <2>2. F(d, k) <= F(d, j) <=> k <= j
    BY <2>1, FSame, Zenon
  <2> QED
    BY <2>1, <2>2
<1> HIDE DEF f, h
<1>3. r = FixHoles(q, from, h, f)
  BY Zenon DEF f, h
<1>8. /\ q[h].last_byte <= f.offset8 * 8 + f.len <=> c
      /\ q[h].last_byte > f.offset8 * 8 + f.len <=> ~c
      /\ h >= f.offset8 <=> j = k
      /\ h < f.offset8 <=> j # k
  <2>1. Cuts[d][k + 1] \in Nat /\ k + 1 \in 1 .. Count(d) + 1
    BY CutType
  <2>2. q[h].last_byte > Cuts[d][k + 1] <=> ~c
    BY <2>1 DEF h
  <2> QED
    BY ONLY <1>1, <1>2, <2>2, c <=> q[F(d, j)].last_byte <= Cuts[d][k + 1], Zenon DEF h
<1>4. CASE c /\ j = k
  <2>2. FixHoles(q, from, h, f) = RemoveHole(q, from, h)
    BY ONLY <1>4, <1>8, Zenon DEF FixHoles
  <2> QED
    BY ONLY <1>3, <1>4, <2>2, Zenon DEF h
<1>5. CASE c /\ j # k
  <2>2. FixHoles(q, from, h, f) = ShrinkHole(q, from, h, f.offset8 * 8)
    BY ONLY <1>5, <1>8, Zenon DEF FixHoles
  <2> QED
    BY ONLY <1>1, <1>3, <1>5, <2>2, Zenon DEF h
<1>6. CASE ~c /\ j = k
  <2>1. f.offset8 + f.len \div 8 = F(d, k + 1)
    BY ONLY <1>1, <1>6, c \/ k < Count(d), Zenon
  <2>2. FixHoles(q, from, h, f) = MoveHole(q, from, h, f.offset8 + f.len \div 8)
    BY ONLY <1>6, <1>8, Zenon DEF FixHoles
  <2> QED
    BY ONLY <1>3, <1>6, <2>1, <2>2, Zenon DEF h
<1>7. CASE ~c /\ j # k
  <2>1. f.offset8 + f.len \div 8 = F(d, k + 1)
    BY ONLY <1>1, <1>7, c \/ k < Count(d), Zenon
  <2>2. FixHoles(q, from, h, f) =
           SplitHole(q, from, h, f.offset8 + f.len \div 8, f.offset8 * 8)
    BY ONLY <1>7, <1>8, Zenon DEF FixHoles
  <2> QED
    BY ONLY <1>1, <1>3, <1>7, <2>1, <2>2, Zenon DEF h
<1> QED
  BY <1>4, <1>5, <1>6, <1>7, Zenon

-----------------------------------------------------------------------------
(* FixHoles writes the descriptors of holes and nothing else.               *)
Keeps(r, p, x) == r[x] = p[x] /\ DOMAIN r = DOMAIN p

(* A descriptor is written at one place.                                    *)
LEMMA SetKeeps ==
  ASSUME NEW p, NEW a, NEW v, NEW x \in DOMAIN p, x # a
  PROVE  /\ Keeps(WithNext(p, a, v), p, x) /\ Keeps(WithPrev(p, a, v), p, x)
         /\ Keeps(WithLast(p, a, v), p, x)
BY DEF WithNext, WithPrev, WithLast, Keeps

KeptAt(r, q, x) == r.p[x] = q[x]

(* Neither a hole nor a neighbour of hole h is described at x.              *)
Beside(q, h, x) ==
    /\ x \in DOMAIN q /\ x # h
    /\ q[h].next_hole # 0 => x # q[h].next_hole
    /\ q[h].prev_hole # 0 => x # q[h].prev_hole

(* RemoveHole writes beside x, ...                                          *)
LEMMA RemoveKeeps ==
  ASSUME NEW q, NEW from, NEW h, NEW x, Beside(q, h, x),
         NEW r, r = RemoveHole(q, from, h)
  PROVE  KeptAt(r, q, x)
<1> SUFFICES r.p[x] = q[x]
  BY Zenon DEF KeptAt
<1> DEFINE pv == q[h].prev_hole
           nx == q[h].next_hole
           m == WithPrev(q, nx, pv)
<1>0. x \in DOMAIN q /\ (nx # 0 => x # nx) /\ (pv # 0 => x # pv)
  BY Zenon DEF Beside
<1>1. CASE pv = 0 /\ nx = 0
  <2>1. r.p = q
    BY <1>1 DEF RemoveHole
  <2> QED
    BY <2>1
<1>2. CASE pv = 0 /\ nx # 0
  <2>1. r.p = WithPrev(q, nx, 0)
    BY Zenon, <1>2 DEF RemoveHole, WithPrev
  <2>2. Keeps(WithPrev(q, nx, 0), q, x)
    BY <1>0, <1>2, SetKeeps, Zenon
  <2> QED
    BY ONLY <2>1, <2>2, Zenon DEF Keeps
<1>3. CASE pv # 0 /\ nx = 0
  <2>1. r.p = WithNext(q, pv, 0)
    BY Zenon, <1>3 DEF RemoveHole, WithNext
  <2>2. Keeps(WithNext(q, pv, 0), q, x)
    BY <1>0, <1>3, SetKeeps, Zenon
  <2> QED
    BY ONLY <2>1, <2>2, Zenon DEF Keeps
<1>4. CASE pv # 0 /\ nx # 0
  <2>1. r.p = WithNext(m, pv, nx)
    BY <1>4 DEF RemoveHole, WithNext, WithPrev
  <2>2. Keeps(m, q, x)
    BY <1>0, <1>4, SetKeeps, Zenon
  <2> HIDE DEF m
  <2>3. x \in DOMAIN m
    BY ONLY <1>0, <2>2, Zenon DEF Keeps
  <2>4. Keeps(WithNext(m, pv, nx), m, x)
    BY <1>0, <1>4, <2>3, SetKeeps, Zenon
  <2> QED
    BY ONLY <2>1, <2>2, <2>4, Zenon DEF Keeps
<1> QED
  BY <1>1, <1>2, <1>3, <1>4, Zenon

(* ... so does MoveHole ...                                                 *)
LEMMA MoveKeeps ==
  ASSUME NEW q, NEW from, NEW h, NEW x, Beside(q, h, x), NEW newh \in DOMAIN q, x # newh,
         q[h].next_hole # 0 => q[h].next_hole # newh,
         NEW r, r = MoveHole(q, from, h, newh)
  PROVE  KeptAt(r, q, x)
<1> SUFFICES r.p[x] = q[x]
  BY Zenon DEF KeptAt
<1> DEFINE m == [q EXCEPT ![newh] = q[h]]
           n == IF m[newh].next_hole # 0 THEN WithPrev(m, m[newh].next_hole, newh) ELSE m
<1>0. /\ x \in DOMAIN q /\ (q[h].next_hole # 0 => x # q[h].next_hole)
      /\ q[h].prev_hole # 0 => x # q[h].prev_hole
  BY Zenon DEF Beside
<1>1. DOMAIN m = DOMAIN q /\ m[newh] = q[h] /\ m[x] = q[x]
  BY <1>0
<1>2. r = IF n[newh].prev_hole # 0
          THEN [p |-> WithNext(n, n[newh].prev_hole, newh), first |-> from, done |-> FALSE]
          ELSE [p |-> n, first |-> newh, done |-> FALSE]
  BY Zenon DEF MoveHole, WithNext, WithPrev
<1>3. n = IF q[h].next_hole # 0 THEN WithPrev(m, q[h].next_hole, newh) ELSE m
  BY <1>1, Zenon
<1> HIDE DEF m, n
<1>4. DOMAIN n = DOMAIN q /\ n[newh] = q[h] /\ n[x] = q[x]
  <2>1. CASE q[h].next_hole # 0
    <3>1. n = WithPrev(m, q[h].next_hole, newh)
      BY <1>3, <2>1, Zenon
    <3>2. Keeps(WithPrev(m, q[h].next_hole, newh), m, newh)
      <4>1. newh \in DOMAIN m
        BY <1>1, Zenon
      <4> QED
        BY <2>1, <4>1, SetKeeps, Zenon
    <3>3. Keeps(WithPrev(m, q[h].next_hole, newh), m, x)
      <4>1. x \in DOMAIN m
        BY <1>0, <1>1, Zenon
      <4> QED
        BY <1>0, <2>1, <4>1, SetKeeps, Zenon
    <3> QED
      BY ONLY <1>1, <3>1, <3>2, <3>3, Zenon DEF Keeps
  <2>2. CASE q[h].next_hole = 0
    BY <1>1, <1>3, <2>2, Zenon
  <2> QED
    BY <2>1, <2>2, Zenon
<1>5. r = IF q[h].prev_hole # 0
          THEN [p |-> WithNext(n, q[h].prev_hole, newh), first |-> from, done |-> FALSE]
          ELSE [p |-> n, first |-> newh, done |-> FALSE]
  BY ONLY <1>2, <1>4, Zenon
<1>6. r.p = IF q[h].prev_hole # 0 THEN WithNext(n, q[h].prev_hole, newh) ELSE n
  BY ONLY <1>5
<1>7. CASE q[h].prev_hole # 0
  <2>1. r.p = WithNext(n, q[h].prev_hole, newh)
    BY <1>6, <1>7, Zenon
  <2>2. Keeps(WithNext(n, q[h].prev_hole, newh), n, x)
    <3>1. x \in DOMAIN n
      BY <1>0, <1>4, Zenon
    <3> QED
      BY <1>0, <1>7, <3>1, SetKeeps, Zenon
  <2> QED
    BY ONLY <1>4, <2>1, <2>2, Zenon DEF Keeps
<1>8. CASE q[h].prev_hole = 0
  BY <1>4, <1>6, <1>8, Zenon
<1> QED
  BY <1>7, <1>8, Zenon

(* ... and SplitHole.                                                       *)
LEMMA SplitKeeps ==
  ASSUME NEW q, NEW from, NEW h \in DOMAIN q, NEW x, Beside(q, h, x),
         NEW newh \in DOMAIN q, x # newh, h # newh, IsDesc(q[h]), NEW start,
         NEW r, r = SplitHole(q, from, h, newh, start)
  PROVE  KeptAt(r, q, x)
<1> SUFFICES r.p[x] = q[x]
  BY Zenon DEF KeptAt
<1> DEFINE m0 == [q EXCEPT ![newh] = [q[h] EXCEPT !.prev_hole = h]]
           m1 == [m0 EXCEPT ![h].last_byte = start]
           m == [m1 EXCEPT ![h].next_hole = newh]
<1>0. x \in DOMAIN q /\ x # h /\ (q[h].next_hole # 0 => x # q[h].next_hole)
  BY Zenon DEF Beside
<1>1. r = [p |-> IF m[newh].next_hole # 0 THEN WithPrev(m, m[newh].next_hole, newh) ELSE m,
           first |-> from, done |-> FALSE]
  BY Zenon DEF SplitHole, WithPrev
<1>a. DOMAIN m0 = DOMAIN q /\ m0[newh] = [q[h] EXCEPT !.prev_hole = h] /\ m0[x] = q[x]
  BY <1>0
<1> HIDE DEF m0
<1>b. DOMAIN m1 = DOMAIN m0 /\ m1[newh] = m0[newh] /\ m1[x] = m0[x]
  BY <1>0, <1>a
<1> HIDE DEF m1
<1>c. DOMAIN m = DOMAIN m1 /\ m[newh] = m1[newh] /\ m[x] = m1[x]
  BY SMTT(30), <1>0, <1>a, <1>b
<1> HIDE DEF m
<1>2. DOMAIN m = DOMAIN q /\ m[newh] = [q[h] EXCEPT !.prev_hole = h] /\ m[x] = q[x]
  BY ONLY <1>a, <1>b, <1>c, Zenon
<1>3. m[newh].next_hole = q[h].next_hole
  <2>1. [q[h] EXCEPT !.prev_hole = h] = Desc(q[h].last_byte, q[h].next_hole, h)
    BY ONLY IsDesc(q[h]) DEF IsDesc, Desc
  <2> QED
    BY ONLY <1>2, <2>1, DescFields
<1>4. r.p = IF q[h].next_hole # 0 THEN WithPrev(m, q[h].next_hole, newh) ELSE m
  BY ONLY <1>1, <1>3
<1>5. CASE q[h].next_hole # 0
  <2>1. r.p = WithPrev(m, q[h].next_hole, newh)
    BY <1>4, <1>5, Zenon
  <2>2. Keeps(WithPrev(m, q[h].next_hole, newh), m, x)
    <3>1. x \in DOMAIN m
      BY <1>0, <1>2, Zenon
    <3> QED
      BY <1>0, <1>5, <3>1, SetKeeps, Zenon
  <2> QED
    BY ONLY <1>2, <2>1, <2>2, Zenon DEF Keeps
<1>6. CASE q[h].next_hole = 0
  BY <1>2, <1>4, <1>6, Zenon
<1> QED
  BY <1>5, <1>6, Zenon

(* The domain of the buffer.                                                *)
SameDomain(r, q) == DOMAIN r.p = DOMAIN q

(* It never changes.                                                        *)
LEMMA FixDomain ==
  ASSUME NEW q, NEW from, NEW h, NEW newh, NEW start
  PROVE  /\ SameDomain(RemoveHole(q, from, h), q)
         /\ SameDomain(ShrinkHole(q, from, h, start), q)
         /\ SameDomain(MoveHole(q, from, h, newh), q)
         /\ SameDomain(SplitHole(q, from, h, newh, start), q)
<1>1. SameDomain(RemoveHole(q, from, h), q)
  BY DEF RemoveHole, SameDomain
<1>2. SameDomain(ShrinkHole(q, from, h, start), q)
  BY DEF ShrinkHole, SameDomain
<1>3. SameDomain(MoveHole(q, from, h, newh), q)
  BY DEF MoveHole, SameDomain
<1>4. SameDomain(SplitHole(q, from, h, newh, start), q)
  BY DEF SplitHole, SameDomain
<1> QED
  BY <1>1, <1>2, <1>3, <1>4, Zenon

(* So it is with each way to fix the list.                                  *)
LEMMA KeepsData ==
  ASSUME NEW d \in Datagrams, NEW C, NEW L, NEW p, NEW first, List(d, C, L, p, first),
         NEW j \in L, NEW k, NEW q, GivenIs(d, L, p, q, k, j), NEW s, NEW r,
         \/ r = RemoveHole(q, first, F(d, j))
         \/ r = ShrinkHole(q, first, F(d, j), s)
         \/ /\ k + 1 \in 1 .. Count(d) /\ k + 1 \notin C /\ F(d, k + 1) \in 0 .. LastBlock
            /\ \A i \in L : F(d, i) # F(d, k + 1)
            /\ \/ r = MoveHole(q, first, F(d, j), F(d, k + 1))
               \/ r = SplitHole(q, first, F(d, j), F(d, k + 1), s)
  PROVE  FixedKeeps(d, C, p, r)
<1> DEFINE h == F(d, j)
<1>1. /\ L \subseteq 1 .. Count(d) /\ L \subseteq Begins(d, C) /\ Linked(d, L, p)
      /\ h \in 0 .. LastBlock
  BY ListFacts, Zenon
<1>2. /\ DOMAIN q = 0 .. LastBlock /\ IsDesc(q[h])
      /\ q[h].next_hole = p[h].next_hole /\ q[h].prev_hole = p[h].prev_hole
      /\ \A x \in 0 .. LastBlock : x # h => q[x] = p[x]
  BY Zenon DEF GivenIs, SameLinks
<1>3. \A i \in L : i \notin C
  BY <1>1, Zenon DEF Begins
<1>4. /\ q[h].next_hole # 0 => \E i \in L : q[h].next_hole = F(d, i)
      /\ q[h].prev_hole # 0 => \E i \in L : q[h].prev_hole = F(d, i)
  <2>1. NextHoleIs(d, L, j, p[h].next_hole) /\ PrevHoleIs(d, L, j, p[h].prev_hole)
    BY <1>1, Zenon DEF Linked
  <2> HIDE DEF h
  <2>2. /\ p[h].next_hole # 0 => \E i \in L : p[h].next_hole = F(d, i)
        /\ p[h].prev_hole # 0 => \E i \in L : p[h].prev_hole = F(d, i)
    BY ONLY <2>1, Zenon DEF NextHoleIs, PrevHoleIs
  <2> QED
    BY ONLY <1>2, <2>2
<1>5. DOMAIN r.p = 0 .. LastBlock
  <2>1. \/ r = RemoveHole(q, first, h) \/ r = ShrinkHole(q, first, h, s)
        \/ r = MoveHole(q, first, h, F(d, k + 1)) \/ r = SplitHole(q, first, h, F(d, k + 1), s)
    BY Zenon
  <2> HIDE DEF h
  <2>2. SameDomain(r, q)
    BY ONLY <2>1, FixDomain, Zenon
  <2> QED
    BY ONLY <1>2, <2>2, Zenon DEF SameDomain
<1>6. ASSUME NEW x \in 0 .. LastBlock, \A i \in 1 .. Count(d) : i \notin C => x # F(d, i)
      PROVE  r.p[x] = p[x]
  <2>1. \A i \in L : x # F(d, i)
    BY <1>1, <1>3, <1>6, Zenon
  <2>2. Beside(q, h, x) /\ q[x] = p[x]
    BY <1>2, <1>4, <2>1, Zenon DEF Beside
  <2> HIDE DEF h
  <2>3. CASE r = RemoveHole(q, first, h)
    <3>1. KeptAt(r, q, x)
      BY <2>2, <2>3, RemoveKeeps, Zenon
    <3> QED
      BY ONLY <2>2, <3>1, Zenon DEF KeptAt
  <2>4. CASE r = ShrinkHole(q, first, h, s)
    <3>1. r.p = WithLast(q, h, s)
      BY <2>4 DEF ShrinkHole, WithLast
    <3>2. Keeps(WithLast(q, h, s), q, x)
      BY <2>2, SetKeeps, Zenon DEF Beside
    <3> QED
      BY ONLY <2>2, <3>1, <3>2, Zenon DEF Keeps
  <2>5. CASE /\ k + 1 \in 1 .. Count(d) /\ k + 1 \notin C /\ F(d, k + 1) \in 0 .. LastBlock
             /\ \A i \in L : F(d, i) # F(d, k + 1)
             /\ \/ r = MoveHole(q, first, h, F(d, k + 1))
                \/ r = SplitHole(q, first, h, F(d, k + 1), s)
    <3>1. /\ x # F(d, k + 1) /\ h # F(d, k + 1) /\ F(d, k + 1) \in DOMAIN q /\ h \in DOMAIN q
          /\ q[h].next_hole # 0 => q[h].next_hole # F(d, k + 1)
      BY <1>1, <1>2, <1>4, <1>6, <2>5, Zenon DEF h
    <3>2. CASE r = MoveHole(q, first, h, F(d, k + 1))
      <4>1. KeptAt(r, q, x)
        BY <2>2, <3>1, <3>2, MoveKeeps, Zenon
      <4> QED
        BY ONLY <2>2, <4>1, Zenon DEF KeptAt
    <3>3. CASE r = SplitHole(q, first, h, F(d, k + 1), s)
      <4>1. KeptAt(r, q, x)
        BY <1>2, <2>2, <3>1, <3>3, SplitKeeps, Zenon
      <4> QED
        BY ONLY <2>2, <4>1, Zenon DEF KeptAt
    <3> QED
      BY <2>5, <3>2, <3>3, Zenon
  <2> QED
    BY <2>3, <2>4, <2>5, Zenon DEF h
<1> QED
  BY <1>5, <1>6, Zenon DEF FixedKeeps

(* A fragment that lies in a hole: the list is that of the holes left.      *)
LEMMA FixNew ==
  ASSUME NEW d \in Datagrams, NEW C, NEW L, NEW p, NEW first, NEW k, NEW j,
         Fills(d, C, L, p, first, k, j),
         NEW r, r = FixHoles(Given(d, p, k, j), first, F(d, j), Fragment(d, k))
  PROVE  FixedList(d, C \cup {k}, r) /\ FixedKeeps(d, C, p, r)
<1> DEFINE q == Given(d, p, k, j)
           b == p[F(d, j)].last_byte
           c == k = Count(d) \/ k + 1 \in C
<1>1. /\ L \subseteq 1 .. Count(d) /\ C \subseteq 1 .. Count(d)
      /\ \A i \in L : p[F(d, i)] \in Hole /\ EndIs(d, C, i, p[F(d, i)].last_byte)
  BY ListFacts, Zenon DEF Fills
<1>2. /\ j \in L /\ k \in 1 .. Count(d) /\ j <= k /\ List(d, C, L, p, first)
      /\ \A i \in j .. k : i \notin C
  BY Zenon DEF Fills
<1>3. /\ SameLinks(d, L, p, q, j)
      /\ k < Count(d) => q = p
      /\ ~ (k < Count(d)) => q[F(d, j)].last_byte = Cuts[d][k + 1]
  <2>1. GivenIs(d, L, p, q, k, j)
    BY <1>2, GivenLinks, Zenon
  <2> QED
    BY ONLY <2>1, Zenon DEF GivenIs
<1>4. Count(d) \in Nat /\ k + 1 \in 1 .. Count(d) + 1 /\ Cuts[d][k + 1] \in Nat
  BY <1>2, CutType
<1>5. b \in Nat /\ EndIs(d, C, j, b) /\ j \in 1 .. Count(d)
  <2>1. b \in 0 .. Endless /\ EndIs(d, C, j, b) /\ j \in 1 .. Count(d)
    BY <1>1, <1>2, HoleDesc, Zenon
  <2> QED
    BY ONLY <2>1, EndlessNat
<1>6. k < Count(d) \/ k = Count(d)
  BY <1>2, <1>4
<1>g. GivenIs(d, L, p, q, k, j)
  BY <1>2, GivenLinks, Zenon
<1> HIDE DEF q, b
<1>7. /\ q[F(d, j)].last_byte \in Nat
      /\ c <=> q[F(d, j)].last_byte <= Cuts[d][k + 1]
      /\ c \/ k < Count(d)
  <2>1. CASE k < Count(d)
    <3>1. b <= Cuts[d][k + 1] <=> k + 1 \in C
      BY <1>1, <1>2, <1>5, <2>1, EndAt, Zenon
    <3>2. k # Count(d)
      BY <1>2, <1>4, <2>1
    <3> QED
      BY ONLY <1>3, <1>5, <2>1, <3>1, <3>2, Zenon DEF b
  <2>2. CASE ~ (k < Count(d))
    <3>1. q[F(d, j)].last_byte = Cuts[d][k + 1]
      BY <1>3, <2>2, Zenon
    <3>2. Cuts[d][k + 1] <= Cuts[d][k + 1]
      BY <1>4
    <3> QED
      BY ONLY <1>4, <1>6, <2>2, <3>1, <3>2, Zenon
  <2> QED
    BY <2>1, <2>2, Zenon
<1>8. r = FixHoles(q, first, F(d, j), Fragment(d, k))
  BY Zenon DEF q
<1>9. CASE c /\ j = k
  <2>1. r = RemoveHole(q, first, F(d, k))
    BY <1>2, <1>5, <1>7, <1>8, <1>9, FixCases
  <2> QED
    BY <1>2, <1>3, <1>9, <1>g, <2>1, RemoveList, KeepsData, ZenonT(30)
<1>10. CASE c /\ j # k
  <2>1. r = ShrinkHole(q, first, F(d, j), Cuts[d][k])
    BY <1>2, <1>5, <1>7, <1>8, <1>10, FixCases
  <2> QED
    BY <1>2, <1>3, <1>10, <1>g, <2>1, ShrinkList, KeepsData, ZenonT(30)
<1>11. CASE ~c
  <2>1. k < Count(d) /\ k + 1 \notin C /\ q = p /\ ~ (p[F(d, j)].last_byte <= Cuts[d][k + 1])
    BY <1>3, <1>7, <1>11, Zenon
  <2>4. /\ k + 1 \in 1 .. Count(d) /\ F(d, k + 1) \in 0 .. LastBlock
        /\ \A i \in L : F(d, i) # F(d, k + 1)
    BY <2>1, FillAfter, Zenon
  <2>2. CASE j = k
    <3>1. r = MoveHole(q, first, F(d, k), F(d, k + 1))
      BY ZenonT(30), <1>2, <1>5, <1>7, <1>8, <1>11, <2>2, FixCases
    <3> QED
      BY <1>2, <1>g, <2>1, <2>2, <2>4, <3>1, MoveList, KeepsData, ZenonT(30)
  <2>3. CASE j # k
    <3>1. r = SplitHole(q, first, F(d, j), F(d, k + 1), Cuts[d][k])
      BY Zenon, <1>2, <1>5, <1>7, <1>8, <1>11, <2>3, FixCases
    <3> QED
      BY <1>2, <1>g, <2>1, <2>3, <2>4, <3>1, SplitList, KeepsData, Zenon
  <2> QED
    BY <2>2, <2>3, Zenon
<1> QED
  BY <1>9, <1>10, <1>11, Zenon

(* A fragment that came already leaves the list as it is.                   *)
LEMMA FixAgain ==
  ASSUME NEW d \in Datagrams, NEW C, NEW L, NEW p, NEW first, List(d, C, L, p, first),
         NEW k \in C, NEW j \in L, j < k, p[F(d, j)].last_byte = Cuts[d][k],
         NEW r, r = FixHoles(Given(d, p, k, j), first, F(d, j), Fragment(d, k))
  PROVE  FixedList(d, C, r) /\ FixedKeeps(d, C, p, r)
<1> DEFINE q == Given(d, p, k, j)
<1>1. /\ L \subseteq 1 .. Count(d) /\ C \subseteq 1 .. Count(d)
      /\ \A i \in L : F(d, i) \in 0 .. LastBlock /\ p[F(d, i)] \in Hole
  BY ListFacts, Zenon
<1>3. /\ SameLinks(d, L, p, q, j)
      /\ k < Count(d) => q = p
      /\ ~ (k < Count(d)) => q[F(d, j)].last_byte = Cuts[d][k + 1]
  <2>1. GivenIs(d, L, p, q, k, j)
    BY GivenLinks, ZenonT(30)
  <2> QED
    BY ONLY <2>1, Zenon DEF GivenIs
<1>4. /\ Count(d) \in Nat /\ k + 1 \in 1 .. Count(d) + 1 /\ Cuts[d][k + 1] \in Nat
      /\ Cuts[d][k] \in Nat /\ Cuts[d][k] < Cuts[d][k + 1]
  BY <1>1, CutType
<1>g. GivenIs(d, L, p, q, k, j)
  BY GivenLinks, Zenon
<1> HIDE DEF q
<1>5. /\ q[F(d, j)].last_byte \in Nat
      /\ q[F(d, j)].last_byte <= Cuts[d][k + 1]
  <2>1. q[F(d, j)].last_byte = Cuts[d][k] \/ q[F(d, j)].last_byte = Cuts[d][k + 1]
    BY <1>3, ZenonT(30)
  <2> QED
    BY ONLY <1>4, <2>1
<1>6. r = ShrinkHole(q, first, F(d, j), Cuts[d][k])
  <2>0. k \in 1 .. Count(d) /\ j \in 1 .. Count(d) /\ j <= k /\ j # k
    BY <1>1, <1>4
  <2>1. r = FixHoles(q, first, F(d, j), Fragment(d, k))
    BY Zenon DEF q
  <2> QED
    BY SMTT(30), <1>5, <2>0, <2>1, FixCases
<1>7. r.p = WithLast(q, F(d, j), Cuts[d][k]) /\ r.first = first /\ r.done = FALSE
  BY <1>6 DEF ShrinkHole, WithLast
<1>8. LastSet(r.p, q, F(d, j), Cuts[d][k])
  BY ONLY <1>7, SetLast, Zenon
<1>9. DOMAIN r.p = 0 .. LastBlock
  BY <1>3, <1>8, Zenon DEF LastSet, SameLinks
<1>10. r.p[F(d, j)] = p[F(d, j)]
  <2>1. r.p[F(d, j)] = Desc(p[F(d, j)].last_byte, p[F(d, j)].next_hole, p[F(d, j)].prev_hole)
    BY <1>1, <1>3, <1>8, Zenon DEF LastSet, SameLinks
  <2>2. IsDesc(p[F(d, j)])
    BY <1>1, HoleDesc, Zenon
  <2> QED
    BY ONLY <2>1, <2>2, Zenon DEF IsDesc
<1>11. \A i \in L : r.p[F(d, i)] = p[F(d, i)]
  <2>1. \A i \in L : i # j => F(d, i) # F(d, j)
    BY <1>1, Indices, Zenon
  <2> QED
    BY <1>1, <1>3, <1>8, <1>10, <2>1, Zenon DEF LastSet, SameLinks
<1>12. List(d, C, L, r.p, first)
  BY <1>9, <1>11, SameHoles, Zenon
<1>13. FixedKeeps(d, C, p, r)
  BY <1>g, <1>6, KeepsData, Zenon
<1> QED
  BY <1>7, <1>12, <1>13, Zenon DEF FixedList

-----------------------------------------------------------------------------
(* What a fragment that is taken does to the buffer and the list: the       *)
(* fragments C and fragment k are in the buffer, and unless the datagram is *)
(* complete the list describes what is still missing.                       *)
TakenInto(d, C, k, r, q) ==
    /\ r.done \in BOOLEAN
    /\ DOMAIN q = 0 .. LastBlock
    /\ Data(d, C \cup {k}, q)
    /\ r.done => Begins(d, C \cup {k}) \subseteq {1}
    /\ ~ r.done => \E K : List(d, C \cup {k}, K, q, r.first)

(* So it is for a fragment that is not dropped.                             *)
LEMMA TakeFragment ==
  ASSUME NEW d \in Datagrams, NEW C, NEW L, NEW p, NEW first, List(d, C, L, p, first),
         Data(d, C, p), NEW k \in 1 .. Count(d), Cuts[d][k + 1] <= IP_MAXUDP,
         NEW j \in L, p[F(d, j)].last_byte >= Cuts[d][k], ~ (F(d, k + 1) <= F(d, j)),
         NEW r, r = FixHoles(Given(d, p, k, j), first, F(d, j), Fragment(d, k)),
         NEW q, q = CopyFragment(r.p, Fragment(d, k))
  PROVE  TakenInto(d, C, k, r, q)
<1>1. FixedList(d, C \cup {k}, r) /\ FixedKeeps(d, C, p, r)
  <2>1. /\ j <= k
        /\ \/ k \in C /\ j < k /\ p[F(d, j)].last_byte = Cuts[d][k]
           \/ (\A i \in j .. k : i \notin C) /\ p[F(d, j)].last_byte > Cuts[d][k]
    BY Taken, Zenon
  <2>2. CASE k \in C /\ j < k /\ p[F(d, j)].last_byte = Cuts[d][k]
    <3>1. FixedList(d, C, r) /\ FixedKeeps(d, C, p, r)
      BY <2>2, FixAgain, Zenon
    <3>2. C \cup {k} = C
      BY <2>2, Zenon
    <3> QED
      BY <3>1, <3>2, Zenon
  <2>3. CASE \A i \in j .. k : i \notin C
    <3>1. Fills(d, C, L, p, first, k, j)
      BY <2>1, <2>3, Zenon DEF Fills
    <3> QED
      BY <3>1, FixNew, Zenon
  <2> QED
    BY <2>1, <2>2, <2>3, Zenon
<1>2. DOMAIN q = 0 .. LastBlock /\ Data(d, C \cup {k}, q)
  <2>1. C \subseteq 1 .. Count(d) /\ \A c \in C \cup {k} : Cuts[d][c + 1] <= IP_MAXUDP
    BY Zenon DEF List
  <2> QED
    BY <1>1, <2>1, CopyData, Zenon
<1>3. ASSUME ~ r.done PROVE \E K : List(d, C \cup {k}, K, q, r.first)
  <2>1. PICK K : List(d, C \cup {k}, K, r.p, r.first)
    BY <1>1, <1>3, Zenon DEF FixedList
  <2>2. k \in C \cup {k}
    BY Zenon
  <2>3. List(d, C \cup {k}, K, q, r.first)
    BY <2>1, <2>2, CopyList, Zenon
  <2> QED
    BY <2>3, Zenon
<1> QED
  BY <1>1, <1>2, <1>3, Zenon DEF TakenInto, FixedList

(* A packet is not None.                                                    *)
LEMMA PacketNotNone ==
  ASSUME NEW n \in Nat \ {0}, NEW p
  PROVE  [i \in 0 .. n - 1 |-> p[i]] # None
<1>1. DOMAIN [i \in 0 .. n - 1 |-> p[i]] = 0 .. n - 1
  BY Zenon
<1>2. 0 \in 0 .. n - 1 /\ 0 \notin DOMAIN <<>>
  OBVIOUS
<1> QED
  BY ONLY <1>1, <1>2, Zenon DEF None

-----------------------------------------------------------------------------
(* After a reset the list has one hole.                                     *)
LEMMA ResetList ==
  ASSUME NEW d \in Datagrams, NEW q, DOMAIN q = 0 .. LastBlock,
         q[0] = [NoHole EXCEPT !.last_byte = Endless]
  PROVE  List(d, {}, {1}, q, 0)
<1>1. /\ F(d, 1) = 0 /\ 1 \in 1 .. Count(d) /\ LastBlock \in Nat /\ Endless \in Nat
  BY FType, CutType, BlocksOfBytes, BufferAssumption, EndlessNat DEF LastBlock
<1>2. Begins(d, {}) = {1}
  BY <1>1, Zenon DEF Begins
<1>3. q[0] = [last_byte |-> Endless, next_hole |-> 0, prev_hole |-> 0]
  BY DEF NoHole
<1>4. q[0] \in Hole /\ q[0].last_byte = Endless /\ q[0].next_hole = 0 /\ q[0].prev_hole = 0
  BY <1>1, <1>3 DEF Hole
<1>5. \A j \in {1} : 1 <= j /\ j <= 1
  OBVIOUS
<1>6. EndIs(d, {}, 1, Endless) /\ NextHoleIs(d, {1}, 1, 0) /\ PrevHoleIs(d, {1}, 1, 0)
  BY <1>5, Zenon DEF EndIs, NextHoleIs, PrevHoleIs
<1>7. \E k \in {1} : 0 = F(d, k) /\ \A j \in {1} : k <= j
  BY <1>1, <1>5, Zenon
<1>8. \A k \in {1} : /\ q[F(d, k)] \in Hole
                     /\ EndIs(d, {}, k, q[F(d, k)].last_byte)
                     /\ NextHoleIs(d, {1}, k, q[F(d, k)].next_hole)
                     /\ PrevHoleIs(d, {1}, k, q[F(d, k)].prev_hole)
  <2>1. TAKE k \in {1}
  <2>2. k = 1 /\ F(d, k) = 0
    BY <1>1, Zenon
  <2> QED
    BY ONLY <1>4, <1>6, <2>2, Zenon
<1> QED
  BY <1>2, <1>7, <1>8, Zenon DEF List

(* What a fragment meets: the structures, reset if it is of another         *)
(* datagram.                                                                *)
BufferFor(f) == IF Reset(f) THEN OneHole ELSE payload
HoleFor(f) == IF Reset(f) THEN 0 ELSE first_hole
LenFor(f) == IF Reset(f) THEN Endless ELSE total_len
ArrivedFor(f) == IF Reset(f) THEN {} ELSE arrived

(* They describe the fragments C of its datagram with the holes L.          *)
ReadyFor(f, d, C, L) ==
    /\ C \in SUBSET (1 .. Count(d)) /\ List(d, C, L, BufferFor(f), HoleFor(f))
    /\ Data(d, C, BufferFor(f))
    /\ LenFor(f) = IF Count(d) \in C THEN TotalLen(d) ELSE Endless
    /\ ArrivedFor(f) = {Fragment(d, c) : c \in C}
    /\ Reset(f) => /\ C = {} /\ L = {1} /\ BufferFor(f)[0].last_byte = Endless
                   /\ HoleFor(f) = 0
    /\ ~ Reset(f) => C # {} /\ (inFront => 1 \in C)

(* The reset gives the one, ...                                             *)
LEMMA ReadyReset ==
  ASSUME NEW d \in Datagrams, NEW f, DInv, Reset(f)
  PROVE  ReadyFor(f, d, {}, {1})
<1>1. /\ BufferFor(f) = OneHole /\ HoleFor(f) = 0 /\ LenFor(f) = Endless
      /\ ArrivedFor(f) = {}
  BY Zenon DEF BufferFor, HoleFor, LenFor, ArrivedFor
<1>2. /\ DOMAIN OneHole = 0 .. LastBlock
      /\ OneHole[0] = [NoHole EXCEPT !.last_byte = Endless]
  <2>1. DOMAIN payload = 0 .. LastBlock
    BY Zenon DEF DInv
  <2>2. 0 \in 0 .. LastBlock
    BY BlocksOfBytes, BufferAssumption, EndlessNat DEF LastBlock
  <2> QED
    BY <2>1, <2>2, Zenon DEF OneHole
<1>3. List(d, {}, {1}, OneHole, 0)
  BY <1>2, ResetList, Zenon
<1>4. OneHole[0].last_byte = Endless
  <2>1. OneHole[0] = [last_byte |-> Endless, next_hole |-> 0, prev_hole |-> 0]
    BY <1>2 DEF NoHole
  <2> QED
    BY <2>1
<1>5. Data(d, {}, OneHole)
  BY Zenon DEF Data
<1>6. {} = {Fragment(d, c) : c \in {}}
  BY Zenon
<1> QED
  BY <1>1, <1>3, <1>4, <1>5, <1>6, Zenon DEF ReadyFor

(* ... a fragment of the datagram under way finds the other.                *)
LEMMA ReadyInProgress ==
  ASSUME NEW f, DInv, ~ Reset(f), handed = None
  PROVE  \E C, L : ReadyFor(f, ip_id, C, L)
<1>1. total_len # 0
  BY Zenon DEF Reset
<1>2. /\ BufferFor(f) = payload /\ HoleFor(f) = first_hole /\ LenFor(f) = total_len
      /\ ArrivedFor(f) = arrived
  BY Zenon DEF BufferFor, HoleFor, LenFor, ArrivedFor
<1>3. PICK C \in SUBSET (1 .. Count(ip_id)) :
         Received(ip_id, C, payload, first_hole, total_len, arrived, inFront, handed)
  BY <1>1, Zenon DEF DInv
<1>4. PICK L \in SUBSET Begins(ip_id, C) : List(ip_id, C, L, payload, first_hole)
  BY <1>3, Zenon DEF Received
<1>5. /\ Data(ip_id, C, payload)
      /\ total_len = IF Count(ip_id) \in C THEN TotalLen(ip_id) ELSE Endless
      /\ arrived = {Fragment(ip_id, c) : c \in C}
      /\ C # {} /\ (inFront => 1 \in C)
  BY ONLY <1>3, Zenon DEF Received
<1>6. ReadyFor(f, ip_id, C, L)
  BY <1>2, <1>3, <1>4, <1>5, Zenon DEF ReadyFor
<1> QED
  BY <1>6, Zenon

(* A fragment that is not too long for the buffer is dropped and changes    *)
(* nothing, ...                                                             *)
IsDropped(f) ==
    /\ total_len # 0 /\ ip_id = f.ip_id
    /\ UNCHANGED <<payload, first_hole, total_len, ip_id, arrived, inFront>>
    /\ handed' = None

(* ... or is taken into a hole.                                             *)
IsTaken(f, d, C, L, k, j, r) ==
    LET len == IF k < Count(d) THEN LenFor(f) ELSE Cuts[d][k + 1]
    IN  /\ j \in L /\ BufferFor(f)[F(d, j)].last_byte >= Cuts[d][k]
        /\ ~ (F(d, k + 1) <= F(d, j))
        /\ r = FixHoles(Given(d, BufferFor(f), k, j), HoleFor(f), F(d, j), f)
        /\ ip_id' = d
        /\ payload' = CopyFragment(r.p, f)
        /\ first_hole' = r.first
        /\ total_len' = len
        /\ arrived' = {f} \cup ArrivedFor(f)
        /\ inFront' = IF Reset(f) THEN f.offset8 = 0 ELSE inFront
        /\ handed' = IF r.done
                     THEN [i \in 0 .. Blocks(len) - 1 |-> CopyFragment(r.p, f)[i]]
                     ELSE None

-----------------------------------------------------------------------------
(* Where a block lies beside the beginning of a fragment.                   *)
LEMMA BlockOrder ==
  ASSUME NEW d \in Datagrams, NEW k \in 1 .. Count(d), NEW i \in F(d, k) .. F(d, k + 1) - 1,
         NEW m \in 1 .. Count(d) + 1
  PROVE  /\ F(d, m) <= i <=> m <= k
         /\ i < F(d, m) <=> k < m
<1>1. /\ k \in 1 .. Count(d) + 1 /\ k + 1 \in 1 .. Count(d) + 1 /\ k \in Nat /\ m \in Nat
      /\ F(d, k) \in Nat /\ F(d, k + 1) \in Nat /\ F(d, m) \in Nat
  BY CutType, FType
<1>2. (F(d, m) <= F(d, k) <=> m <= k) /\ (F(d, k + 1) <= F(d, m) <=> k + 1 <= m)
  BY <1>1, FSame, Zenon
<1> QED
  BY ONLY <1>1, <1>2, i \in F(d, k) .. F(d, k + 1) - 1

(* The blocks of a fragment are blocks of its datagram.                     *)
LEMMA InDatagram ==
  ASSUME NEW d \in Datagrams, NEW k \in 1 .. Count(d), NEW i \in F(d, k) .. F(d, k + 1) - 1
  PROVE  i \in 0 .. Blocks(TotalLen(d)) - 1
<1>1. /\ F(d, k) \in Nat /\ Count(d) + 1 \in 1 .. Count(d) + 1 /\ k < Count(d) + 1
      /\ F(d, Count(d) + 1) = Blocks(TotalLen(d)) /\ F(d, Count(d) + 1) \in Nat
      /\ F(d, k + 1) \in Nat
  BY CutType, FType, TotalLenIs
<1>2. i < F(d, Count(d) + 1)
  <2>1. PICK m \in 1 .. Count(d) + 1 : m = Count(d) + 1
    BY <1>1, Zenon
  <2>2. i < F(d, m) <=> k < m
    BY BlockOrder, Zenon
  <2> QED
    BY <1>1, <2>1, <2>2, Zenon
<1> QED
  BY ONLY <1>1, <1>2, i \in F(d, k) .. F(d, k + 1) - 1

(* The blocks of the fragments that did not come.                           *)
LEMMA MissingIs ==
  ASSUME ip_id \in Datagrams, NEW C, C \subseteq 1 .. Count(ip_id),
         arrived = {Fragment(ip_id, c) : c \in C},
         NEW k \in 1 .. Count(ip_id), NEW i \in F(ip_id, k) .. F(ip_id, k + 1) - 1
  PROVE  i \in Missing <=> k \notin C
<1> DEFINE d == ip_id
<1>1. i \in 0 .. Blocks(TotalLen(d)) - 1
  BY InDatagram, Zenon
<1>2. \A c \in C : BlocksOf(Fragment(d, c)) = F(d, c) .. F(d, c + 1) - 1
  BY FragmentIs
<1>3. i \in UNION {BlocksOf(f) : f \in arrived} <=> \E c \in C : i \in F(d, c) .. F(d, c + 1) - 1
  BY <1>2, Zenon
<1>4. ASSUME NEW c \in C, i \in F(d, c) .. F(d, c + 1) - 1 PROVE c = k
  <2>1. c \in 1 .. Count(d) /\ k \in 1 .. Count(d) + 1 /\ c \in 1 .. Count(d) + 1
    BY CutType
  <2>2. /\ F(d, k) <= i <=> k <= c
        /\ F(d, c) <= i <=> c <= k
    BY <1>4, <2>1, BlockOrder, Zenon
  <2>3. F(d, k) <= i /\ F(d, c) <= i /\ c \in Nat /\ k \in Nat
    BY <1>4, <2>1, CutType, FType
  <2> QED
    BY ONLY <2>2, <2>3
<1>5. i \in Missing <=> ~ (i \in UNION {BlocksOf(f) : f \in arrived})
  BY <1>1, Zenon DEF Missing
<1> QED
  BY <1>3, <1>4, <1>5, Zenon

(* The hole that begins with fragment m covers the block of fragment k if   *)
(* nothing came in between.                                                 *)
LEMMA HoleCovers ==
  ASSUME NEW d \in Datagrams, NEW C, C \subseteq 1 .. Count(d), NEW m \in 1 .. Count(d),
         NEW b, EndIs(d, C, m, b), NEW k \in 1 .. Count(d), m <= k,
         NEW i \in F(d, k) .. F(d, k + 1) - 1
  PROVE  i < Blocks(b) <=> \A n \in m .. k : n \notin C
<1>1. CASE b = Endless /\ \A n \in m .. Count(d) : n \notin C
  <2>1. i < Blocks(b)
    <3>1. i \in 0 .. Blocks(TotalLen(d)) - 1
      BY InDatagram, Zenon
    <3>2. TotalLen(d) \in Nat /\ TotalLen(d) <= Endless
      BY TotalLenIs, EndlessNat
    <3>3. Blocks(TotalLen(d)) <= Blocks(Endless) /\ Blocks(TotalLen(d)) \in Nat
          /\ Blocks(Endless) \in Nat
      BY ONLY <3>2, EndlessNat DEF Blocks
    <3> QED
      BY ONLY <1>1, <3>1, <3>3
  <2>2. \A n \in m .. k : n \in m .. Count(d)
    BY CutType
  <2> QED
    BY <1>1, <2>1, <2>2, Zenon
<1>2. ASSUME NEW e \in C, m < e, b = Cuts[d][e], \A n \in m .. e - 1 : n \notin C
      PROVE  i < Blocks(b) <=> \A n \in m .. k : n \notin C
  <2>1. e \in 1 .. Count(d)
    BY Zenon
  <2>2. e \in 1 .. Count(d) + 1 /\ e \in Nat /\ k \in Nat /\ m \in Nat
    BY ONLY <2>1, CutType, d \in Datagrams, k \in 1 .. Count(d), m \in 1 .. Count(d)
  <2>3. i < F(d, e) <=> k < e
    BY <2>2, BlockOrder, Zenon
  <2>4. Blocks(b) = F(d, e)
    BY <1>2, Zenon DEF F
  <2>5. CASE k < e
    <3>1. \A n \in m .. k : n \in m .. e - 1
      BY ONLY <2>2, <2>5
    <3> QED
      BY <1>2, <2>3, <2>4, <2>5, <3>1, Zenon
  <2>6. CASE ~ (k < e)
    <3>1. e \in m .. k
      BY ONLY <1>2, <2>2, <2>6
    <3> QED
      BY <2>3, <2>4, <2>6, <3>1, Zenon
  <2> QED
    BY <2>5, <2>6, Zenon
<1> QED
  BY <1>1, <1>2, Zenon DEF EndIs

-----------------------------------------------------------------------------
(* Every set of numbers has a least one.  The lemmas from here on have it   *)
(* as a hypothesis; Least discharges it for the theorems.                   *)
HasLeast == \A T \in SUBSET Nat : T # {} => \E n \in T : \A m \in T : n <= m

(* Fragment k is missing: the hole it is in begins with some fragment.      *)
LEMMA Begun ==
  ASSUME HasLeast, NEW d \in Datagrams, NEW C, NEW k \in 1 .. Count(d), k \notin C
  PROVE  \E m \in Begins(d, C) : m <= k /\ \A i \in m .. k : i \notin C
<1> DEFINE T == {m \in 1 .. k : \A i \in m .. k : i \notin C}
<1>1. k \in T /\ T \subseteq Nat /\ k \in Nat /\ Count(d) \in Nat /\ k <= Count(d)
  BY CutType
<1>2. PICK m \in T : \A n \in T : m <= n
  <2> HIDE DEF T
  <2> QED
    BY <1>1, Zenon DEF HasLeast
<1>3. m \in 1 .. Count(d) /\ m <= k /\ m \notin C /\ \A i \in m .. k : i \notin C
  BY <1>1
<1>4. m = 1 \/ m - 1 \in C
  <2> SUFFICES ASSUME m # 1, m - 1 \notin C PROVE FALSE
    OBVIOUS
  <2>1. m - 1 \in 1 .. k /\ m \in Nat /\ ~ (m <= m - 1)
    BY <1>1, <1>3
  <2>2. ASSUME NEW i \in (m - 1) .. k PROVE i \notin C
    <3>1. i = m - 1 \/ i \in m .. k
      BY <1>3, <2>1
    <3> QED
      BY <1>3, <3>1
  <2> QED
    BY <1>2, <2>1, <2>2
<1> QED
  BY <1>3, <1>4, Zenon DEF Begins

(* If the only hole is at the front the last fragment came.                 *)
LEMMA LastCame ==
  ASSUME HasLeast, NEW d \in Datagrams, NEW C, C \subseteq 1 .. Count(d), C # {},
         Begins(d, C) \subseteq {1}
  PROVE  Count(d) \in C
<1> SUFFICES ASSUME Count(d) \notin C PROVE FALSE
  OBVIOUS
<1>1. Count(d) \in 1 .. Count(d)
  BY CutType
<1>2. PICK m \in Begins(d, C) : \A i \in m .. Count(d) : i \notin C
  BY <1>1, Begun, Zenon
<1>3. m = 1
  BY <1>2, Zenon
<1> QED
  BY <1>2, <1>3, Zenon

-----------------------------------------------------------------------------
(* A search through the list looks at the holes up to the first that ends   *)
(* at or behind "start".                                                    *)
LEMMA LookedIs ==
  ASSUME HasLeast, NEW d \in Datagrams, NEW C, NEW L, NEW p, NEW first, List(d, C, L, p, first),
         NEW s \in Nat
  PROVE  Looked(p, first, s) =
            {F(d, k) : k \in {j \in L : \A i \in L : i < j => p[F(d, i)].last_byte < s}}
<1> DEFINE K == {j \in L : \A i \in L : i < j => p[F(d, i)].last_byte < s}
           X == {F(d, k) : k \in K}
           goesOn == {j \in Described(p) : p[j].last_byte < s /\ p[j].next_hole # 0}
           closed == {S \in SUBSET (0 .. LastBlock) :
                         first \in S /\ \A j \in S \cap goesOn : p[j].next_hole \in S}
<1>1. Looked(p, first, s) = {i \in 0 .. LastBlock : \A S \in closed : i \in S}
  BY ZenonT(30) DEF Looked
<1>2. \A k \in L : /\ k \in Nat /\ k \in 1 .. Count(d) /\ k \in 1 .. Count(d) + 1
                   /\ F(d, k) \in 0 .. LastBlock /\ F(d, k) \in Described(p)
                   /\ p[F(d, k)].last_byte \in Nat
                   /\ NextHoleIs(d, L, k, p[F(d, k)].next_hole)
                   /\ PrevHoleIs(d, L, k, p[F(d, k)].prev_hole)
  <2> SUFFICES ASSUME NEW k \in L
               PROVE  /\ k \in Nat /\ k \in 1 .. Count(d) /\ k \in 1 .. Count(d) + 1
                      /\ F(d, k) \in 0 .. LastBlock /\ F(d, k) \in Described(p)
                      /\ p[F(d, k)].last_byte \in Nat
                      /\ NextHoleIs(d, L, k, p[F(d, k)].next_hole)
                      /\ PrevHoleIs(d, L, k, p[F(d, k)].prev_hole)
    BY Zenon
  <2>1. k \in 1 .. Count(d) /\ Count(d) \in Nat
    BY CutType DEF List, Begins
  <2>2. /\ p[F(d, k)] \in Hole
        /\ NextHoleIs(d, L, k, p[F(d, k)].next_hole) /\ PrevHoleIs(d, L, k, p[F(d, k)].prev_hole)
    BY Zenon DEF List
  <2>4. F(d, k) \in 0 .. LastBlock
    BY BeginInBuffer, ZenonT(30) DEF List
  <2>3. p[F(d, k)].last_byte \in Nat /\ "last_byte" \in DOMAIN p[F(d, k)]
    BY <2>2, EndlessNat DEF Hole
  <2> QED
    BY <2>1, <2>2, <2>3, <2>4 DEF Described
<1>3. PICK f \in L : first = F(d, f) /\ \A j \in L : f <= j
  BY Zenon DEF List
<1>4. X \in closed
  <2>1. X \subseteq 0 .. LastBlock
    BY <1>2, Zenon
  <2>2. f \in K
    BY <1>2, <1>3
  <2>3. ASSUME NEW k \in K, F(d, k) \in goesOn
        PROVE  p[F(d, k)].next_hole \in X
    <3>1. PICK m \in L : /\ k < m /\ p[F(d, k)].next_hole = F(d, m)
                         /\ \A j \in L : j <= k \/ m <= j
      BY <1>2, <2>3, Zenon DEF NextHoleIs
    <3>2. ASSUME NEW i \in L, i < m PROVE p[F(d, i)].last_byte < s
      <4>1. i < k \/ i = k
        BY <1>2, <3>1, <3>2
      <4> QED
        BY <2>3, <4>1, ZenonT(30)
    <3> QED
      BY <3>1, <3>2, Zenon
  <2> QED
    BY <1>3, <2>1, <2>2, <2>3, Zenon
<1>5. ASSUME NEW S \in closed PROVE X \subseteq S
  <2> SUFFICES ASSUME {k \in K : F(d, k) \notin S} # {} PROVE FALSE
    BY Zenon
  <2>1. PICK j \in {k \in K : F(d, k) \notin S} :
             \A i \in {k \in K : F(d, k) \notin S} : j <= i
    <3>1. {k \in K : F(d, k) \notin S} \subseteq Nat
      BY <1>2
    <3> QED
      BY <3>1, ZenonT(30) DEF HasLeast
  <2>2. f < j /\ j \in L
    BY <1>2, <1>3, <2>1
  <2>3. PICK m \in L : m < j /\ \A i \in L : i <= m \/ j <= i
    <3>1. ~ \A i \in L : j <= i
      BY SMTT(30), <1>2, <2>2
    <3> QED
      BY <1>2, <2>2, <3>1, ZenonT(30) DEF PrevHoleIs
  <2>4. m \in K
    BY <1>2, <2>1, <2>3
  <2>5. F(d, m) \in S
    <3>1. ~ (j <= m)
      BY <1>2, <2>2, <2>3
    <3> QED
      BY <2>1, <2>4, <3>1, ZenonT(30)
  <2>6. p[F(d, m)].next_hole = F(d, j)
    <3>1. ~ \A i \in L : i <= m
      BY <1>2, <2>2, <2>3
    <3>2. PICK n \in L : /\ m < n /\ p[F(d, m)].next_hole = F(d, n)
                         /\ \A i \in L : i <= m \/ n <= i
      BY <1>2, <3>1, ZenonT(30) DEF NextHoleIs
    <3>3. n = j
      BY <1>2, <2>2, <2>3, <3>2
    <3> QED
      BY <3>2, <3>3
  <2>7. F(d, j) # 0
    <3>1. 1 \in 1 .. Count(d) + 1 /\ j # 1 /\ j \in 1 .. Count(d) + 1
      BY <1>2, <1>3, <2>2, CutType
    <3>2. F(d, j) = F(d, 1) <=> j = 1
      BY <3>1, FSame, ZenonT(30)
    <3> QED
      BY <3>1, <3>2, FType, ZenonT(30)
  <2>8. F(d, m) \in goesOn
    BY <1>2, <2>1, <2>3, <2>6, <2>7, Zenon
  <2> QED
    BY <2>1, <2>5, <2>6, <2>8, Zenon
<1> QED
  BY <1>1, <1>4, <1>5, Zenon

(* What FindHole returns.                                                   *)
LEMMA Finds ==
  ASSUME HasLeast, NEW d \in Datagrams, NEW C, NEW L, NEW p, NEW first, List(d, C, L, p, first),
         NEW s \in Nat, NEW h, h = FindHole(p, first, s)
  PROVE  h = -1 \/ Found(d, L, p, s, h)
<1> DEFINE far == {i \in Looked(p, first, s) : p[i].last_byte >= s}
<1>1. h = -1 \/ h \in far
  BY ZenonT(30) DEF FindHole
<1>2. Looked(p, first, s) =
         {F(d, k) : k \in {j \in L : \A i \in L : i < j => p[F(d, i)].last_byte < s}}
  BY LookedIs
<1> QED
  BY ONLY <1>1, <1>2, Zenon DEF Found

(* The whole list.                                                          *)
LEMMA LookedAll ==
  ASSUME HasLeast, NEW d \in Datagrams, NEW C, NEW L, NEW p, NEW first, List(d, C, L, p, first)
  PROVE  Looked(p, first, Endless + 1) = {F(d, k) : k \in L}
<1>1. \A k \in L : p[F(d, k)].last_byte \in 0 .. Endless
  BY DEF List, Hole
<1>2. \A k \in L : p[F(d, k)].last_byte < Endless + 1
  BY <1>1, EndlessNat
<1>3. Endless + 1 \in Nat
  BY SMTT(30), EndlessNat
<1>4. Looked(p, first, Endless + 1) =
         {F(d, k) : k \in {j \in L : \A i \in L : i < j => p[F(d, i)].last_byte < Endless + 1}}
  BY SMTT(30), <1>3, LookedIs
<1>5. {j \in L : \A i \in L : i < j => p[F(d, i)].last_byte < Endless + 1} = L
  BY ONLY <1>2, Zenon
<1> QED
  BY ONLY <1>4, <1>5, ZenonT(30)

-----------------------------------------------------------------------------
(* Every block of a datagram is in a fragment.                              *)
LEMMA FragmentOfBlock ==
  ASSUME HasLeast, NEW d \in Datagrams, NEW i \in 0 .. Blocks(TotalLen(d)) - 1
  PROVE  \E k \in 1 .. Count(d) : i \in F(d, k) .. F(d, k + 1) - 1
<1> DEFINE T == {m \in 1 .. Count(d) + 1 : i < F(d, m)}
<1>1. /\ Count(d) + 1 \in 1 .. Count(d) + 1 /\ i \in Nat
      /\ F(d, Count(d) + 1) = Blocks(TotalLen(d)) /\ Blocks(TotalLen(d)) \in Nat
      /\ F(d, 1) = 0
  BY CutType, TotalLenIs, FType
<1>2. Count(d) + 1 \in T /\ T \subseteq Nat /\ 1 \notin T
  BY <1>1, CutType
<1>3. PICK m \in T : \A n \in T : m <= n
  <2> HIDE DEF T
  <2> QED
    BY <1>2, Zenon DEF HasLeast
<1>4. /\ m \in 1 .. Count(d) + 1 /\ i < F(d, m) /\ m # 1
  BY <1>2
<1>5. m - 1 \in 1 .. Count(d) /\ (m - 1) + 1 = m /\ m - 1 \in 1 .. Count(d) + 1
      /\ ~ (m <= m - 1)
  BY SMTT(30), <1>4, CutType
<1>6. ~ (i < F(d, m - 1)) /\ F(d, m - 1) \in Nat /\ F(d, m) \in Nat
  BY <1>3, <1>4, <1>5, FType
<1>7. i \in F(d, m - 1) .. F(d, m) - 1
  BY ONLY <1>1, <1>4, <1>6
<1>8. m - 1 \in 1 .. Count(d) /\ i \in F(d, m - 1) .. F(d, (m - 1) + 1) - 1
  BY ONLY <1>5, <1>7, Zenon
<1> QED
  BY <1>8, Zenon

(* The front that is missing ends where the first fragment that came        *)
(* begins.                                                                  *)
LEMMA FrontEnds ==
  ASSUME HasLeast, NEW d \in Datagrams, NEW C, C \subseteq 1 .. Count(d), C # {},
         \A c \in C : Cuts[d][c + 1] <= IP_MAXUDP
  PROVE  \E e \in C : F(d, e) \in 0 .. LastBlock /\ \A c \in C : e <= c
<1>1. C \subseteq Nat
  BY CutType
<1>2. PICK e \in C : \A c \in C : e <= c
  BY <1>1, Zenon DEF HasLeast
<1>3. /\ e \in 1 .. Count(d) /\ e + 1 \in 1 .. Count(d) + 1 /\ e \in 1 .. Count(d) + 1
      /\ F(d, e) \in Nat /\ F(d, e + 1) \in Nat /\ ~ (e + 1 <= e)
  <2>1. e \in 1 .. Count(d)
    BY Zenon
  <2>2. /\ e + 1 \in 1 .. Count(d) + 1 /\ e \in 1 .. Count(d) + 1 /\ ~ (e + 1 <= e)
    BY ONLY <2>1, CutType, d \in Datagrams
  <2> QED
    BY ONLY <2>1, <2>2, FType, d \in Datagrams
<1>4. F(d, e + 1) <= F(d, e) <=> e + 1 <= e
  BY <1>3, FSame, Zenon
<1>5. F(d, e) \in F(d, e) .. F(d, e + 1) - 1
  BY ONLY <1>3, <1>4
<1>6. F(d, e) \in 0 .. LastBlock
  BY <1>3, <1>5, BlockInBuffer, Zenon
<1> QED
  BY <1>2, <1>6, ZenonT(30)

(* The blocks that are listed.                                              *)
LEMMA ListedIs ==
  ASSUME HasLeast, ip_id \in Datagrams, NEW C, NEW L, List(ip_id, C, L, payload, first_hole),
         NEW k \in 1 .. Count(ip_id), NEW i \in F(ip_id, k) .. F(ip_id, k + 1) - 1
  PROVE  i \in Listed <=> \E m \in L : m <= k /\ \A n \in m .. k : n \notin C
<1> DEFINE d == ip_id
<1>1. i \in 0 .. Blocks(TotalLen(d)) - 1
  BY InDatagram, Zenon
<1>2. Looked(payload, first_hole, Endless + 1) = {F(d, m) : m \in L}
  BY LookedAll
<1>3. i \in Listed <=> \E m \in L : F(d, m) <= i /\ i < Blocks(payload[F(d, m)].last_byte)
  BY ONLY <1>1, <1>2, Zenon DEF Listed
<1>4. /\ C \subseteq 1 .. Count(d) /\ L \subseteq 1 .. Count(d)
      /\ \A m \in L : EndIs(d, C, m, payload[F(d, m)].last_byte)
  BY ListFacts, Zenon
<1>5. ASSUME NEW m \in L
      PROVE  F(d, m) <= i /\ i < Blocks(payload[F(d, m)].last_byte)
                <=> m <= k /\ \A n \in m .. k : n \notin C
  <2>1. m \in 1 .. Count(d)
    BY <1>4, Zenon
  <2>2. m \in 1 .. Count(d) + 1
    BY ONLY <2>1, CutType, ip_id \in Datagrams
  <2>3. F(d, m) <= i <=> m <= k
    BY <2>2, BlockOrder, Zenon
  <2>4. m <= k => (i < Blocks(payload[F(d, m)].last_byte) <=> \A n \in m .. k : n \notin C)
    <3>1. PICK b : b = payload[F(d, m)].last_byte
      BY Zenon
    <3>2. EndIs(d, C, m, b)
      BY <1>4, <3>1, Zenon
    <3>3. m <= k => (i < Blocks(b) <=> \A n \in m .. k : n \notin C)
      BY <1>4, <2>1, <3>2, HoleCovers, Zenon
    <3> QED
      BY ONLY <3>1, <3>3, Zenon
  <2> QED
    BY <2>3, <2>4, Zenon
<1> QED
  BY ONLY <1>3, <1>5, Zenon

(* With nothing listed at the front, what is missing before the first       *)
(* fragment that came is the front.                                         *)
LEMMA BeforeFirst ==
  ASSUME HasLeast, NEW d \in Datagrams, NEW C, C \subseteq 1 .. Count(d), NEW e \in C,
         \A c \in C : e <= c, NEW i
  PROVE  i \in 0 .. F(d, e) - 1 <=>
            \E k \in 1 .. Count(d) : i \in F(d, k) .. F(d, k + 1) - 1 /\ k < e
<1>1. /\ e \in 1 .. Count(d)
  BY Zenon
<1>2. e \in 1 .. Count(d) + 1 /\ Count(d) + 1 \in 1 .. Count(d) + 1 /\ e <= Count(d) + 1
  BY ONLY <1>1, CutType, d \in Datagrams
<1>3. F(d, e) \in Nat /\ F(d, Count(d) + 1) \in Nat
  BY ONLY <1>2, FType, d \in Datagrams
<1>4. ASSUME i \in 0 .. F(d, e) - 1
      PROVE  \E k \in 1 .. Count(d) : i \in F(d, k) .. F(d, k + 1) - 1 /\ k < e
  <2>1. F(d, e) <= F(d, Count(d) + 1)
    BY <1>2, FSame, Zenon
  <2>2. F(d, Count(d) + 1) = Blocks(TotalLen(d))
    BY TotalLenIs, Zenon
  <2>3. i \in 0 .. Blocks(TotalLen(d)) - 1 /\ i < F(d, e)
    BY ONLY <1>3, <1>4, <2>1, <2>2
  <2>4. PICK k \in 1 .. Count(d) : i \in F(d, k) .. F(d, k + 1) - 1
    BY <2>3, FragmentOfBlock, Zenon
  <2>5. i < F(d, e) <=> k < e
    BY <1>2, <2>4, BlockOrder, Zenon
  <2> QED
    BY <2>3, <2>4, <2>5, Zenon
<1>5. ASSUME NEW k \in 1 .. Count(d), i \in F(d, k) .. F(d, k + 1) - 1, k < e
      PROVE  i \in 0 .. F(d, e) - 1
  <2>1. i < F(d, e) <=> k < e
    BY <1>2, <1>5, BlockOrder, Zenon
  <2>2. i \in 0 .. Blocks(TotalLen(d)) - 1
    BY <1>5, InDatagram, Zenon
  <2>3. Blocks(TotalLen(d)) \in Nat
    BY TotalLenIs
  <2> QED
    BY ONLY <1>3, <1>5, <2>1, <2>2, <2>3
<1> QED
  BY <1>4, <1>5, Zenon

(* DInv implies that the list is what is missing, ...                       *)
LEMMA DInvList == HasLeast /\ DInv => ListIsMissing
<1> SUFFICES ASSUME HasLeast, DInv, InProgress PROVE
        /\ \A i \in (0 .. LastBlock) \ Missing :
              i < Blocks(TotalLen(ip_id)) => payload[i] = Byte(ip_id, i)
        /\ Listed \subseteq Missing
        /\ FrontOf(Missing \ Listed, LastBlock)
        /\ inFront => Listed = Missing
  BY Zenon DEF ListIsMissing
<1> DEFINE d == ip_id
<1>1. d \in Datagrams
  BY Zenon DEF DInv, InProgress
<1>2. PICK C \in SUBSET (1 .. Count(d)) :
         Received(d, C, payload, first_hole, total_len, arrived, inFront, handed)
  BY Zenon DEF DInv, InProgress
<1>3. PICK L \in SUBSET Begins(d, C) : List(d, C, L, payload, first_hole)
  BY <1>2, Zenon DEF Received, InProgress
<1>4. /\ C # {} /\ C \subseteq 1 .. Count(d) /\ \A c \in C : Cuts[d][c + 1] <= IP_MAXUDP
      /\ arrived = {Fragment(d, c) : c \in C} /\ Data(d, C, payload)
      /\ inFront => 1 \in C
  BY <1>2, Zenon DEF Received
<1>5. L \subseteq Begins(d, C) /\ Begins(d, C) \ L \subseteq {1}
  BY <1>3, Zenon DEF List
<1>6. \A i \in Missing : i \in 0 .. Blocks(TotalLen(d)) - 1
  BY Zenon DEF Missing
<1>7. \A i \in Listed : i \in 0 .. Blocks(TotalLen(d)) - 1
  BY Zenon DEF Listed
<1>8. \A k \in 1 .. Count(d) : \A i \in F(d, k) .. F(d, k + 1) - 1 :
         /\ i \in Missing <=> k \notin C
         /\ i \in Listed <=> \E m \in L : m <= k /\ \A n \in m .. k : n \notin C
  <2> SUFFICES ASSUME NEW k \in 1 .. Count(d), NEW i \in F(d, k) .. F(d, k + 1) - 1
               PROVE  /\ i \in Missing <=> k \notin C
                      /\ i \in Listed <=>
                            \E m \in L : m <= k /\ \A n \in m .. k : n \notin C
    BY Zenon
  <2>1. i \in Missing <=> k \notin C
    BY <1>1, <1>4, MissingIs, Zenon
  <2>2. i \in Listed <=> \E m \in L : m <= k /\ \A n \in m .. k : n \notin C
    BY <1>1, <1>3, ListedIs
  <2> QED
    BY <2>1, <2>2, Zenon
<1>9. ASSUME NEW i \in (0 .. LastBlock) \ Missing, i < Blocks(TotalLen(d))
      PROVE  payload[i] = Byte(d, i)
  <2>1. Blocks(TotalLen(d)) \in Nat
    BY <1>1, TotalLenIs
  <2>2. i \in 0 .. Blocks(TotalLen(d)) - 1
    BY ONLY <1>9, <2>1
  <2>3. PICK k \in 1 .. Count(d) : i \in F(d, k) .. F(d, k + 1) - 1
    BY <1>1, <2>2, FragmentOfBlock, Zenon
  <2>4. k \in C
    BY <1>8, <2>3, Zenon
  <2> QED
    BY <1>4, <2>3, <2>4, Zenon DEF Data
<1>10. ASSUME NEW i \in Listed PROVE i \in Missing
  <2>1. PICK k \in 1 .. Count(d) : i \in F(d, k) .. F(d, k + 1) - 1
    BY <1>1, <1>7, FragmentOfBlock, Zenon
  <2>2. PICK m \in L : m <= k /\ \A n \in m .. k : n \notin C
    BY <1>8, <2>1, Zenon
  <2>3. m \in 1 .. Count(d)
    BY <1>5, Zenon DEF Begins
  <2>4. k \in m .. k
    BY ONLY <2>2, <2>3, k \in 1 .. Count(d)
  <2> QED
    BY <1>8, <2>1, <2>2, <2>4, Zenon
<1>11. ASSUME NEW i \in Missing
       PROVE  \E k \in 1 .. Count(d), m \in Begins(d, C) :
                 /\ i \in F(d, k) .. F(d, k + 1) - 1 /\ m <= k /\ k \notin C
                 /\ \A n \in m .. k : n \notin C
                 /\ m \in L => i \in Listed
  <2>1. PICK k \in 1 .. Count(d) : i \in F(d, k) .. F(d, k + 1) - 1
    BY <1>1, <1>6, FragmentOfBlock, Zenon
  <2>2. k \notin C
    BY <1>8, <2>1, Zenon
  <2>3. PICK m \in Begins(d, C) : m <= k /\ \A n \in m .. k : n \notin C
    BY <1>1, <2>2, Begun, Zenon
  <2> QED
    BY <1>8, <2>1, <2>2, <2>3, Zenon
<1>12. ASSUME 1 \in Begins(d, C) => 1 \in L PROVE Missing \subseteq Listed
  <2>1. ASSUME NEW m \in Begins(d, C) PROVE m \in L
    <3>1. m \in L \/ m \in Begins(d, C) \ L
      BY Zenon
    <3>2. m \in L \/ m = 1
      BY ONLY <1>5, <3>1, Zenon
    <3> QED
      BY ONLY <1>12, <3>2, m \in Begins(d, C), Zenon
  <2>2. ASSUME NEW i \in Missing PROVE i \in Listed
    <3>1. PICK k \in 1 .. Count(d), m \in Begins(d, C) :
             /\ i \in F(d, k) .. F(d, k + 1) - 1 /\ m <= k /\ k \notin C
             /\ \A n \in m .. k : n \notin C
             /\ m \in L => i \in Listed
      BY <1>11, Zenon
    <3> QED
      BY <2>1, <3>1, Zenon
  <2> QED
    BY <2>2, Zenon
<1>13. ASSUME 1 \in Begins(d, C), 1 \notin L PROVE FrontOf(Missing \ Listed, LastBlock)
  <2>1. PICK e \in C : F(d, e) \in 0 .. LastBlock /\ \A c \in C : e <= c
    BY <1>1, <1>4, FrontEnds, Zenon
  <2>2. e \in 1 .. Count(d)
    BY <1>4, Zenon
  <2>3. ASSUME NEW i \in Missing \ Listed PROVE i \in 0 .. F(d, e) - 1
    <3>1. PICK k \in 1 .. Count(d), m \in Begins(d, C) :
             /\ i \in F(d, k) .. F(d, k + 1) - 1 /\ m <= k /\ k \notin C
             /\ \A n \in m .. k : n \notin C
             /\ m \in L => i \in Listed
      BY <1>11, Zenon
    <3>2. m = 1 /\ e \notin 1 .. k
      BY <1>5, <3>1, Zenon
    <3>3. k < e
      BY ONLY <2>2, <3>2, k \in 1 .. Count(d)
    <3> QED
      BY <1>1, <1>4, <2>1, <3>1, <3>3, BeforeFirst, Zenon
  <2>4. ASSUME NEW i \in 0 .. F(d, e) - 1 PROVE i \in Missing \ Listed
    <3>1. PICK k \in 1 .. Count(d) : i \in F(d, k) .. F(d, k + 1) - 1 /\ k < e
      BY <1>1, <1>4, <2>1, BeforeFirst, Zenon
    <3>2. k \notin C
      <4>1. ~ (e <= k)
        BY ONLY <2>2, <3>1, k \in 1 .. Count(d)
      <4> QED
        BY <2>1, <4>1, Zenon
    <3>3. ASSUME NEW m \in L, m <= k PROVE FALSE
      <4>1. m \in 1 .. Count(d) /\ (m = 1 \/ m - 1 \in C)
        BY <1>5, Zenon DEF Begins
      <4>2. ~ (e <= m - 1)
        BY ONLY <2>2, <3>1, <3>3, <4>1, k \in 1 .. Count(d)
      <4> QED
        BY <1>13, <2>1, <4>1, <4>2, Zenon
    <3> QED
      BY <1>8, <3>1, <3>2, <3>3, Zenon
  <2>5. Missing \ Listed = 0 .. F(d, e) - 1
    BY <2>3, <2>4, Zenon
  <2> QED
    BY <2>1, <2>5, Zenon DEF FrontOf
<1>14. CASE 1 \in Begins(d, C) => 1 \in L
  <2>1. Missing \ Listed = {}
    BY <1>12, <1>14, Zenon
  <2>2. {} = 0 .. 0 - 1 /\ 0 \in 0 .. LastBlock
    BY BlocksOfBytes, BufferAssumption, EndlessNat DEF LastBlock
  <2>3. FrontOf(Missing \ Listed, LastBlock)
    BY <2>1, <2>2, Zenon DEF FrontOf
  <2>4. Listed = Missing
    BY <1>10, <1>12, <1>14, Zenon
  <2> QED
    BY <1>9, <1>10, <2>3, <2>4, Zenon
<1>15. CASE ~ (1 \in Begins(d, C) => 1 \in L)
  <2>1. FrontOf(Missing \ Listed, LastBlock)
    BY <1>13, <1>15, Zenon
  <2>2. ~ inFront
    BY <1>4, <1>15, Zenon DEF Begins
  <2> QED
    BY <1>9, <1>10, <2>1, <2>2, Zenon
<1> QED
  BY <1>14, <1>15, Zenon

(* ... and that a packet handed up lacks only the front.                    *)
LEMMA DInvHanded == HasLeast /\ DInv => HandedButForFront
<1> SUFFICES ASSUME HasLeast, DInv, handed # None PROVE
        /\ DOMAIN handed = 0 .. Blocks(TotalLen(ip_id)) - 1
        /\ FrontOf(Missing, LastBlock)
        /\ \A i \in DOMAIN handed \ Missing : handed[i] = Byte(ip_id, i)
  BY Zenon DEF HandedButForFront
<1> DEFINE d == ip_id
<1>1. d \in Datagrams
  BY Zenon DEF DInv
<1>2. PICK C \in SUBSET (1 .. Count(d)) :
         Received(d, C, payload, first_hole, total_len, arrived, inFront, handed)
  BY Zenon DEF DInv
<1>3. /\ C # {} /\ C \subseteq 1 .. Count(d) /\ \A c \in C : Cuts[d][c + 1] <= IP_MAXUDP
      /\ arrived = {Fragment(d, c) : c \in C} /\ Data(d, C, payload)
      /\ Begins(d, C) \subseteq {1}
      /\ handed = [i \in 0 .. Blocks(TotalLen(d)) - 1 |-> payload[i]]
  BY <1>2, Zenon DEF Received
<1>4. DOMAIN handed = 0 .. Blocks(TotalLen(d)) - 1
  BY ONLY <1>3, Zenon
<1>5. \A i \in DOMAIN handed : handed[i] = payload[i]
  BY ONLY <1>3, Zenon
<1>6. \A k \in 1 .. Count(d) : \A i \in F(d, k) .. F(d, k + 1) - 1 :
         i \in Missing <=> k \notin C
  BY <1>1, <1>3, MissingIs, Zenon
<1>7. ASSUME NEW i \in DOMAIN handed \ Missing PROVE handed[i] = Byte(d, i)
  <2>1. PICK k \in 1 .. Count(d) : i \in F(d, k) .. F(d, k + 1) - 1
    BY <1>1, <1>4, FragmentOfBlock, Zenon
  <2>2. k \in C
    BY <1>6, <2>1, Zenon
  <2>3. payload[i] = Byte(d, i)
    BY <1>3, <2>1, <2>2, Zenon DEF Data
  <2> QED
    BY <1>5, <2>3, Zenon
<1>8. PICK e \in C : F(d, e) \in 0 .. LastBlock /\ \A c \in C : e <= c
  BY <1>1, <1>3, FrontEnds, Zenon
<1>9. e \in 1 .. Count(d)
  BY <1>3, Zenon
<1>10. ASSUME NEW i \in Missing PROVE i \in 0 .. F(d, e) - 1
  <2>1. i \in 0 .. Blocks(TotalLen(d)) - 1
    BY Zenon DEF Missing
  <2>2. PICK k \in 1 .. Count(d) : i \in F(d, k) .. F(d, k + 1) - 1
    BY <1>1, <2>1, FragmentOfBlock, Zenon
  <2>3. k \notin C
    BY <1>6, <2>2, Zenon
  <2>4. PICK m \in Begins(d, C) : m <= k /\ \A n \in m .. k : n \notin C
    BY <1>1, <2>3, Begun, Zenon
  <2>5. m = 1 /\ e \notin 1 .. k
    BY <1>3, <2>4, Zenon
  <2>6. k < e
    BY ONLY <1>9, <2>5, k \in 1 .. Count(d)
  <2> QED
    BY <1>1, <1>3, <1>8, <2>2, <2>6, BeforeFirst, Zenon
<1>11. ASSUME NEW i \in 0 .. F(d, e) - 1 PROVE i \in Missing
  <2>1. PICK k \in 1 .. Count(d) : i \in F(d, k) .. F(d, k + 1) - 1 /\ k < e
    BY <1>1, <1>3, <1>8, BeforeFirst, Zenon
  <2>2. ~ (e <= k)
    BY ONLY <1>9, <2>1, k \in 1 .. Count(d)
  <2> QED
    BY <1>6, <1>8, <2>1, <2>2, Zenon
<1>12. Missing = 0 .. F(d, e) - 1
  BY <1>10, <1>11, Zenon
<1>13. FrontOf(Missing, LastBlock)
  BY <1>8, <1>12, Zenon DEF FrontOf
<1> QED
  BY <1>4, <1>7, <1>13, Zenon

-----------------------------------------------------------------------------
(* That hole takes whatever fragment comes.                                 *)
LEMMA ResetFinds ==
  ASSUME HasLeast, NEW d \in Datagrams, NEW q, List(d, {}, {1}, q, 0), q[0].last_byte = Endless,
         NEW s \in 0 .. Endless
  PROVE  FindHole(q, 0, s) = 0
<1>1. F(d, 1) = 0 /\ Endless >= s /\ s \in Nat /\ \A i, j \in {1} : ~ (i < j)
  BY FType, EndlessNat
<1>2. Looked(q, 0, s) =
         {F(d, k) : k \in {j \in {1} : \A i \in {1} : i < j => q[F(d, i)].last_byte < s}}
  <2>1. s \in Nat
    BY <1>1
  <2> HIDE <1>1
  <2> QED
    BY <2>1, LookedIs
<1>3. {j \in {1} : \A i \in {1} : i < j => q[F(d, i)].last_byte < s} = {1}
  BY <1>1, Zenon
<1>4. Looked(q, 0, s) = {0}
  <2>1. {F(d, k) : k \in {1}} = {0}
    BY <1>1, Zenon
  <2> QED
    BY ONLY <1>2, <1>3, <2>1, Zenon
<1>5. {i \in Looked(q, 0, s) : q[i].last_byte >= s} = {0}
  BY <1>1, <1>4, Zenon
<1> QED
  BY <1>5, Zenon DEF FindHole

(* NetDefragment() does one or the other.                                   *)
LEMMA DropOrTake ==
  ASSUME HasLeast, NEW d \in Datagrams, NEW k \in 1 .. Count(d), NEW f, f = Fragment(d, k),
         NEW C, NEW L, ReadyFor(f, d, C, L), NetDefragment(f),
         f.offset8 * 8 + f.len <= IP_MAXUDP
  PROVE  IsDropped(f) \/ \E j, r : IsTaken(f, d, C, L, k, j, r)
<1> DEFINE s == f.offset8 * 8
           p == BufferFor(f)
           first == HoleFor(f)
           h == FindHole(p, first, s)
           dropped == h = -1 \/ f.offset8 + Blocks(f.len) <= h
           q == IF f.more THEN p ELSE [p EXCEPT ![h].last_byte = s + f.len]
           r == FixHoles(q, first, h, f)
           len == IF f.more THEN LenFor(f) ELSE s + f.len
<1>1. /\ f.ip_id = d /\ f.offset8 = F(d, k) /\ s = Cuts[d][k] /\ s + f.len = Cuts[d][k + 1]
      /\ f.offset8 + Blocks(f.len) = F(d, k + 1) /\ (f.more <=> k < Count(d))
  BY FragmentIs
<1>2. ~ (f.offset8 * 8 + f.len > IP_MAXUDP)
  <2>1. f.offset8 * 8 + f.len \in Nat /\ IP_MAXUDP \in Nat
    <3>1. k + 1 \in 1 .. Count(d) + 1
      BY CutType
    <3> QED
      BY <1>1, <3>1, CutType, BufferAssumption, EndlessNat
  <2> QED
    BY ONLY SMTT(30), <2>1, f.offset8 * 8 + f.len <= IP_MAXUDP
<1>3. /\ ip_id' = f.ip_id
      /\ \/ /\ dropped
            /\ payload' = p
            /\ first_hole' = first
            /\ total_len' = LenFor(f)
            /\ arrived' = ArrivedFor(f)
            /\ UNCHANGED inFront
            /\ handed' = None
         \/ /\ ~ dropped
            /\ payload' = CopyFragment(r.p, f)
            /\ first_hole' = r.first
            /\ total_len' = len
            /\ arrived' = {f} \cup ArrivedFor(f)
            /\ inFront' = IF Reset(f) THEN f.offset8 = 0 ELSE inFront
            /\ handed' = IF r.done
                         THEN [i \in 0 .. Blocks(len) - 1 |-> CopyFragment(r.p, f)[i]]
                         ELSE None
  BY <1>2, ZenonT(30) DEF NetDefragment, BufferFor, HoleFor, LenFor, ArrivedFor
<1>4. List(d, C, L, p, first) /\ s \in 0 .. Endless /\ s \in Nat
  <2>1. k \in 1 .. Count(d) + 1
    BY SMTT(30), CutType
  <2> QED
    BY SMTT(30), <1>1, <2>1, CutType, EndlessNat DEF ReadyFor
<1>5. CASE dropped
  <2>1. ~ Reset(f)
    <3> SUFFICES ASSUME Reset(f) PROVE FALSE
      OBVIOUS
    <3>1. C = {} /\ L = {1} /\ p[0].last_byte = Endless /\ first = 0
      BY Zenon DEF ReadyFor
    <3>2. List(d, {}, {1}, p, 0)
      BY <1>4, <3>1, Zenon
    <3> HIDE DEF p, first, s
    <3>3. FindHole(p, 0, s) = 0
      BY <1>4, <3>1, <3>2, ResetFinds, Zenon
    <3>4. h = 0
      BY <3>1, <3>3, ZenonT(30)
    <3>5. F(d, k + 1) > 0
      <4>1. /\ k + 1 \in 1 .. Count(d) + 1 /\ 1 \in 1 .. Count(d) + 1 /\ ~ (k + 1 <= 1)
            /\ F(d, 1) = 0 /\ F(d, k + 1) \in Nat
        BY CutType, FType
      <4>2. F(d, k + 1) <= F(d, 1) <=> k + 1 <= 1
        BY <4>1, FSame, Zenon
      <4> QED
        BY ONLY SMTT(30), <4>1, <4>2
    <3>6. h = -1 \/ F(d, k + 1) <= h
      BY <1>1, <1>5, Zenon
    <3>7. F(d, k + 1) \in Nat
      BY CutType, FType
    <3> QED
      BY ONLY <3>4, <3>5, <3>6, <3>7
  <2>2. /\ p = payload /\ first = first_hole /\ LenFor(f) = total_len
        /\ ArrivedFor(f) = arrived
    BY <2>1, Zenon DEF BufferFor, HoleFor, LenFor, ArrivedFor
  <2>3. total_len # 0 /\ ip_id = f.ip_id
    BY <2>1, Zenon DEF Reset
  <2>4. IsDropped(f)
    BY ONLY <1>3, <1>5, <2>2, <2>3, Zenon DEF IsDropped
  <2> QED
    BY <2>4, Zenon
<1>6. CASE ~ dropped
  <2>1. h # -1 /\ ~ (F(d, k + 1) <= h)
    BY <1>1, <1>6, Zenon
  <2>2. PICK j \in L : h = F(d, j) /\ p[F(d, j)].last_byte >= s
    <3> HIDE DEF p, first, s
    <3>1. h = -1 \/ Found(d, L, p, s, h)
      BY <1>4, Finds, Zenon
    <3> QED
      BY <2>1, <3>1, Zenon DEF Found
  <2>3. q = Given(d, p, k, j)
    <3> HIDE DEF p, s, h
    <3> QED
      BY <1>1, <2>2, Zenon DEF Given, WithLast
  <2>4. r = FixHoles(Given(d, p, k, j), first, F(d, j), f)
    <3> HIDE DEF p, first, q, h
    <3> QED
      BY <2>2, <2>3, Zenon
  <2>5. len = IF k < Count(d) THEN LenFor(f) ELSE Cuts[d][k + 1]
    <3> HIDE DEF s
    <3> QED
      BY <1>1, Zenon
  <2>6. p[F(d, j)].last_byte >= Cuts[d][k] /\ ~ (F(d, k + 1) <= F(d, j))
    <3> HIDE DEF p, s, h
    <3> QED
      BY <1>1, <2>1, <2>2, Zenon
  <2>7. IsTaken(f, d, C, L, k, j, r)
    <3> HIDE DEF r, len, h, s, q
    <3> QED
      BY <1>1, <1>3, <1>6, <2>2, <2>4, <2>5, <2>6, Zenon DEF IsTaken
  <2> HIDE DEF r
  <2> QED
    BY <2>7, Zenon
<1> QED
  BY <1>5, <1>6, ZenonT(30)

(* What was received is one fragment more.                                  *)
LEMMA TakenReceived ==
  ASSUME HasLeast, NEW d \in Datagrams, NEW k \in 1 .. Count(d), NEW f, f = Fragment(d, k),
         Cuts[d][k + 1] <= IP_MAXUDP, NEW C, NEW L, ReadyFor(f, d, C, L),
         NEW j, NEW r, IsTaken(f, d, C, L, k, j, r)
  PROVE  /\ DOMAIN payload' = 0 .. LastBlock /\ total_len' # 0 /\ ip_id' = d
         /\ C \cup {k} \in SUBSET (1 .. Count(d))
         /\ Received(d, C \cup {k}, payload', first_hole', total_len', arrived', inFront',
                     handed')
<1> DEFINE E == C \cup {k}
           p == BufferFor(f)
           len == IF k < Count(d) THEN LenFor(f) ELSE Cuts[d][k + 1]
<1>1. /\ C \subseteq 1 .. Count(d) /\ List(d, C, L, p, HoleFor(f)) /\ Data(d, C, p)
      /\ LenFor(f) = IF Count(d) \in C THEN TotalLen(d) ELSE Endless
      /\ ArrivedFor(f) = {Fragment(d, c) : c \in C}
      /\ ~ Reset(f) => C # {} /\ (inFront => 1 \in C)
  BY Zenon DEF ReadyFor
<1>2. /\ j \in L /\ p[F(d, j)].last_byte >= Cuts[d][k] /\ ~ (F(d, k + 1) <= F(d, j))
      /\ r = FixHoles(Given(d, p, k, j), HoleFor(f), F(d, j), f)
      /\ ip_id' = d /\ payload' = CopyFragment(r.p, f) /\ first_hole' = r.first
      /\ total_len' = len /\ arrived' = {f} \cup ArrivedFor(f)
      /\ inFront' = IF Reset(f) THEN f.offset8 = 0 ELSE inFront
      /\ handed' = IF r.done THEN [i \in 0 .. Blocks(len) - 1 |-> payload'[i]] ELSE None
  BY Zenon DEF IsTaken
<1>3. TakenInto(d, C, k, r, payload')
  <2> HIDE DEF p, len
  <2> QED
    BY <1>1, <1>2, TakeFragment, Zenon
<1> HIDE DEF p
<1>4. /\ r.done \in BOOLEAN /\ DOMAIN payload' = 0 .. LastBlock /\ Data(d, E, payload')
      /\ r.done => Begins(d, E) \subseteq {1}
      /\ ~ r.done => \E K : List(d, E, K, payload', first_hole')
  BY <1>2, <1>3, Zenon DEF TakenInto
<1>5. E \in SUBSET (1 .. Count(d)) /\ E # {} /\ \A c \in E : Cuts[d][c + 1] <= IP_MAXUDP
  BY <1>1, Zenon DEF List
<1>6. arrived' = {Fragment(d, c) : c \in E}
  BY <1>1, <1>2, Zenon
<1>7. inFront' => 1 \in E
  <2>1. CASE Reset(f)
    <3>1. f.offset8 = F(d, k) /\ F(d, 1) = 0 /\ k \in 1 .. Count(d) + 1
          /\ 1 \in 1 .. Count(d) + 1
      BY SMTT(30), FragmentIs, FType, CutType
    <3>2. F(d, k) = F(d, 1) <=> k = 1
      BY <3>1, FSame, Zenon
    <3> QED
      BY <1>2, <2>1, <3>1, <3>2, ZenonT(30)
  <2>2. CASE ~ Reset(f)
    BY <1>1, <1>2, <2>2, Zenon
  <2> QED
    BY <2>1, <2>2, Zenon
<1>8. total_len' = IF Count(d) \in E THEN TotalLen(d) ELSE Endless
  <2>1. CASE k < Count(d)
    <3>1. k # Count(d)
      BY SMTT(30), <2>1, CutType
    <3>2. Count(d) \in E <=> Count(d) \in C
      BY <3>1, Zenon
    <3> QED
      BY <1>1, <1>2, <2>1, <3>2, ZenonT(30)
  <2>2. CASE ~ (k < Count(d))
    <3>1. k = Count(d)
      BY <2>2, CutType
    <3>2. Count(d) \in E /\ TotalLen(d) = Cuts[d][k + 1]
      BY <3>1, Zenon DEF TotalLen
    <3> QED
      BY <1>2, <2>2, <3>2, Zenon
  <2> QED
    BY <2>1, <2>2, Zenon
<1>9. total_len' # 0
  <2>1. TotalLen(d) # 0 /\ Endless # 0
    BY TotalLenIs
  <2> QED
    BY <1>8, <2>1, ZenonT(30)
<1>10. CASE r.done
  <2>1. Begins(d, E) \subseteq {1} /\ Count(d) \in E
    BY <1>4, <1>5, <1>10, LastCame, Zenon
  <2>2. len = TotalLen(d)
    BY <1>2, <1>8, <2>1, Zenon
  <2>3. handed' = [i \in 0 .. Blocks(TotalLen(d)) - 1 |-> payload'[i]]
    BY <1>2, <1>10, <2>2, Zenon
  <2>4. handed' # None
    BY <2>3, TotalLenIs, PacketNotNone, Zenon
  <2> HIDE DEF E, len
  <2> QED
    BY <1>2, <1>4, <1>5, <1>6, <1>7, <1>8, <1>9, <2>1, <2>3, <2>4, Zenon DEF Received, E
<1>11. CASE ~ r.done
  <2>1. handed' = None
    BY <1>2, <1>11, Zenon
  <2>2. PICK K : List(d, E, K, payload', first_hole')
    BY <1>4, <1>11, Zenon
  <2>3. K \in SUBSET Begins(d, E)
    BY <2>2, Zenon DEF List
  <2> HIDE DEF E, len
  <2> QED
    BY <1>2, <1>4, <1>5, <1>6, <1>7, <1>8, <1>9, <2>1, <2>2, <2>3, Zenon DEF Received, E
<1> QED
  BY <1>4, <1>10, <1>11, Zenon

-----------------------------------------------------------------------------
(* DInv is an invariant: it holds at first, ...                             *)
LEMMA DInvInit == DefragInit => DInv
<1> SUFFICES ASSUME DefragInit PROVE DInv
  OBVIOUS
<1>1. DOMAIN payload = 0 .. LastBlock /\ total_len = 0 /\ handed = None
  BY Zenon DEF DefragInit
<1> QED
  BY <1>1, Zenon DEF DInv

(* ... and whatever fragment comes, in whatever order, it is kept.          *)
LEMMA DInvNext == HasLeast /\ DInv /\ [DefragNext]_defragVars => DInv'
<1> SUFFICES ASSUME HasLeast, DInv, [DefragNext]_defragVars PROVE DInv'
  OBVIOUS
<1>1. CASE UNCHANGED defragVars
  <2>1. UNCHANGED <<payload, first_hole, total_len, ip_id, handed, arrived, inFront>>
    BY <1>1, Zenon DEF defragVars
  <2> QED
    BY <2>1, Zenon DEF DInv
<1>2. ASSUME NEW f \in Fragments, ReceiveFragment(f) PROVE DInv'
  <2>1. (handed # None => f.ip_id # ip_id) /\ NetDefragment(f)
    BY <1>2, Zenon DEF ReceiveFragment
  <2>2. PICK d \in Datagrams : \E k \in 1 .. Count(d) : f = Fragment(d, k)
    BY <1>2, Zenon DEF Fragments
  <2>3. PICK k \in 1 .. Count(d) : f = Fragment(d, k)
    BY <2>2, Zenon
  <2>4. f.ip_id = d /\ f.offset8 * 8 + f.len = Cuts[d][k + 1]
    BY <2>3, FragmentIs
  <2>5. CASE f.offset8 * 8 + f.len > IP_MAXUDP
    <3>1. ~ (f.offset8 * 8 + f.len <= IP_MAXUDP)
      <4>1. f.offset8 * 8 + f.len \in Nat /\ IP_MAXUDP \in Nat
        <5>1. k + 1 \in 1 .. Count(d) + 1
          BY CutType
        <5> QED
          BY <2>4, <5>1, CutType, BufferAssumption, EndlessNat
      <4> QED
        BY ONLY <2>5, <4>1
    <3>2. UNCHANGED <<payload, first_hole, total_len, ip_id, handed, arrived, inFront>>
      BY <2>1, <3>1, Zenon DEF NetDefragment
    <3> QED
      BY <3>2, Zenon DEF DInv
  <2>6. CASE f.offset8 * 8 + f.len <= IP_MAXUDP
    <3>1. PICK C, L : ReadyFor(f, d, C, L)
      <4>1. CASE Reset(f)
        BY <4>1, ReadyReset, Zenon
      <4>2. CASE ~ Reset(f)
        <5>1. ip_id = d /\ handed = None
          BY <2>1, <2>4, <4>2, Zenon DEF Reset
        <5> QED
          BY <4>2, <5>1, ReadyInProgress, Zenon
      <4> QED
        BY <4>1, <4>2, Zenon
    <3>2. CASE IsDropped(f)
      <4>1. /\ total_len # 0 /\ ip_id = f.ip_id
            /\ UNCHANGED <<payload, first_hole, total_len, ip_id, arrived, inFront>>
            /\ handed' = None
        BY <3>2, Zenon DEF IsDropped
      <4>2. handed = None
        BY <2>1, <4>1, Zenon
      <4> QED
        BY <4>1, <4>2, Zenon DEF DInv
    <3>3. CASE \E j, r : IsTaken(f, d, C, L, k, j, r)
      <4>1. PICK j, r : IsTaken(f, d, C, L, k, j, r)
        BY <3>3, Zenon
      <4>2. Cuts[d][k + 1] <= IP_MAXUDP
        BY <2>4, <2>6, Zenon
      <4>3. /\ DOMAIN payload' = 0 .. LastBlock /\ total_len' # 0 /\ ip_id' = d
            /\ C \cup {k} \in SUBSET (1 .. Count(d))
            /\ Received(d, C \cup {k}, payload', first_hole', total_len', arrived',
                        inFront', handed')
        BY <2>3, <3>1, <4>1, <4>2, TakenReceived, Zenon
      <4> QED
        BY <4>3, Zenon DEF DInv
    <3> QED
      BY <2>1, <2>3, <2>6, <3>1, <3>2, <3>3, DropOrTake, Zenon
  <2> QED
    <3>1. f.offset8 * 8 + f.len > IP_MAXUDP \/ f.offset8 * 8 + f.len <= IP_MAXUDP
      BY <2>1, Zenon DEF NetDefragment
    <3> QED
      BY <2>5, <2>6, <3>1, Zenon
<1> QED
  BY <1>1, <1>2, Zenon DEF DefragNext

-----------------------------------------------------------------------------
INSTANCE WellFoundedInduction

(* A set of natural numbers has a least element.                            *)
LEMMA Least == HasLeast
<1> SUFFICES ASSUME NEW T, T \subseteq Nat, T # {}
             PROVE  \E n \in T : \A m \in T : n <= m
  BY Zenon DEF HasLeast
<1> DEFINE Less == {ss \in Nat \X Nat : ss[1] < ss[2]}
<1>1. IsWellFoundedOn(Less, Nat)
  BY NatLessThanWellFounded, Zenon DEF OpToRel
<1>2. \E x \in T : \A y \in T : ~(<<y, x>> \in Less)
  <2> HIDE DEF Less
  <2> QED
    BY <1>1, WFMin, Zenon
<1>3. PICK n \in T : \A m \in T : ~(<<m, n>> \in Less)
  BY <1>2, Zenon
<1>4. ASSUME NEW m \in T PROVE n <= m
  <2>1. ~(<<m, n>> \in Less) /\ <<m, n>> \in Nat \X Nat
    BY <1>3, Zenon
  <2>2. <<m, n>>[1] = m /\ <<m, n>>[2] = n
    OBVIOUS
  <2> QED
    BY <2>1, <2>2
<1> QED
  BY <1>4, Zenon

(* Whatever the cuts, the size of the buffer and the order, losses and      *)
(* repeats of the fragments: the list of holes of __NetDefragment() is what *)
(* is missing, but for a front it may lose, and what came is in the buffer. *)
THEOREM HolesAreMissing == DefragSpec => []ListIsMissing
<1>1. DefragInit => DInv
  BY DInvInit
<1>2. DInv /\ [DefragNext]_defragVars => DInv'
  BY Least, DInvNext, Zenon
<1>3. DInv => ListIsMissing
  BY Least, DInvList, Zenon
<1> QED
  BY <1>1, <1>2, <1>3, PTL DEF DefragSpec

(* The packet __NetDefragment() returns has the datagram's length and every *)
(* block of it from the first fragment that was taken on.                   *)
THEOREM HandedUp == DefragSpec => []HandedButForFront
<1>1. DefragInit => DInv
  BY DInvInit
<1>2. DInv /\ [DefragNext]_defragVars => DInv'
  BY Least, DInvNext, Zenon
<1>3. DInv => HandedButForFront
  BY Least, DInvHanded, Zenon
<1> QED
  BY <1>1, <1>2, <1>3, PTL DEF DefragSpec

=============================================================================
