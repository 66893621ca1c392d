------------------------------ MODULE IpDefrag ------------------------------
(***************************************************************************)
(* Reassembly of IP fragments, __NetDefragment() of net/net.c: one static  *)
(* buffer, in which the holes still to be filled are described by a linked *)
(* list written into the holes themselves.  Offsets and the list's indices *)
(* count blocks of 8 bytes, lengths and last_byte count bytes.             *)
(*                                                                         *)
(* The network sends the fragments of the datagrams in Datagrams in any    *)
(* order, loses some and repeats some.  Two things it does not do: it      *)
(* sends no fragment of a datagram that was handed up already (the code    *)
(* would then read payload bytes as a hole), and it does not reuse an      *)
(* ip_id.                                                                  *)
(***************************************************************************)
EXTENDS Integers, Sequences

CONSTANTS
    Datagrams,      \* the ip_ids of the datagrams under way
    Cuts,           \* Cuts[d]: the bytes at which the fragments of d begin,
                    \* and at which the last one ends
    IP_MAXUDP,      \* bytes the buffer holds after the IP header
    MaxRepeats      \* bound: how many fragments the network repeats

(* 0xffff: the end of a datagram whose last fragment has not come.          *)
Endless == 256 * 256 - 1

(* The fragments of a datagram follow each other, and all but the last are  *)
(* whole blocks; ip_len has 16 bits.                                        *)
ASSUME CutsAssumption ==
    \A d \in Datagrams :
        /\ Cuts[d] \in Seq(0 .. Endless)
        /\ Len(Cuts[d]) > 2
        /\ Cuts[d][1] = 0
        /\ \A j, k \in 1 .. Len(Cuts[d]) : j < k => Cuts[d][j] < Cuts[d][k]
        /\ \A k \in 1 .. Len(Cuts[d]) - 1 : Cuts[d][k] % 8 = 0

ASSUME BufferAssumption == IP_MAXUDP \in 1 .. Endless - 1

VARIABLES
    payload,        \* the buffer, by block: a hole descriptor or data
    first_hole,
    total_len,
    ip_id,          \* localip->ip_id: the datagram being reassembled, 0 at first
    handed,         \* the packet returned for ip_id, by block
    arrived,        \* history: fragments of ip_id taken since the reset
    inFront,        \* history: the first of them was the datagram's first
    seen,           \* fragments the network has delivered at least once
    repeats         \* fragments it delivered again

defragVars ==
    <<payload, first_hole, total_len, ip_id, handed, arrived, inFront, seen,
      repeats>>

-----------------------------------------------------------------------------
(* Fragments *)

Blocks(bytes) == (bytes + 7) \div 8

LastBlock == Blocks(IP_MAXUDP)

Count(d) == Len(Cuts[d]) - 1
TotalLen(d) == Cuts[d][Count(d) + 1]

(* The k-th fragment of datagram d: its ip_id, where its bytes start, how   *)
(* many there are, and the more-fragments flag.                             *)
Fragment(d, k) ==
    [ip_id |-> d, offset8 |-> Cuts[d][k] \div 8, len |-> Cuts[d][k + 1] - Cuts[d][k],
     more |-> k < Count(d)]

Fragments == UNION {{Fragment(d, k) : k \in 1 .. Count(d)} : d \in Datagrams}

BlocksOf(f) == f.offset8 .. f.offset8 + Blocks(f.len) - 1

Byte(d, i) == [data |-> d, block |-> i]

NoHole == [last_byte |-> 0, next_hole |-> 0, prev_hole |-> 0]

-----------------------------------------------------------------------------
(* __NetDefragment *)

(* A first fragment, or one of another datagram, resets the structures.     *)
Reset(f) == total_len = 0 \/ ip_id # f.ip_id

OneHole == [payload EXCEPT ![0] = [NoHole EXCEPT !.last_byte = Endless]]

(* The blocks that hold a descriptor, of a hole that is or was.             *)
Described(p) == {i \in 0 .. LastBlock : "last_byte" \in DOMAIN p[i]}

(* The holes a search from one of them looks at: after each that ends       *)
(* before byte "start" the next.                                            *)
Looked(p, from, start) ==
    LET goesOn == {j \in Described(p) : p[j].last_byte < start /\ p[j].next_hole # 0}
        closed == {S \in SUBSET (0 .. LastBlock) :
                      from \in S /\ \A j \in S \cap goesOn : p[j].next_hole \in S}
    IN  {i \in 0 .. LastBlock : \A S \in closed : i \in S}

(* The first hole that ends at or behind byte "start", -1 if there is none. *)
FindHole(p, from, start) ==
    LET far == {i \in Looked(p, from, start) : p[i].last_byte >= start}
    IN  IF far = {} THEN -1 ELSE CHOOSE i \in far : TRUE

(* Complete overlap: the hole is taken out of the list.                     *)
RemoveHole(p, from, h) ==
    LET prev == p[h].prev_hole
        next == p[h].next_hole
    IN  CASE prev = 0 /\ next = 0 -> [p |-> p, first |-> from, done |-> TRUE]
          [] prev = 0 /\ next # 0 ->
                [p |-> [p EXCEPT ![next].prev_hole = 0], first |-> next, done |-> FALSE]
          [] prev # 0 /\ next = 0 ->
                [p |-> [p EXCEPT ![prev].next_hole = 0], first |-> from, done |-> FALSE]
          [] OTHER ->
                [p |-> [p EXCEPT ![next].prev_hole = prev, ![prev].next_hole = next],
                 first |-> from, done |-> FALSE]

(* The fragment covers the beginning of the hole: the hole moves.           *)
MoveHole(p, from, h, newh) ==
    LET q == [p EXCEPT ![newh] = p[h]]
        r == IF q[newh].next_hole # 0
             THEN [q EXCEPT ![q[newh].next_hole].prev_hole = newh] ELSE q
    IN  IF r[newh].prev_hole # 0
        THEN [p |-> [r EXCEPT ![r[newh].prev_hole].next_hole = newh], first |-> from,
              done |-> FALSE]
        ELSE [p |-> r, first |-> newh, done |-> FALSE]

(* Mutant: the new hole is not linked to the old one.                       *)
SplitUnlinked(p, from, h, newh, start) ==
    [p |-> [p EXCEPT ![newh] = [p[h] EXCEPT !.prev_hole = h], ![h].last_byte = start],
     first |-> from, done |-> FALSE]

(* The fragment sits in the middle: the hole is split.                      *)
SplitHole(p, from, h, newh, start) ==
    LET q == [p EXCEPT ![newh] = [p[h] EXCEPT !.prev_hole = h],
                       ![h].last_byte = start, ![h].next_hole = newh]
    IN  [p |-> IF q[newh].next_hole # 0
               THEN [q EXCEPT ![q[newh].next_hole].prev_hole = newh] ELSE q,
         first |-> from, done |-> FALSE]

(* The fragment covers the end of the hole.                                 *)
ShrinkHole(p, from, h, start) ==
    [p |-> [p EXCEPT ![h].last_byte = start], first |-> from, done |-> FALSE]

FixHoles(p, from, h, f) ==
    LET start == f.offset8 * 8
        end == start + f.len
        newh == f.offset8 + f.len \div 8
    IN  CASE h >= f.offset8 /\ p[h].last_byte <= end -> RemoveHole(p, from, h)
          [] h < f.offset8 /\ p[h].last_byte <= end ->
                ShrinkHole(p, from, h, start)
          [] h >= f.offset8 /\ p[h].last_byte > end -> MoveHole(p, from, h, newh)
          [] OTHER -> SplitHole(p, from, h, newh, start)

(* Mutant: only whole blocks are copied.                                    *)
CopyWholeBlocks(p, f) ==
    [i \in DOMAIN p |-> IF i \in f.offset8 .. f.offset8 + f.len \div 8 - 1
                       THEN Byte(f.ip_id, i) ELSE p[i]]

CopyFragment(p, f) ==
    [i \in DOMAIN p |-> IF i \in BlocksOf(f) THEN Byte(f.ip_id, i) ELSE p[i]]

None == <<>>

(* One call.  A datagram that is complete is handed up, as the blocks the   *)
(* buffer holds up to total_len.                                            *)
NetDefragment(f) ==
    LET start == f.offset8 * 8
        p == IF Reset(f) THEN OneHole ELSE payload
        from == IF Reset(f) THEN 0 ELSE first_hole
        tot == IF Reset(f) THEN Endless ELSE total_len
        h == FindHole(p, from, start)
        dropped == h = -1 \/ f.offset8 + Blocks(f.len) <= h
        q == IF f.more THEN p ELSE [p EXCEPT ![h].last_byte = start + f.len]
        fixed == FixHoles(q, from, h, f)
        copied == CopyFragment(fixed.p, f)
        len == IF f.more THEN tot ELSE start + f.len
    IN  \/ /\ start + f.len > IP_MAXUDP
           /\ UNCHANGED <<payload, first_hole, total_len, ip_id, handed, arrived,
                         inFront>>
        \/ /\ start + f.len <= IP_MAXUDP
           /\ ip_id' = f.ip_id
           /\ \/ /\ dropped
                 /\ payload' = p
                 /\ first_hole' = from
                 /\ total_len' = tot
                 /\ arrived' = IF Reset(f) THEN {} ELSE arrived
                 /\ UNCHANGED inFront
                 /\ handed' = None
              \/ /\ ~dropped
                 /\ payload' = copied
                 /\ first_hole' = fixed.first
                 /\ total_len' = len
                 /\ arrived' = {f} \cup IF Reset(f) THEN {} ELSE arrived
                 /\ inFront' = IF Reset(f) THEN f.offset8 = 0 ELSE inFront
                 /\ handed' = IF fixed.done
                              THEN [i \in 0 .. Blocks(len) - 1 |-> copied[i]]
                              ELSE None

-----------------------------------------------------------------------------
(* The network *)

DefragInit ==
    /\ payload = [i \in 0 .. LastBlock |-> NoHole]
    /\ first_hole = 0
    /\ total_len = 0
    /\ ip_id = 0
    /\ handed = None
    /\ arrived = {}
    /\ inFront = FALSE
    /\ seen = {}
    /\ repeats = 0

(* A fragment arrives, for the first time or again.                         *)
ReceiveFragment(f) ==
    /\ handed # None => f.ip_id # ip_id
    /\ \/ f \notin seen /\ UNCHANGED repeats
       \/ f \in seen /\ repeats < MaxRepeats /\ repeats' = repeats + 1
    /\ seen' = seen \cup {f}
    /\ NetDefragment(f)

DefragNext == \E f \in Fragments : ReceiveFragment(f)

DefragSpec == DefragInit /\ [][DefragNext]_defragVars

-----------------------------------------------------------------------------
(* Properties *)

InProgress == total_len # 0 /\ handed = None

(* The blocks of the datagram in progress that no fragment taken since the  *)
(* last reset brought.                                                      *)
Missing ==
    (0 .. Blocks(TotalLen(ip_id)) - 1)
        \ UNION {BlocksOf(f) : f \in arrived}

(* The blocks the list of holes says are missing.                           *)
Listed ==
    {i \in 0 .. Blocks(TotalLen(ip_id)) - 1 :
        \E h \in Looked(payload, first_hole, Endless + 1) :
            h <= i /\ i < Blocks(payload[h].last_byte)}

FrontOf(S, n) == \E k \in 0 .. n : S = 0 .. k - 1

(* The blocks that came are in the buffer, and the list of holes describes  *)
(* the others, whatever the order of the fragments and whichever are        *)
(* repeated.  What the list may lose is the hole at the front, whose index  *)
(* 0 also means "no hole", and this only when the first fragment was not    *)
(* the first to arrive.                                                     *)
ListIsMissing ==
    InProgress =>
        /\ \A i \in (0 .. LastBlock) \ Missing :
              i < Blocks(TotalLen(ip_id)) => payload[i] = Byte(ip_id, i)
        /\ Listed \subseteq Missing
        /\ FrontOf(Missing \ Listed, LastBlock)
        /\ inFront => Listed = Missing

(* A packet handed up has the length of the datagram, and every block of it *)
(* from the first fragment that was taken on.                               *)
HandedButForFront ==
    handed # None =>
        /\ DOMAIN handed = 0 .. Blocks(TotalLen(ip_id)) - 1
        /\ FrontOf(Missing, LastBlock)
        /\ \A i \in DOMAIN handed \ Missing : handed[i] = Byte(ip_id, i)

(* The comment on __NetDefragment: it returns NULL or a complete packet.    *)
HandedIsComplete == handed # None => Missing = {}
=============================================================================
