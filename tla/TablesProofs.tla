---------------------------- MODULE TablesProofs ----------------------------
(* Proofs about the environment in RAM, lib/hashtable.c: for every set of   *)
(* names, every hash code and every size of the table getenv() gives what   *)
(* was set and hexport_r() writes it, and with every size that hcreate_r()  *)
(* chooses the search comes to every slot.                                  *)
EXTENDS Tables, FiniteSetTheorems, TLAPS

(* A set of natural numbers has a least element.                            *)
LEMMA Least ==
  ASSUME NEW T, T \subseteq Nat, T # {}
  PROVE  \E n \in T : \A m \in T : n <= m
<1> DEFINE Less == {ss \in Nat \X Nat : ss[1] < ss[2]}
<1>1. IsWellFoundedOn(Less, Nat)
  BY NatLessThanWellFounded, Zenon DEF OpToRel
<1>2. \E x \in T : \A y \in T : ~(<<y, x>> \in Less)
  <2> HIDE DEF Less
  <2> QED
    BY <1>1, WFMin, Zenon
<1>3. PICK n \in T : \A m \in T : ~(<<m, n>> \in Less)
  BY <1>2, Zenon
<1>4. ASSUME NEW m \in T PROVE n <= m
  <2>1. ~(<<m, n>> \in Less) /\ <<m, n>> \in Nat \X Nat
    BY <1>3, Zenon
  <2>2. <<m, n>>[1] = m /\ <<m, n>>[2] = n
    OBVIOUS
  <2> QED
    BY <2>1, <2>2
<1> QED
  BY <1>4, Zenon

Slot == [used : Int, key : Keys \cup {NoKey}, data : Vals \cup {NoVal}]
Pairs == [key : Keys, data : Vals \cup {NoVal}]

HTInv ==
  /\ size \in Sizes
  /\ table \in [1 .. size -> Slot]
  /\ env \in [Keys -> Vals \cup {NoVal}]

(* An entry is that of a variable that is set, and has its value.           *)
LiveInv ==
  \A i \in Live : /\ table[i].key \in Keys
                  /\ table[i].used = hval(table[i].key)
                  /\ table[i].data = env[table[i].key]
                  /\ table[i].data # NoVal

(* A variable has one entry, ...                                            *)
OnceInv == \A i, j \in Live : table[i].key = table[j].key => i = j

(* ... and no slot on the way to it was never used.                         *)
PathInv ==
  \A k \in Keys : env[k] # NoVal =>
    \E n \in 0 .. size : /\ Holds(Probe(k, n), k)
                         /\ \A m \in 0 .. n - 1 : table[Probe(k, m)].used # 0

CountInv == Cardinality(Live) = filled

EntriesInv == HTInv /\ LiveInv /\ OnceInv /\ PathInv /\ CountInv

ImpInv ==
  imp \in [pairs : Seq(Pairs), all : BOOLEAN, names : SUBSET Keys]

HInv == ImpInv /\ (~overrun => EntriesInv)

-----------------------------------------------------------------------------
(* The indices tried are those of the table, beginning with the hash value. *)
LEMMA Probing ==
  ASSUME size \in Sizes, NEW k \in Keys
  PROVE  /\ hval(k) \in 1 .. size /\ size \in Nat
         /\ \A n \in Nat : Probe(k, n) \in 1 .. size
         /\ Probe(k, 0) = hval(k)
<1>1. size \in Nat /\ size >= 3 /\ Code[k] \in Nat
  BY SizesAssumption, CodeAssumption
<1>2. \A a \in Int : a % size \in 0 .. size - 1
  BY <1>1
<1>3. hval(k) \in 1 .. size - 1
  <2> DEFINE c == Code[k] % size
  <2>1. c \in 0 .. size - 1
    BY <1>1, <1>2
  <2>2. hval(k) = IF c = 0 THEN 1 ELSE c
    BY DEF hval
  <2> HIDE DEF c
  <2> QED
    BY <1>1, <2>1, <2>2
<1>4. hval2(k) \in Nat
  <2> DEFINE d == size - 2
  <2>1. d \in Nat \ {0} /\ hval(k) \in Nat
    BY <1>1, <1>3
  <2> HIDE DEF d
  <2>2. hval(k) % d \in Nat
    BY <2>1
  <2> USE DEF d
  <2> QED
    BY <2>2 DEF hval2
<1>5. ASSUME NEW n \in Nat PROVE Probe(k, n) \in 1 .. size
  <2> DEFINE a == hval(k) - 1 - (n * hval2(k))
  <2>1. a \in Int
    BY <1>3, <1>4
  <2>2. a % size \in 0 .. size - 1
    BY <1>2, <2>1
  <2>3. Probe(k, n) = (a % size) + 1
    BY DEF Probe
  <2> HIDE DEF a
  <2> DEFINE b == a % size
  <2> HIDE DEF b
  <2>4. b \in 0 .. size - 1 /\ Probe(k, n) = b + 1
    BY <2>2, <2>3 DEF b
  <2> QED
    BY <1>1, <2>4
<1>6. Probe(k, 0) = hval(k)
  <2> DEFINE a == hval(k) - 1
  <2>1. a \in 0 .. size - 1 /\ hval(k) = a + 1
    BY <1>1, <1>3
  <2>2. hval(k) - 1 - (0 * hval2(k)) = a
    BY <1>3, <1>4
  <2> HIDE DEF a
  <2>3. a % size = a
    BY <1>1, <2>1
  <2> QED
    BY <2>1, <2>2, <2>3 DEF Probe
<1> QED
  BY <1>1, <1>3, <1>5, <1>6

(* The loop of hsearch_r() ends, after a round at the latest.               *)
LEMMA SearchStops ==
  ASSUME size \in Sizes, NEW k \in Keys
  PROVE  /\ Last(k) \in 0 .. size
         /\ Last(k) = size \/ Ends(k, Last(k))
         /\ \A m \in 0 .. Last(k) - 1 : ~Ends(k, m)
         /\ LastIdx(k) \in 1 .. size
<1> DEFINE T == {n \in 0 .. size : n = size \/ Ends(k, n)}
<1>1. size \in Nat
  BY SizesAssumption
<1>2. T \subseteq Nat /\ size \in T
  BY <1>1
<1>3. PICK n \in T : \A m \in T : n <= m
  <2> HIDE DEF T
  <2> QED
    BY Zenon, <1>2, Least
<1>4. /\ n \in 0 .. size
      /\ n = size \/ Ends(k, n)
      /\ \A m \in 0 .. n - 1 : ~Ends(k, m)
  BY <1>1, <1>3
<1>5. /\ Last(k) \in 0 .. size
      /\ Last(k) = size \/ Ends(k, Last(k))
      /\ \A m \in 0 .. Last(k) - 1 : ~Ends(k, m)
  BY <1>4, Zenon DEF Last
<1> QED
  BY <1>1, <1>5, Probing DEF LastIdx

(* A slot that holds a name is live.                                        *)
LEMMA HoldsLive ==
  ASSUME size \in Sizes, NEW k \in Keys, NEW i \in 1 .. size, Holds(i, k)
  PROVE  i \in Live /\ table[i].used # 0
BY Probing DEF Holds, Live

(* hsearch_r() finds the entry of a variable that is set, and no other.     *)
LEMMA FindsEntry ==
  ASSUME EntriesInv, NEW k \in Keys
  PROVE  /\ Found(k) <=> env[k] # NoVal
         /\ Found(k) => LastIdx(k) \in Live /\ table[LastIdx(k)].data = env[k]
<1>1. size \in Sizes /\ size \in Nat
  BY SizesAssumption DEF EntriesInv, HTInv
<1>2. LastIdx(k) \in 1 .. size /\ Last(k) \in 0 .. size
  BY <1>1, SearchStops
<1>3. ASSUME Found(k)
      PROVE  LastIdx(k) \in Live /\ table[LastIdx(k)].data = env[k] /\ env[k] # NoVal
  <2>1. Holds(LastIdx(k), k) /\ LastIdx(k) \in Live
    BY <1>1, <1>2, <1>3, HoldsLive DEF Found
  <2> QED
    BY <2>1 DEF EntriesInv, LiveInv, Holds
<1>4. ASSUME env[k] # NoVal PROVE Found(k)
  <2>1. PICK n \in 0 .. size : /\ Holds(Probe(k, n), k)
                               /\ \A m \in 0 .. n - 1 : table[Probe(k, m)].used # 0
    BY <1>4 DEF EntriesInv, PathInv
  <2>2. Ends(k, n) /\ n \in Nat
    BY <1>1, <2>1 DEF Ends
  <2>3. Last(k) <= n
    BY <1>1, <1>2, <2>2, SearchStops
  <2>4. CASE Last(k) = n
    BY <2>1, <2>4 DEF Found, LastIdx
  <2>5. CASE Last(k) < n
    <3>1. Last(k) # size /\ Ends(k, Last(k)) /\ Last(k) \in 0 .. n - 1
      BY <1>1, <1>2, <2>5, SearchStops
    <3> QED
      BY <2>1, <3>1 DEF Ends, Found, LastIdx
  <2> QED
    BY <1>1, <1>2, <2>3, <2>4, <2>5
<1> QED
  BY <1>3, <1>4

(* The live entries are finitely many.                                      *)
LEMMA LiveFinite ==
  ASSUME size \in Sizes
  PROVE  IsFiniteSet(Live) /\ Live \subseteq 1 .. size /\ Cardinality(Live) \in Nat
<1>1. size \in Nat /\ Live \subseteq 1 .. size
  BY SizesAssumption DEF Live
<1>2. IsFiniteSet(1 .. size)
  BY <1>1, FS_Interval
<1>3. IsFiniteSet(Live)
  BY Zenon, <1>1, <1>2, FS_Subset
<1> QED
  BY <1>1, <1>3, FS_CardinalityType

(* getenv().                                                                *)
LEMMA EntriesFind == EntriesInv => \A k \in Keys : Find(k) = env[k]
BY FindsEntry DEF Find, Found

(* hexport_r().                                                             *)
LEMMA EntriesExport ==
  ASSUME EntriesInv
  PROVE  /\ hexport_r = {<<k, env[k]>> : k \in {x \in Keys : env[x] # NoVal}}
         /\ Cardinality(hexport_r) = filled
         /\ Cardinality(Live) = filled
<1>1. \A i \in Live : /\ table[i].key \in Keys
                      /\ table[i].data = env[table[i].key]
                      /\ table[i].data # NoVal
  BY DEF EntriesInv, LiveInv
<1>2. \A k \in Keys : env[k] # NoVal =>
        \E i \in Live : table[i].key = k /\ table[i].data = env[k]
  BY FindsEntry DEF Found, Holds
<1>3. hexport_r = {<<k, env[k]>> : k \in {x \in Keys : env[x] # NoVal}}
  BY <1>1, <1>2 DEF hexport_r
<1>4. Cardinality(hexport_r) = Cardinality(Live)
  <2> DEFINE f == [i \in Live |-> <<table[i].key, table[i].data>>]
  <2>1. f \in Bijection(Live, hexport_r)
    BY DEF hexport_r, EntriesInv, OnceInv, Bijection, Injection, Surjection, IsInjective
  <2>2. ExistsBijection(Live, hexport_r)
    BY <2>1 DEF ExistsBijection
  <2> QED
    BY <2>2, LiveFinite, FS_Bijection DEF EntriesInv, HTInv
<1> QED
  BY <1>3, <1>4 DEF EntriesInv, CountInv

-----------------------------------------------------------------------------
(* One slot i of the table is changed to s.                                 *)
Changed(i, s) ==
  /\ i \in 1 .. size /\ s \in Slot /\ size' = size
  /\ \A j \in 1 .. size : table'[j] = IF j = i THEN s ELSE table[j]
  /\ table' \in [1 .. size -> Slot]

(* The hash functions depend on the size alone.                             *)
LEMMA SameProbes ==
  ASSUME size' = size
  PROVE  \A k : /\ hval(k)' = hval(k)
                /\ \A n : Probe(k, n)' = Probe(k, n)
BY DEF hval, Probe, hval2

(* A step that leaves the table and the variables alone keeps the           *)
(* invariant.                                                               *)
LEMMA SameTable ==
  ASSUME EntriesInv, UNCHANGED <<size, table, filled, env>>
  PROVE  EntriesInv'
<1>1. /\ size' = size /\ table' = table /\ filled' = filled /\ env' = env
  OBVIOUS
<1>2. \A k : /\ hval(k)' = hval(k)
            /\ \A n : Probe(k, n)' = Probe(k, n)
  BY <1>1, SameProbes
<1>3. \A i, k : Holds(i, k)' = Holds(i, k)
  BY <1>1, <1>2, Zenon DEF Holds
<1>4. Live' = Live
  BY <1>1, Zenon DEF Live
<1>5. HTInv'
  BY <1>1, Zenon DEF EntriesInv, HTInv
<1>6. LiveInv'
  BY <1>1, <1>2, <1>4, Zenon DEF EntriesInv, LiveInv
<1>7. OnceInv'
  BY <1>1, <1>4, SMTT(30) DEF EntriesInv, OnceInv
<1>8. PathInv'
  BY <1>1, <1>2, <1>3, Zenon DEF EntriesInv, PathInv
<1>9. CountInv'
  BY <1>1, <1>4, Zenon DEF EntriesInv, CountInv
<1> QED
  BY <1>5, <1>6, <1>7, <1>8, <1>9 DEF EntriesInv

(* The paths of the other variables stay when the slot of k, or one that is *)
(* not live, is taken or deleted.                                           *)
LEMMA PathsStay ==
  ASSUME EntriesInv, NEW i, NEW s, Changed(i, s), s.used # 0,
         NEW x \in Keys, env[x] # NoVal, i \notin Live \/ table[i].key # x
  PROVE  \E n \in 0 .. size' : /\ Holds(Probe(x, n), x)'
                               /\ \A m \in 0 .. n - 1 : table'[Probe(x, m)'].used # 0
<1>1. PICK n \in 0 .. size : /\ Holds(Probe(x, n), x)
                             /\ \A m \in 0 .. n - 1 : table[Probe(x, m)].used # 0
  BY DEF EntriesInv, PathInv
<1>2. size \in Sizes /\ size' = size /\ size \in Nat
  BY SizesAssumption DEF EntriesInv, HTInv, Changed
<1>3. \A m \in 0 .. n : Probe(x, m)' = Probe(x, m) /\ Probe(x, m) \in 1 .. size
  BY <1>2, SameProbes, Probing
<1>4. Probe(x, n) # i
  <2>1. Probe(x, n) \in Live /\ table[Probe(x, n)].key = x
    BY <1>1, <1>2, <1>3, HoldsLive DEF Holds
  <2> QED
    BY <2>1
<1>5. table'[Probe(x, n)] = table[Probe(x, n)]
  BY <1>3, <1>4 DEF Changed
<1>6. Holds(Probe(x, n), x)'
  BY <1>1, <1>2, <1>3, <1>5, SameProbes DEF Holds
<1>7. \A m \in 0 .. n - 1 : table'[Probe(x, m)'].used # 0
  <2> SUFFICES ASSUME NEW m \in 0 .. n - 1 PROVE table'[Probe(x, m)].used # 0
    BY <1>2, <1>3
  <2> QED
    <3>1. m \in 0 .. n /\ Probe(x, m) \in 1 .. size /\ table[Probe(x, m)].used # 0
      BY <1>1, <1>2, <1>3
    <3>2. table'[Probe(x, m)] = s \/ table'[Probe(x, m)] = table[Probe(x, m)]
      BY <3>1, Zenon DEF Changed
    <3> QED
      BY <3>1, <3>2
<1> QED
  BY <1>1, <1>2, <1>6, <1>7

(* A new value for a variable that is set.                                  *)
LEMMA UpdateKeeps ==
  ASSUME EntriesInv, NEW k \in Keys, NEW v \in Vals, Found(k),
         table' = [table EXCEPT ![LastIdx(k)].data = v],
         env' = [env EXCEPT ![k] = v], size' = size, filled' = filled
  PROVE  EntriesInv'
<1> DEFINE i == LastIdx(k)
           s == [table[i] EXCEPT !.data = v]
<1>1. /\ size \in Sizes /\ size \in Nat /\ table \in [1 .. size -> Slot]
      /\ env \in [Keys -> Vals \cup {NoVal}]
  BY SizesAssumption DEF EntriesInv, HTInv
<1>2. i \in Live /\ i \in 1 .. size /\ table[i].key = k /\ table[i].used = hval(k)
  BY FindsEntry, LiveFinite, <1>1 DEF Found, Holds
<1>3. s \in Slot /\ s.used = table[i].used /\ s.key = k /\ s.data = v
  BY <1>1, <1>2 DEF Slot
<1>4. Changed(i, s) /\ s.used # 0
  BY <1>1, <1>2, <1>3 DEF Changed, Live
<1>5. Live' = Live
  BY <1>1, <1>2, <1>3, <1>4 DEF Live, Changed
<1> HIDE DEF i, s
<1>6. HTInv'
  BY <1>1, <1>4 DEF HTInv, Changed
<1>7. LiveInv'
  <2> SUFFICES ASSUME NEW j \in Live
               PROVE  /\ table'[j].key \in Keys
                      /\ table'[j].used = hval(table[j].key)'
                      /\ table'[j].data = env'[table'[j].key]
                      /\ table'[j].data # NoVal
    BY <1>5 DEF LiveInv
  <2>1. /\ table[j].key \in Keys /\ table[j].used = hval(table[j].key)
        /\ table[j].data = env[table[j].key] /\ table[j].data # NoVal
        /\ j \in 1 .. size
    BY <1>1, LiveFinite DEF EntriesInv, LiveInv
  <2>2. CASE j = i
    BY SMTT(30), <1>1, <1>2, <1>3, <1>4, <2>2, NoValues DEF Changed, hval
  <2>3. CASE j # i
    <3>1. table'[j] = table[j] /\ table[j].key # k
      BY <1>2, <1>4, <2>1, <2>3 DEF Changed, EntriesInv, OnceInv
    <3> QED
      BY Zenon, <1>1, <2>1, <3>1 DEF hval
  <2> QED
    BY <2>2, <2>3
<1>8. OnceInv'
  <2>1. \A j \in Live : table'[j].key = table[j].key
    BY <1>1, <1>2, <1>3, <1>4, LiveFinite DEF Changed
  <2> QED
    BY <1>5, <2>1 DEF EntriesInv, OnceInv
<1>9. PathInv'
  <2> SUFFICES ASSUME NEW x \in Keys, env'[x] # NoVal
               PROVE  \E n \in 0 .. size' :
                        /\ Holds(Probe(x, n), x)'
                        /\ \A m \in 0 .. n - 1 : table'[Probe(x, m)'].used # 0
    BY DEF PathInv
  <2>1. CASE x = k
    <3>1. env[k] # NoVal
      BY FindsEntry
    <3>2. PICK n \in 0 .. size : /\ Holds(Probe(k, n), k)
                                 /\ \A m \in 0 .. n - 1 : table[Probe(k, m)].used # 0
      BY <3>1 DEF EntriesInv, PathInv
    <3>3. \A m \in 0 .. n : Probe(k, m)' = Probe(k, m) /\ Probe(k, m) \in 1 .. size
      BY <1>1, SameProbes, Probing
    <3>4. \A j \in 1 .. size : table'[j].used = table[j].used /\ table'[j].key = table[j].key
      BY <1>2, <1>3, <1>4 DEF Changed
    <3>5. Holds(Probe(k, n), k)'
      BY <1>1, <3>2, <3>3, <3>4, SameProbes DEF Holds
    <3>6. \A m \in 0 .. n - 1 : table'[Probe(k, m)'].used # 0
      BY <1>1, <3>2, <3>3, <3>4
    <3> QED
      BY <2>1, <3>2, <3>5, <3>6
  <2>2. CASE x # k
    BY <1>1, <1>2, <1>4, <2>2, PathsStay
  <2> QED
    BY <2>1, <2>2
<1>10. CountInv'
  BY <1>5 DEF EntriesInv, CountInv
<1> QED
  BY <1>6, <1>7, <1>8, <1>9, <1>10 DEF EntriesInv

(* A new entry, made in a slot that is not live.                            *)
LEMMA EnterKeeps ==
  ASSUME EntriesInv, NEW k \in Keys, NEW v \in Vals, ~Found(k), NewIdx(k) \notin Live,
         table' = [table EXCEPT ![NewIdx(k)] =
                     [used |-> hval(k), key |-> k, data |-> v]],
         env' = [env EXCEPT ![k] = v], size' = size, filled' = filled + 1
  PROVE  EntriesInv'
<1> DEFINE i == NewIdx(k)
           s == [used |-> hval(k), key |-> k, data |-> v]
<1>1. /\ size \in Sizes /\ size \in Nat /\ table \in [1 .. size -> Slot]
      /\ env \in [Keys -> Vals \cup {NoVal}]
  BY SizesAssumption DEF EntriesInv, HTInv
<1>2. hval(k) \in 1 .. size /\ Probe(k, 0) = hval(k)
  BY <1>1, Probing
<1>3. i \in 1 .. size
  BY <1>1, <1>2, SearchStops DEF NewIdx
<1>4. s \in Slot /\ s.used > 0 /\ s.key = k /\ s.data = v /\ s.used = hval(k)
  BY <1>1, <1>2 DEF Slot
<1>5. Changed(i, s) /\ s.used # 0
  BY <1>1, <1>3, <1>4 DEF Changed
<1>6. i \notin Live /\ table'[i] = s
  BY <1>3, <1>5 DEF Changed
<1>7. PICK n \in 0 .. size : /\ i = Probe(k, n)
                             /\ \A m \in 0 .. n - 1 : table[Probe(k, m)].used # 0
  <2>1. CASE table[hval(k)].used = -1
    <3>1. i = Probe(k, 0) /\ 0 \in 0 .. size /\ 0 .. 0 - 1 = {}
      BY <1>1, <1>2, <2>1 DEF NewIdx
    <3> QED
      BY <3>1
  <2>2. CASE table[hval(k)].used # -1
    <3>1. i = Probe(k, Last(k))
      BY <2>2 DEF NewIdx, LastIdx
    <3>2. Last(k) \in 0 .. size /\ \A m \in 0 .. Last(k) - 1 : ~Ends(k, m)
      BY <1>1, SearchStops
    <3> QED
      BY <3>1, <3>2 DEF Ends
  <2> QED
    BY <2>1, <2>2
<1>8. env[k] = NoVal /\ \A j \in Live : table[j].key # k
  <2>1. env[k] = NoVal
    BY FindsEntry
  <2> QED
    BY <2>1 DEF EntriesInv, LiveInv
<1> HIDE DEF i, s
<1>9. Live' = Live \cup {i}
  BY <1>1, <1>3, <1>4, <1>5 DEF Live, Changed
<1>10. \A j \in Live : j \in 1 .. size /\ table'[j] = table[j]
  BY <1>1, <1>5, <1>6, LiveFinite DEF Changed
<1>11. HTInv'
  BY <1>1, <1>5 DEF HTInv, Changed
<1>12. LiveInv'
  <2> SUFFICES ASSUME NEW j \in Live \cup {i}
               PROVE  /\ table'[j].key \in Keys
                      /\ table'[j].used = hval(table[j].key)'
                      /\ table'[j].data = env'[table'[j].key]
                      /\ table'[j].data # NoVal
    BY SMTT(30), <1>9 DEF LiveInv
  <2>1. CASE j = i
    BY SMTT(30), <1>1, <1>4, <1>6, <2>1, NoValues DEF hval
  <2>2. CASE j \in Live
    <3>1. /\ table[j].key \in Keys /\ table[j].used = hval(table[j].key)
          /\ table[j].data = env[table[j].key] /\ table[j].data # NoVal
      BY SMTT(30), <2>2 DEF EntriesInv, LiveInv
    <3> QED
      BY <1>1, <1>8, <1>10, <2>2, <3>1 DEF hval
  <2> QED
    BY <2>1, <2>2
<1>13. OnceInv'
  BY SMTT(30), <1>4, <1>6, <1>8, <1>9, <1>10 DEF EntriesInv, OnceInv
<1>14. PathInv'
  <2> SUFFICES ASSUME NEW x \in Keys, env'[x] # NoVal
               PROVE  \E q \in 0 .. size' :
                        /\ Holds(Probe(x, q), x)'
                        /\ \A m \in 0 .. q - 1 : table'[Probe(x, m)'].used # 0
    BY DEF PathInv
  <2>1. CASE x = k
    <3>1. \A m \in 0 .. n : Probe(k, m)' = Probe(k, m) /\ Probe(k, m) \in 1 .. size
      <4>1. size \in Sizes /\ size' = size /\ \A m \in 0 .. n : m \in Nat
        BY SMTT(30), <1>1, <1>7
      <4> QED
        BY <4>1, SameProbes, Probing
    <3>2. Holds(Probe(k, n), k)'
      BY SMTT(30), <1>1, <1>4, <1>6, <1>7, <3>1, SameProbes DEF Holds
    <3>3. \A m \in 0 .. n - 1 : table'[Probe(k, m)'].used # 0
      <4> SUFFICES ASSUME NEW m \in 0 .. n - 1 PROVE table'[Probe(k, m)].used # 0
        BY <1>1, <1>7, <3>1
      <4> QED
        BY SMTT(30), <1>1, <1>5, <1>7, <3>1 DEF Changed
    <3> QED
      BY SMTT(30), <1>7, <2>1, <3>2, <3>3
  <2>2. CASE x # k
    BY SMTT(30), <1>1, <1>5, <1>6, <2>2, PathsStay
  <2> QED
    BY <2>1, <2>2
<1>15. CountInv'
  BY Zenon, <1>1, <1>6, <1>9, LiveFinite, FS_AddElement DEF EntriesInv, CountInv
<1> QED
  BY <1>11, <1>12, <1>13, <1>14, <1>15 DEF EntriesInv

(* A slot is marked as deleted: that of a variable that is deleted, or one  *)
(* that is not live, when a new entry is refused.                           *)
LEMMA DeleteKeeps ==
  ASSUME EntriesInv, NEW k \in Keys, NEW i \in 1 .. size, size' = size,
         table' = [table EXCEPT ![i] = DeletedSlot],
         \/ i \notin Live /\ env' = env /\ filled' = filled
         \/ /\ i \in Live /\ table[i].key = k
            /\ env' = [env EXCEPT ![k] = NoVal] /\ filled' = filled - 1
  PROVE  EntriesInv'
<1>1. /\ size \in Sizes /\ size \in Nat /\ table \in [1 .. size -> Slot]
      /\ env \in [Keys -> Vals \cup {NoVal}]
  BY SizesAssumption DEF EntriesInv, HTInv
<1>2. DeletedSlot \in Slot /\ DeletedSlot.used = -1
  BY DEF DeletedSlot, Slot
<1>3. Changed(i, DeletedSlot) /\ DeletedSlot.used # 0
  BY <1>1, <1>2 DEF Changed
<1>4. Live' = Live \ {i}
  BY <1>1, <1>2, <1>3 DEF Live, Changed
<1>5. \A j \in Live' : j \in Live /\ j \in 1 .. size /\ table'[j] = table[j]
  BY <1>1, <1>3, <1>4, LiveFinite DEF Changed
<1>6. HTInv'
  BY <1>1, <1>3 DEF HTInv, Changed
<1>7. LiveInv'
  <2> SUFFICES ASSUME NEW j \in Live'
               PROVE  /\ table'[j].key \in Keys
                      /\ table'[j].used = hval(table[j].key)'
                      /\ table'[j].data = env'[table'[j].key]
                      /\ table'[j].data # NoVal
    BY DEF LiveInv
  <2>1. /\ table[j].key \in Keys /\ table[j].used = hval(table[j].key)
        /\ table[j].data = env[table[j].key] /\ table[j].data # NoVal
    BY <1>5 DEF EntriesInv, LiveInv
  <2>2. env'[table[j].key] = env[table[j].key]
    <3>1. i \in Live => table[j].key # table[i].key
      BY <1>4, <1>5 DEF EntriesInv, OnceInv
    <3> QED
      BY <1>1, <2>1, <3>1
  <2> QED
    BY <1>5, <2>1, <2>2 DEF hval
<1>8. OnceInv'
  BY <1>5 DEF EntriesInv, OnceInv
<1>9. PathInv'
  <2> SUFFICES ASSUME NEW x \in Keys, env'[x] # NoVal
               PROVE  \E q \in 0 .. size' :
                        /\ Holds(Probe(x, q), x)'
                        /\ \A m \in 0 .. q - 1 : table'[Probe(x, m)'].used # 0
    BY DEF PathInv
  <2>1. env[x] # NoVal /\ (i \notin Live \/ table[i].key # x)
    BY <1>1
  <2> QED
    BY <1>3, <2>1, PathsStay
<1>10. CountInv'
  BY Zenon, <1>1, <1>4, LiveFinite, FS_RemoveElement DEF EntriesInv, CountInv
<1> QED
  BY <1>6, <1>7, <1>8, <1>9, <1>10 DEF EntriesInv

-----------------------------------------------------------------------------
(* hsearch_r() with ENTER.                                                  *)
LEMMA SearchKeeps ==
  ASSUME ~overrun => EntriesInv, ~overrun', NEW ok \in BOOLEAN,
         NEW k \in Keys, NEW v \in Vals, hsearch_r(k, v, ok)
  PROVE  EntriesInv'
<1>1. ~overrun /\ (Found(k) \/ filled = size \/ NewIdx(k) \notin Live)
  BY Zenon DEF hsearch_r
<1>2. EntriesInv
  BY <1>1
<1>3. CASE Found(k) /\ ok
  BY <1>2, <1>3, UpdateKeeps DEF hsearch_r
<1>4. CASE ~Found(k) /\ filled # size /\ ok
  BY <1>1, <1>2, <1>4, EnterKeeps DEF hsearch_r
<1>5. CASE ~Found(k) /\ filled # size /\ ~ok
  <2>1. NewIdx(k) \in 1 .. size
    BY <1>2, Probing, SearchStops DEF NewIdx, EntriesInv, HTInv
  <2>2. /\ table' = [table EXCEPT ![NewIdx(k)] = DeletedSlot]
        /\ filled' = filled /\ env' = env /\ size' = size
    BY <1>5 DEF hsearch_r
  <2> QED
    BY Zenon, <1>1, <1>2, <1>5, <2>1, <2>2, DeleteKeeps
<1>6. CASE UNCHANGED <<size, table, filled, env>>
  BY <1>2, <1>6, SameTable
<1> QED
  BY <1>3, <1>4, <1>5, <1>6 DEF hsearch_r

(* hdelete_r().                                                             *)
LEMMA DeletionKeeps ==
  ASSUME ~overrun => EntriesInv, ~overrun', NEW ok \in BOOLEAN,
         NEW k \in Keys, hdelete_r(k, ok)
  PROVE  EntriesInv'
<1>1. ~overrun
  BY DEF hdelete_r
<1>2. EntriesInv
  BY <1>1
<1>3. CASE Found(k) /\ ok
  <2>1. LastIdx(k) \in Live /\ LastIdx(k) \in 1 .. size /\ table[LastIdx(k)].key = k
    BY <1>2, <1>3, FindsEntry, SearchStops DEF EntriesInv, HTInv, Found, Holds
  <2> QED
    BY SMTT(30), <1>2, <1>3, <2>1, DeleteKeeps DEF hdelete_r
<1>4. CASE ~(Found(k) /\ ok)
  <2>1. UNCHANGED <<size, table, filled, env>>
    BY SMTT(30), <1>4 DEF hdelete_r
  <2> QED
    BY <1>2, <2>1, SameTable
<1> QED
  BY <1>3, <1>4

(* An empty table for no variables.                                         *)
Empty ==
  /\ size \in Sizes /\ table = EmptyTable(size) /\ filled = 0
  /\ env = [k \in Keys |-> NoVal]

(* It satisfies the invariant.                                              *)
LEMMA EmptyIsFine == Empty => EntriesInv
<1> SUFFICES ASSUME Empty PROVE EntriesInv
  OBVIOUS
<1> USE DEF Empty
<1>1. EmptySlot \in Slot /\ EmptySlot.used = 0
  BY DEF EmptySlot, Slot
<1>2. HTInv
  BY <1>1 DEF HTInv, EmptyTable
<1>3. Live = {}
  BY <1>1 DEF Live, EmptyTable
<1> QED
  BY <1>2, <1>3, FS_EmptySet DEF EntriesInv, LiveInv, OnceInv, PathInv, CountInv

(* The table that hcreate_r() makes.                                        *)
LEMMA HashInitInv == HashInit => HInv
<1> SUFFICES ASSUME HashInit PROVE HInv
  OBVIOUS
<1>1. ImpInv
  BY DEF HashInit, ImpInv, Pairs
<1> QED
  BY <1>1, EmptyIsFine DEF HashInit, HInv, Empty

(* Every operation on the table keeps the invariant.                        *)
LEMMA HashStep == HInv /\ [HashNext]_hashVars => HInv'
<1> SUFFICES ASSUME HInv, [HashNext]_hashVars PROVE HInv'
  OBVIOUS
<1> USE DEF HInv
<1>1. CASE UNCHANGED hashVars
  BY <1>1, SameTable DEF hashVars, ImpInv
<1>2. ASSUME NEW ok \in BOOLEAN, NEW k \in Keys, NEW v \in Vals, SetEnv(k, v, ok)
      PROVE  HInv'
  BY <1>2, SearchKeeps DEF SetEnv, ImpInv
<1>3. ASSUME NEW ok \in BOOLEAN, NEW k \in Keys, DeleteEnv(k, ok)
      PROVE  HInv'
  BY <1>3, DeletionKeeps DEF DeleteEnv, ImpInv
<1>4. ASSUME NEW ok \in BOOLEAN, NEW k \in Keys, ImportRest(k, ok)
      PROVE  HInv'
  <2>1. ImpInv'
    BY <1>4 DEF ImportRest, ImpInv
  <2> QED
    BY <1>4, <2>1, DeletionKeeps DEF ImportRest
<1>5. ASSUME NEW ok \in BOOLEAN, NEW list \in Imports, NEW names \in NameLists,
             himport_r(list, names, ok)
      PROVE  HInv'
  <2>1. ImpInv'
    BY Zenon, <1>5, ImportsAssumption DEF himport_r, ImpInv, Pairs
  <2>2. CASE ok
    BY <1>5, <2>1, <2>2, SameTable DEF himport_r
  <2>3. CASE ~ok
    <3>1. Empty'
      BY <1>5, <2>3 DEF himport_r, Empty, EmptyTable, EmptySlot
    <3>2. EntriesInv'
      BY <3>1, EmptyIsFine, PTL
    <3> QED
      BY <2>1, <3>2
  <2> QED
    BY <2>2, <2>3
<1>6. ASSUME NEW ok \in BOOLEAN, ImportPair(ok)
      PROVE  HInv'
  <2> DEFINE p == Head(imp.pairs)
  <2>1. imp.pairs \in Seq(Pairs) /\ imp.pairs # <<>>
    BY <1>6 DEF ImportPair, ImpInv
  <2>2. p \in Pairs /\ Tail(imp.pairs) \in Seq(Pairs)
    BY <2>1
  <2>3. p.key \in Keys /\ (p.data # NoVal => p.data \in Vals)
    BY <2>2 DEF Pairs
  <2>4. ImpInv'
    BY Zenon, <1>6, <2>2 DEF ImportPair, ImpInv
  <2> HIDE DEF p
  <2>5. \/ UNCHANGED <<size, table, filled, env, overrun>>
        \/ hdelete_r(p.key, ok)
        \/ p.data \in Vals /\ hsearch_r(p.key, p.data, ok)
    BY <1>6, <2>3 DEF ImportPair, p
  <2>6. CASE UNCHANGED <<size, table, filled, env, overrun>>
    BY <2>4, <2>6, SameTable
  <2>7. CASE hdelete_r(p.key, ok)
    BY <2>3, <2>4, <2>7, DeletionKeeps
  <2>8. CASE p.data \in Vals /\ hsearch_r(p.key, p.data, ok)
    BY <2>3, <2>4, <2>8, SearchKeeps
  <2> QED
    BY <2>5, <2>6, <2>7, <2>8
<1> QED
  BY <1>1, <1>2, <1>3, <1>4, <1>5, <1>6 DEF HashNext

(* The run is of both tables; a step of the other leaves this one alone.    *)
LEMMA HashHolds == TablesSpec => []HInv
<1>1. TablesInit => HInv
  BY HashInitInv DEF TablesInit
<1>2. HInv /\ [TablesNext]_tableVars => HInv'
  BY HashStep DEF TablesNext, OfLmb, OfHash, tableVars, hashVars
<1> QED
  BY <1>1, <1>2, PTL DEF TablesSpec

(* getenv() gives what was last set, and nothing for a variable deleted or  *)
(* refused, after every sequence of setenv(), deletions and imports, until  *)
(* hsearch_r() has written over a live entry.                               *)
THEOREM EnvironmentIsFound == TablesSpec => []FindsWhatWasSet
<1>1. HInv => FindsWhatWasSet
  BY EntriesFind DEF HInv, FindsWhatWasSet
<1> QED
  BY <1>1, HashHolds, PTL

(* hexport_r() writes every variable that is set once, and `filled` counts  *)
(* them.                                                                    *)
THEOREM EnvironmentIsExported == TablesSpec => []ExportsWhatWasSet
<1>1. HInv => ExportsWhatWasSet
  BY EntriesExport DEF HInv, ExportsWhatWasSet
<1> QED
  BY <1>1, HashHolds, PTL

-----------------------------------------------------------------------------
(* Division with remainder.                                                 *)
LEMMA DivMod ==
  ASSUME NEW n \in Nat, NEW a \in Nat \ {0}
  PROVE  /\ n \div a \in Nat /\ n % a \in Nat /\ n % a < a
         /\ n = a * (n \div a) + (n % a)
<1>1. n % a \in 0 .. a - 1
  OBVIOUS
<1>2. n \div a \in Int
  OBVIOUS
<1>3. n = a * (n \div a) + (n % a)
  OBVIOUS
<1>4. ~(n \div a < 0)
  <2> DEFINE d == n \div a
  <2>1. d \in Int /\ n = a * d + (n % a)
    BY <1>2, <1>3, Zenon
  <2> HIDE DEF d
  <2>2. ASSUME d <= -1 PROVE FALSE
    <3>1. a * d <= -a
      BY <2>1, <2>2
    <3> QED
      BY <1>1, <2>1, <3>1
  <2> QED
    BY <2>1, <2>2 DEF d
<1> QED
  BY <1>1, <1>2, <1>3, <1>4

(* A multiple of a leaves no remainder.                                     *)
LEMMA ModOfMultiple ==
  ASSUME NEW q \in Nat, NEW a \in Nat \ {0}
  PROVE  (a * q) % a = 0
<1> DEFINE n == a * q
<1>1. n \in Nat
  OBVIOUS
<1>2. /\ n \div a \in Nat /\ n % a \in Nat /\ n % a < a
      /\ n = a * (n \div a) + (n % a)
  BY <1>1, DivMod, Zenon
<1>3. n % a = a * (q - (n \div a))
  BY <1>2
<1> HIDE DEF n
<1> DEFINE d == q - (n \div a)
<1>4. d \in Int /\ n % a = a * d
  BY <1>2, <1>3
<1> HIDE DEF d
<1>5. d <= 0 \/ d >= 1
  BY <1>4
<1>6. CASE d >= 1
  <2>1. a * d >= a
    BY <1>4, <1>6
  <2> QED
    BY <1>2, <1>4, <2>1
<1>7. CASE d <= 0
  <2>1. a * d <= 0
    BY <1>4, <1>7
  <2> QED
    BY <1>2, <1>4, <2>1 DEF n
<1> QED
  BY <1>5, <1>6, <1>7, Zenon

(* No remainder is left exactly by the multiples.                           *)
LEMMA Divides ==
  ASSUME NEW n \in Nat, NEW a \in Nat \ {0}
  PROVE  n % a = 0 <=> \E q \in Nat : n = a * q
<1>1. n % a = 0 => \E q \in Nat : n = a * q
  <2>1. n \div a \in Nat /\ n = a * (n \div a) + (n % a)
    BY DivMod, Zenon
  <2>2. n % a = 0 => n = a * (n \div a)
    BY <2>1
  <2> QED
    BY <2>1, <2>2, Zenon
<1>2. ASSUME NEW q \in Nat, n = a * q PROVE n % a = 0
  BY <1>2, ModOfMultiple, Zenon
<1> QED
  BY <1>1, <1>2, Zenon

(* Equal remainders belong to numbers a multiple apart.                     *)
LEMMA SameMod ==
  ASSUME NEW x \in Int, NEW y \in Int, NEW p \in Nat \ {0}, x % p = y % p
  PROVE  \E q \in Int : x - y = p * q
<1>1. x \div p \in Int /\ y \div p \in Int
  OBVIOUS
<1>2. x = p * (x \div p) + (x % p) /\ y = p * (y \div p) + (y % p)
  OBVIOUS
<1>3. PICK u \in Int, v \in Int : u = x \div p /\ v = y \div p
  BY <1>1, Zenon
<1>4. x - y = p * (u - v)
  <2>1. x = p * u + (x % p) /\ y = p * v + (x % p) /\ x % p \in Int
    BY <1>2, <1>3
  <2> QED
    BY ONLY <2>1, x \in Int, y \in Int, p \in Nat
<1> QED
  BY <1>4

(* Of two factors below p one has a divisor in common with p, if p divides  *)
(* the product.                                                             *)
LEMMA Euclid ==
  ASSUME NEW p \in Nat, p > 1, \A d \in 2 .. p - 1 : p % d # 0,
         NEW a \in 1 .. p - 1, NEW x \in 1 .. p - 1, NEW q \in Int, x * a = p * q
  PROVE  FALSE
<1> DEFINE S == {n \in Nat : n > 0 /\ \E k \in Int : n * a = p * k}
<1>1. x \in S
  <2>1. x \in Nat /\ x > 0
    OBVIOUS
  <2> QED
    BY <2>1, Zenon
<1>2. PICK n \in S : \A m \in S : n <= m
  <2>1. S \subseteq Nat /\ S # {}
    BY <1>1, Zenon
  <2> HIDE DEF S
  <2> QED
    BY <2>1, Least, Zenon
<1>3. n \in Nat /\ n > 0
  BY <1>2, Zenon
<1>4. PICK k \in Int : n * a = p * k
  BY <1>2, Zenon
<1>5. n < p
  <2>1. n <= x
    BY <1>1, <1>2, Zenon
  <2> QED
    BY <1>3, <2>1
<1>6. PICK e \in Nat, r \in Nat : e = p \div n /\ r = p % n /\ r < n /\ p = n * e + r
  <2>1. n \in Nat \ {0}
    BY <1>3
  <2> QED
    BY <2>1, DivMod, Zenon
<1>7. r \notin S
  <2> HIDE DEF S
  <2>1. ASSUME r \in S PROVE FALSE
    <3>1. n <= r
      BY <1>2, <2>1, Zenon
    <3> QED
      BY <1>3, <1>6, <3>1
  <2> QED
    BY <2>1, Zenon
<1>8. r * a = p * (a - e * k)
  <2>0. a \in Int
    OBVIOUS
  <2>1. e * (n * a) = e * (p * k)
    BY <1>4, Zenon
  <2>2. p * a = (n * e + r) * a
    BY <1>6, Zenon
  <2>3. (n * e + r) * a = e * (n * a) + r * a
    BY ONLY <1>3, <1>6, <2>0
  <2>4. e * (p * k) = p * (e * k)
    BY ONLY <1>6, <1>4, p \in Nat
  <2>5. p * (a - e * k) = p * a - p * (e * k)
    BY ONLY <1>6, <1>4, <2>0, p \in Nat
  <2>6. PICK A \in Int, B \in Int, C \in Int, D \in Int :
          A = p * a /\ B = p * (e * k) /\ C = r * a /\ D = p * (a - e * k)
    BY <2>0, <1>6, <1>4
  <2> QED
    BY ONLY <2>1, <2>2, <2>3, <2>4, <2>5, <2>6
<1>9. r = 0
  <2>1. a - e * k \in Int
    BY <1>4, <1>6
  <2>2. r > 0 => r \in S
    BY <1>6, <1>8, <2>1, Zenon
  <2> HIDE DEF S
  <2> QED
    BY <1>6, <1>7, <2>2
<1>10. CASE n = 1
  <2>1. a = p * k
    BY <1>4, <1>10
  <2>2. k <= 0 => p * k <= 0
    BY ONLY k \in Int, p \in Nat
  <2>3. k >= 1 => p * k >= p
    BY ONLY k \in Int, p \in Nat
  <2>4. k <= 0 \/ k >= 1
    BY ONLY k \in Int
  <2> QED
    BY <2>1, <2>2, <2>3, <2>4
<1>11. CASE n # 1
  <2>1. n \in 2 .. p - 1
    BY <1>3, <1>5, <1>11
  <2> QED
    BY <1>6, <1>9, <2>1, Zenon
<1> QED
  BY <1>10, <1>11, Zenon

(* isprime() accepts no odd number that has a divisor: up to the least one  *)
(* the loop goes on, and there it ends.                                     *)
LEMMA NoDivisor ==
  ASSUME NEW n \in Nat, n >= 3, n % 2 = 1, isprime(n), NEW d0 \in 2 .. n - 1,
         n % d0 = 0
  PROVE  FALSE
<1> DEFINE S == {d \in Nat : 2 <= d /\ d < n /\ n % d = 0}
           P(div) == /\ div % 2 = 1
                     /\ div * div >= n \/ n % div = 0
                     /\ \A x \in 3 .. div - 1 : x % 2 = 1 => x * x < n /\ n % x # 0
           last == CHOOSE div \in 3 .. n + 3 : P(div)
<1>1. PICK d \in S : \A m \in S : d <= m
  <2>1. d0 \in S
    OBVIOUS
  <2>2. S \subseteq Nat /\ S # {}
    BY <2>1, Zenon
  <2> HIDE DEF S
  <2> QED
    BY <2>2, Least, Zenon
<1>2. d \in Nat /\ 2 <= d /\ d < n /\ n % d = 0
  BY <1>1, Zenon
<1>3. PICK e \in Nat : n = d * e
  <2>1. d \in Nat \ {0}
    BY <1>2
  <2> QED
    BY <1>2, <2>1, Divides, Zenon
<1>4. d % 2 = 1
  <2>1. ASSUME d % 2 = 0 PROVE FALSE
    <3>1. PICK f \in Nat : d = 2 * f
      BY <1>2, <2>1
    <3>2. n = 2 * (f * e) /\ f * e \in Nat
      BY ONLY <1>3, <3>1
    <3>3. (2 * (f * e)) % 2 = 0
      BY <3>2, ModOfMultiple
    <3> QED
      BY <3>2, <3>3
  <2> QED
    BY <1>2, <2>1
<1>5. d >= 3
  BY <1>2, <1>4
<1>6. e >= 2 /\ e < n
  <2>1. e # 0 /\ e # 1
    BY <1>2, <1>3
  <2>2. d * e >= 2 * e
    BY ONLY <1>2, <1>3
  <2> QED
    BY <1>3, <2>1, <2>2
<1>7. d <= e
  <2>1. n = e * d
    BY ONLY <1>2, <1>3
  <2>2. n % e = 0
    <3>1. e \in Nat \ {0}
      BY <1>6
    <3> QED
      BY <1>2, <2>1, <3>1, Divides, Zenon
  <2>3. e \in S
    BY <1>3, <1>6, <2>2
  <2> HIDE DEF S
  <2> QED
    BY <1>1, <2>3, Zenon
<1>8. \A x \in Nat : x < d => x * x < n
  <2>1. ASSUME NEW x \in Nat, x < d PROVE x * x < n
    <3>1. x * x <= x * d
      BY ONLY <1>2, <2>1, x \in Nat
    <3>2. x * d < d * d
      BY ONLY <1>2, <2>1, x \in Nat
    <3>3. d * d <= d * e
      BY ONLY <1>2, <1>3, <1>7
    <3>4. PICK A \in Int, B \in Int, C \in Int : A = x * x /\ B = x * d /\ C = d * d
      BY <1>2
    <3> QED
      BY ONLY <1>3, <3>1, <3>2, <3>3, <3>4, n \in Nat
  <2> QED
    BY <2>1
<1>9. \A x \in 2 .. d - 1 : n % x # 0
  <2>1. ASSUME NEW x \in 2 .. d - 1, n % x = 0 PROVE FALSE
    <3>1. x \in S
      BY <1>2, <2>1
    <3>2. d <= x
      BY <1>1, <3>1, Zenon
    <3> QED
      BY <1>2, <3>2
  <2> QED
    BY <2>1, Zenon
<1> HIDE DEF S
<1>10. d \in 3 .. n + 3 /\ P(d)
  <2>1. \A x \in 3 .. d - 1 : x % 2 = 1 => x * x < n /\ n % x # 0
    <3>1. \A x \in 3 .. d - 1 : x \in Nat /\ x < d /\ x \in 2 .. d - 1
      BY <1>2
    <3> QED
      BY <1>8, <1>9, <3>1, Zenon
  <2>2. d \in 3 .. n + 3
    BY <1>2, <1>5
  <2> QED
    BY <1>2, <1>4, <2>1, <2>2, Zenon
<1>11. last \in 3 .. n + 3 /\ P(last)
  <2> HIDE DEF P
  <2> QED
    BY <1>10, Zenon
<1>12. n % last # 0
  BY Zenon DEF isprime
<1> HIDE DEF last
<1>13. CASE last < d
  BY <1>2, <1>8, <1>11, <1>12, <1>13
<1>14. CASE d < last
  <2>1. d \in 3 .. last - 1
    BY <1>2, <1>5, <1>11, <1>14
  <2> QED
    BY <1>2, <1>4, <1>11, <2>1, Zenon
<1>15. last # d
  BY <1>2, <1>12, Zenon
<1> QED
  BY <1>2, <1>11, <1>13, <1>14, <1>15

(* The indices tried up to the size of the table differ.                    *)
LEMMA ProbesDiffer ==
  ASSUME size \in Sizes, NEW k \in Keys, NEW n \in 0 .. size - 1,
         NEW m \in 0 .. size - 1, n < m, Probe(k, n) = Probe(k, m)
  PROVE  FALSE
<1>1. size \in Nat /\ size >= 3 /\ size % 2 = 1 /\ isprime(size)
  BY SizesAssumption, PrimesAssumption
<1>2. hval(k) \in 1 .. size
  BY Probing, Zenon
<1>3. PICK h \in Nat, a \in 1 .. size - 1 : h = hval(k) /\ a = hval2(k)
  <2>1. hval(k) % (size - 2) \in 0 .. size - 3
    BY <1>1, <1>2
  <2>2. hval2(k) \in 1 .. size - 1
    BY <1>1, <2>1 DEF hval2
  <2> QED
    BY <1>2, <2>2
<1> DEFINE x == h - 1 - (n * a)
           y == h - 1 - (m * a)
<1>4. x \in Int /\ y \in Int /\ x - y = (m - n) * a
  BY <1>1, <1>3
<1>5. x % size = y % size
  <2>1. x % size \in Int /\ y % size \in Int
    BY <1>1, <1>4
  <2>2. (x % size) + 1 = (y % size) + 1
    BY <1>3, Zenon DEF Probe
  <2> HIDE DEF x, y
  <2> QED
    BY <2>1, <2>2
<1> HIDE DEF x, y
<1>6. PICK q \in Int : (m - n) * a = size * q
  <2>1. size \in Nat \ {0}
    BY <1>1
  <2>2. \E q \in Int : x - y = size * q
    <3>1. x \in Int /\ y \in Int
      BY <1>4, Zenon
    <3> QED
      BY ONLY <1>5, <2>1, <3>1, SameMod, Zenon
  <2>3. x - y = (m - n) * a
    BY <1>4, Zenon
  <2> QED
    BY ONLY <2>2, <2>3, Zenon
<1>7. m - n \in 1 .. size - 1 /\ size > 1
  BY <1>1
<1>8. \A d \in 2 .. size - 1 : size % d # 0
  BY <1>1, NoDivisor, Zenon
<1> QED
  BY <1>1, <1>3, <1>6, <1>7, <1>8, Euclid, Zenon

(* So all are tried.                                                        *)
LEMMA ProbesReach ==
  ASSUME size \in Sizes
  PROVE  ProbesAll
<1> SUFFICES ASSUME NEW k \in Keys
             PROVE  {Probe(k, n) : n \in 0 .. size - 1} = 1 .. size
  BY DEF ProbesAll
<1>1. size \in Nat /\ size >= 3
  BY SizesAssumption
<1>2. \A n \in 0 .. size - 1 : Probe(k, n) \in 1 .. size
  BY <1>1, Probing
<1> DEFINE f == [n \in 0 .. size - 1 |-> Probe(k, n)]
<1>3. f \in Injection(0 .. size - 1, 1 .. size)
  <2>1. f \in [0 .. size - 1 -> 1 .. size]
    BY <1>2, Zenon
  <2>2. ASSUME NEW n \in 0 .. size - 1, NEW m \in 0 .. size - 1, f[n] = f[m]
        PROVE  n = m
    <3>1. Probe(k, n) = Probe(k, m)
      BY <2>2, Zenon
    <3>2. ~(n < m) /\ ~(m < n)
      BY <3>1, ProbesDiffer, Zenon
    <3> QED
      BY <1>1, <3>2
  <2> QED
    BY <2>1, <2>2, Zenon DEF Injection, IsInjective
<1>4. /\ IsFiniteSet(1 .. size) /\ IsFiniteSet(0 .. size - 1)
      /\ Cardinality(0 .. size - 1) = Cardinality(1 .. size)
  BY <1>1, FS_Interval
<1>5. f \in Surjection(0 .. size - 1, 1 .. size)
  <2> HIDE DEF f
  <2> QED
    BY <1>3, <1>4, FS_Injection, Zenon
<1>6. \A i \in 1 .. size : \E n \in 0 .. size - 1 : Probe(k, n) = i
  BY <1>5, Zenon DEF Surjection
<1> QED
  BY <1>2, <1>6, Zenon

(* The size of the table is one that hcreate_r() has chosen.                *)
SizeInv == size \in Sizes

(* It stays one.                                                            *)
LEMMA SizeHolds == TablesSpec => []SizeInv
<1>1. TablesInit => SizeInv
  BY DEF TablesInit, HashInit, SizeInv
<1>2. SizeInv /\ [TablesNext]_tableVars => SizeInv'
  BY Zenon DEF SizeInv, TablesNext, OfLmb, OfHash, tableVars, hashVars, HashNext, SetEnv,
               DeleteEnv, ImportRest, ImportPair, himport_r, hsearch_r, hdelete_r
<1> QED
  BY <1>1, <1>2, PTL DEF TablesSpec

(* For every name the search of hsearch_r() comes to every slot, as its     *)
(* comment says: isprime() accepts no odd number that has a divisor, and    *)
(* the step is not 0.                                                       *)
THEOREM SearchReachesAll == TablesSpec => []ProbesAll
<1>1. SizeInv => ProbesAll
  BY ProbesReach DEF SizeInv
<1> QED
  BY <1>1, SizeHolds, PTL
=============================================================================
