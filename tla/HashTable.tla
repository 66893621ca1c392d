----------------------------- MODULE HashTable ------------------------------
(* lib/hashtable.c, the environment in RAM: a table with open addressing    *)
(* and double hashing.  The variables are set and deleted one at a time     *)
(* (setenv) or imported in a list (himport_r(): the stored environment, the *)
(* default one, "env import").                                              *)
EXTENDS Integers, Sequences, FiniteSets, HashSize

CONSTANTS Keys, Vals,   \* names and values of environment variables
          NoKey, NoVal, \* "no such variable"
          Code,         \* the number hsearch_r() computes from a name
          Sizes,        \* the table sizes that hcreate_r() chooses
          Imports,      \* the lists of [key, data] pairs imported; with
                        \* data NoVal the pair is "name" or "name="
          NameLists     \* the names given with an import; {} for all

ASSUME NoValues == NoKey \notin Keys /\ NoVal \notin Vals
ASSUME CodeAssumption == Code \in [Keys -> Nat]
ASSUME SizesAssumption == Sizes \subseteq Nat /\ \A s \in Sizes : s >= 3
(* The loop of hcreate_r() ends at an odd number that isprime() accepts.    *)
ASSUME PrimesAssumption == \A s \in Sizes : s % 2 = 1 /\ isprime(s)
ASSUME ImportsAssumption ==
  /\ Imports \subseteq Seq([key : Keys, data : Vals \cup {NoVal}])
  /\ NameLists \subseteq SUBSET Keys

VARIABLES size, table, filled,  \* struct hsearch_data
          imp,                  \* what himport_r() still has to do
          env,                  \* history: the variables as set and deleted
          overrun               \* history: a new entry took a slot in use

hashVars == <<size, table, filled, imp, env, overrun>>

(* `used` holds the first index of the entry; 0 is a slot never used and -1 *)
(* one whose entry was deleted.                                             *)
EmptySlot == [used |-> 0, key |-> NoKey, data |-> NoVal]
DeletedIsEmpty == [used |-> 0, key |-> NoKey, data |-> NoVal]
DeletedSlot == [used |-> -1, key |-> NoKey, data |-> NoVal]
EmptyTable(s) == [i \in 1 .. s |-> EmptySlot]

(* The two hash functions and the n-th index tried.                         *)
hval(k) == IF Code[k] % size = 0 THEN 1 ELSE Code[k] % size
hval2(k) == 1 + (hval(k) % (size - 2))
Probe(k, n) == ((hval(k) - 1 - (n * hval2(k))) % size) + 1

(* _compare_and_overwrite_entry(): the slot holds the key.                  *)
Holds(i, k) == table[i].used = hval(k) /\ table[i].key = k

(* The loop of hsearch_r() ends at a slot that holds the key, at a slot     *)
(* never used, or when it is back at the first one.                         *)
Ends(k, n) == Holds(Probe(k, n), k) \/ table[Probe(k, n)].used = 0
Last(k) ==
  CHOOSE n \in 0 .. size :
    /\ n = size \/ Ends(k, n)
    /\ \A m \in 0 .. n - 1 : ~Ends(k, m)
LastIdx(k) == Probe(k, Last(k))
Found(k) == Holds(LastIdx(k), k)

(* hsearch_r() with FIND, as getenv() calls it.                             *)
Find(k) ==
  LET i == LastIdx(k) IN IF Holds(i, k) THEN table[i].data ELSE NoVal

LiveOrDeleted == {i \in 1 .. size : table[i].used # 0}
Live == {i \in 1 .. size : table[i].used > 0}

(* hexport_r(): what is written by saveenv() and shown by printenv.         *)
hexport_r == {<<table[i].key, table[i].data>> : i \in Live}

(* The slot of a new entry: a deleted one is taken if it is the first one   *)
(* tried, otherwise the one the search ended at.                            *)
NewIdx(k) == IF table[hval(k)].used = -1 THEN hval(k) ELSE LastIdx(k)

HashInit ==
  /\ size \in Sizes
  /\ table = EmptyTable(size)
  /\ filled = 0
  /\ imp = [pairs |-> <<>>, all |-> TRUE, names |-> {}]
  /\ env = [k \in Keys |-> NoVal]
  /\ overrun = FALSE

(* hsearch_r() with ENTER.  ok is what change_ok() and the callback of the  *)
(* variable say; a new entry is deleted again when they refuse.             *)
hsearch_r(k, v, ok) ==
  IF Found(k) THEN
    /\ table' = IF ok THEN [table EXCEPT ![LastIdx(k)].data = v] ELSE table
    /\ env' = IF ok THEN [env EXCEPT ![k] = v] ELSE env
    /\ UNCHANGED <<size, filled, overrun>>
  ELSE IF filled = size THEN UNCHANGED <<size, table, filled, env, overrun>>
  ELSE
    /\ table' = [table EXCEPT ![NewIdx(k)] =
                   IF ok THEN [used |-> hval(k), key |-> k, data |-> v]
                   ELSE DeletedSlot]
    /\ filled' = IF ok THEN filled + 1 ELSE filled
    /\ env' = IF ok THEN [env EXCEPT ![k] = v] ELSE env
    /\ overrun' = (overrun \/ NewIdx(k) \in Live)
    /\ UNCHANGED size

(* hdelete_r() with _hdelete().                                             *)
hdelete_r(k, ok) ==
  IF Found(k) /\ ok THEN
    /\ table' = [table EXCEPT ![LastIdx(k)] = DeletedSlot]
    /\ filled' = filled - 1
    /\ env' = [env EXCEPT ![k] = NoVal]
    /\ UNCHANGED <<size, overrun>>
  ELSE UNCHANGED <<size, table, filled, env, overrun>>

Idle == imp.pairs = <<>> /\ imp.names = {}

(* _do_env_set(), setenv().                                                 *)
SetEnv(k, v, ok) == Idle /\ hsearch_r(k, v, ok) /\ UNCHANGED imp
DeleteEnv(k, ok) == Idle /\ hdelete_r(k, ok) /\ UNCHANGED imp

(* himport_r() up to its loop.  Without H_NOCLEAR the table is destroyed,   *)
(* and hcreate_r() makes one for the size of the import.  With a list of    *)
(* names only these are taken from the import.                              *)
himport_r(list, names, noclear) ==
  /\ Idle
  /\ imp' = [pairs |-> list, all |-> names = {}, names |-> names]
  /\ IF noclear THEN UNCHANGED <<size, table, filled, env, overrun>>
     ELSE /\ size' \in Sizes
          /\ table' = EmptyTable(size')
          /\ filled' = 0
          /\ env' = [k \in Keys |-> NoVal]
          /\ overrun' = FALSE

(* One pair: drop_var_from_set(), and then the entry is made or deleted.    *)
ImportPair(ok) ==
  /\ imp.pairs # <<>>
  /\ LET p == Head(imp.pairs) IN
       /\ imp' = [imp EXCEPT !.pairs = Tail(@), !.names = @ \ {p.key}]
       /\ IF ~imp.all /\ p.key \notin imp.names
          THEN UNCHANGED <<size, table, filled, env, overrun>>
          ELSE IF p.data = NoVal THEN hdelete_r(p.key, ok)
          ELSE hsearch_r(p.key, p.data, ok)

(* The names that were not in the import are deleted.                       *)
ImportRest(k, ok) ==
  /\ imp.pairs = <<>>
  /\ k \in imp.names
  /\ imp' = [imp EXCEPT !.names = @ \ {k}]
  /\ hdelete_r(k, ok)

HashNext ==
  \E ok \in BOOLEAN :
    \/ \E k \in Keys, v \in Vals : SetEnv(k, v, ok)
    \/ \E k \in Keys : DeleteEnv(k, ok) \/ ImportRest(k, ok)
    \/ \E list \in Imports, names \in NameLists : himport_r(list, names, ok)
    \/ ImportPair(ok)

HashSpec == HashInit /\ [][HashNext]_hashVars

-----------------------------------------------------------------------------
(* getenv() gives what was last set, and nothing for a variable that was    *)
(* deleted or refused, after any sequence of changes and whatever deleted   *)
(* slots lie on the way of the search.  This ends when hsearch_r() has      *)
(* written over a live entry, see BucketIsEmpty.                            *)
FindsWhatWasSet == ~overrun => \A k \in Keys : Find(k) = env[k]

(* saveenv() writes every variable once, with the value that getenv() gives,*)
(* and `filled`, by which hsearch_r() knows a full table, counts them.      *)
ExportsWhatWasSet ==
  ~overrun =>
    /\ hexport_r = {<<k, env[k]>> : k \in {x \in Keys : env[x] # NoVal}}
    /\ Cardinality(hexport_r) = filled
    /\ Cardinality(Live) = filled

(* The comment in hsearch_r(): stepping by the second hash value reaches    *)
(* all indices, because hcreate_r() has made the size a prime.              *)
ProbesAll ==
  \A k \in Keys : {Probe(k, n) : n \in 0 .. size - 1} = 1 .. size

(* The comment in hsearch_r(): where a new entry is made, "An empty bucket  *)
(* has been found."                                                         *)
BucketIsEmpty == ~overrun
=============================================================================
