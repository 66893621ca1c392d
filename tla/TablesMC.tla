------------------------------ MODULE TablesMC ------------------------------
(* A small RAM for Lmb; small tables for HashTable, in which the codes      *)
(* collide whatever the size.                                               *)
EXTENDS Tables, TLC

CONSTANTS k1, k2, k3

MCBlocks == {[base |-> b, size |-> s] : b \in {5, 7, 8, 9, 11, 13}, s \in {2, 4}}

MCKeys == {k1, k2, k3}
MCCode == k1 :> 1 @@ k2 :> 56 @@ k3 :> 55
MCSizes == {hcreate_r(n) : n \in {4, 8}}
Pair(k, v) == [key |-> k, data |-> v]
MCNameLists == {{}, {k2, k3}}
MCImports == {<<Pair(k1, 1), Pair(k2, 2), Pair(k1, NoVal)>>}
=============================================================================
