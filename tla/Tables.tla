------------------------------- MODULE Tables -------------------------------
(* The two tables U-Boot keeps in fixed memory: the reserved regions of the *)
(* RAM (Lmb) and the environment (HashTable).  They share nothing, and a    *)
(* behaviour is one of `side`.                                              *)
EXTENDS Lmb, HashTable

VARIABLE side

tableVars == <<side, lmbVars, hashVars>>

TablesInit == side \in {"lmb", "hash"} /\ LmbInit /\ HashInit

OfLmb(A) == side = "lmb" /\ A /\ UNCHANGED <<side, hashVars>>
OfHash(A) == side = "hash" /\ A /\ UNCHANGED <<side, lmbVars>>

TablesNext == OfLmb(LmbNext) \/ OfHash(HashNext)

(* Once called, __lmb_alloc_base() runs on: nothing else does.              *)
TablesSpec ==
  /\ TablesInit /\ [][TablesNext]_tableVars
  /\ WF_tableVars(OfLmb(AllocFail \/ AllocNext \/ AllocTake))
=============================================================================
