----------------------------- MODULE EnvConfig ------------------------------
(* What every way of storing the environment has in common: the contents    *)
(* an environment can have, the contents a CRC does not accept, and the     *)
(* bounds on the faults that a run of the model meets.                      *)
EXTENDS Naturals

CONSTANTS Envs, DefaultEnv, Off,
          Blank,          \* erased data, or partly old and partly new ones
          NoCrc,          \* a CRC that matches no data
          MaxReadFaults,  \* bound: boots that fail to read some copy
          MaxWriteFaults  \* bound: erase, write and probe calls that fail

ASSUME EnvAssumption ==
  /\ DefaultEnv \in Envs
  /\ Off \notin Envs
  /\ Blank \notin Envs
  /\ NoCrc \notin Envs \cup {Blank}

ASSUME FaultAssumption == MaxReadFaults \in Nat /\ MaxWriteFaults \in Nat
=============================================================================
