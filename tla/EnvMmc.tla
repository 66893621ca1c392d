------------------------------- MODULE EnvMmc -------------------------------
(* common/env_mmc.c with CONFIG_ENV_OFFSET_REDUND: saveenv() writes the     *)
(* copy that was not loaded, first block first.  The first block holds the  *)
(* CRC, the serial and the beginning of the data.                           *)
EXTENDS EnvRedund

(* The copy saveenv() writes.                                               *)
Target == IF env_valid = 1 THEN 2 ELSE 1

(* When init_mmc_for_env() or env_export() fails, saveenv() returns before  *)
(* it changes anything; that is no step of the model.                       *)
Export == ExportEnv("head")

(* The data of a copy of which some blocks have been overwritten: a mixture *)
(* that no CRC matches (Blank), or still the old data or already the new    *)
(* ones when they differ only in the blocks not yet or already written.     *)
Overwritten(old, new) == IF old = new THEN {new} ELSE {old, new, Blank}

(* write_env() has put the first block, and perhaps more, on the medium.    *)
WriteHead ==
  /\ pc = "head"
  /\ \E d \in Overwritten(media[Target].data, env_new.data) :
       media' = [media EXCEPT ![Target] = [env_new EXCEPT !.data = d]]
  /\ pc' = "body"
  /\ UNCHANGED <<env, env_valid, env_flags, env_new, readFaults, writeFaults,
                 blind, committed, tried>>

(* The other blocks follow and saveenv() returns 0.                         *)
WriteBody ==
  /\ pc = "body"
  /\ media' = [media EXCEPT ![Target].data = env_new.data]
  /\ SaveDone(IF env_valid = 2 THEN 1 ELSE 2)

(* block_write() reports fewer blocks than asked for: saveenv() returns 1.  *)
WriteFault ==
  /\ pc \in {"head", "body"}
  /\ writeFaults < MaxWriteFaults
  /\ writeFaults' = writeFaults + 1
  /\ pc' = "idle"
  /\ UNCHANGED <<media, env, env_valid, env_flags, env_new, readFaults,
                 blind, committed, tried>>

Next ==
  \/ Boot
  \/ BootWithReadFault
  \/ SetEnv
  \/ PowerCut
  \/ Export
  \/ WriteHead
  \/ WriteBody
  \/ WriteFault

Spec == Init /\ [][Next]_vars

-----------------------------------------------------------------------------
PcOK == pc \in {"off", "idle", "head", "body"} /\ (pc = "off" <=> env = Off)

MmcTypeOK == TypeOK /\ PcOK
=============================================================================
