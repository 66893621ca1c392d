------------------------------- MODULE EnvNor -------------------------------
(* common/env_flash.c with CONFIG_ENV_ADDR_REDUND, the environment in       *)
(* memory-mapped NOR flash; `current` is flash_addr, the other copy is      *)
(* flash_addr_new.                                                          *)
EXTENDS EnvFlagged

(* env_init() and env_relocate(): the medium is memory, so it can always be *)
(* read.  Without a good copy the default environment is taken; else        *)
(* flash_addr is the chosen copy, and the flags are put right first.        *)
NorBoot ==
  /\ pc = "off"
  /\ LET c == SelectCopy(media, Copies) IN
       /\ current' = IF c = 0 THEN 1 ELSE c
       /\ env' = IF c = 0 THEN DefaultEnv ELSE media[c].data
       /\ pc' = IF c = 0 THEN "idle" ELSE "repairOther"
  /\ committed' = env'
  /\ tried' = {}
  /\ UNCHANGED <<media, env_new, readFaults, writeFaults>>

(* env_relocate_spec(): a second good copy that is not marked obsolete is   *)
(* marked so.                                                               *)
RepairOther ==
  MediaStep("repairOther", "repairCurrent",
            IF media[Other(current)].flags # OBSOLETE_FLAG
               /\ crc_ok(media, Other(current))
            THEN [media EXCEPT ![Other(current)].flags = OBSOLETE_FLAG]
            ELSE media)

(* A chosen copy whose flag was never written is marked active.             *)
RepairCurrent ==
  MediaStep("repairCurrent", "idle",
            IF media[current].flags = ERASED
            THEN [media EXCEPT ![current].flags = ACTIVE_FLAG]
            ELSE media)

(* The flags are written with flash_write() whose errors are not looked at. *)
RepairFault ==
  /\ pc \in {"repairOther", "repairCurrent"}
  /\ writeFaults < MaxWriteFaults
  /\ writeFaults' = writeFaults + 1
  /\ pc' = IF pc = "repairOther" THEN "repairCurrent" ELSE "idle"
  /\ UNCHANGED <<media, env, current, env_new, readFaults, committed, tried>>

(* Mutant: the old copy stays active.                                       *)
NorMarkNothing == MediaStep("mark", "rest", media)

NorMarkObsolete == MediaStep("mark", "rest",
                             [media EXCEPT ![current].flags = OBSOLETE_FLAG])

(* The rest of the sector is restored, the two addresses are swapped.       *)
Finish ==
  /\ pc = "rest"
  /\ ReturnSuccess(Other(current))
  /\ UNCHANGED <<media, env, env_new, readFaults, writeFaults>>

(* flash_write() of the environment or of the flag fails: its code is       *)
(* returned.                                                                *)
WriteFault == pc \in {"head", "body", "mark"} /\ ReturnError

(* A failed flash_sect_erase() jumps to `done` with rc still 0 from         *)
(* env_export(), a failed restore of the sector jumps to `perror` with rc 0 *)
(* from the write before it: saveenv() returns success, unswapped.          *)
UnreportedFault ==
  /\ pc \in {"erase", "rest"}
  /\ writeFaults < MaxWriteFaults
  /\ writeFaults' = writeFaults + 1
  /\ ReturnSuccess(current)
  /\ UNCHANGED <<media, env, env_new, readFaults>>

NorNext ==
  \/ NorBoot \/ RepairOther \/ RepairCurrent \/ RepairFault
  \/ SetEnv \/ PowerCut
  \/ Export \/ Erase \/ WriteHead \/ WriteBody \/ NorMarkObsolete \/ Finish
  \/ WriteFault \/ UnreportedFault

-----------------------------------------------------------------------------
NorTypeOK ==
  /\ TypeOK
  /\ pc \in {"off", "idle", "repairOther", "repairCurrent",
             "erase", "head", "body", "mark", "rest"}
  /\ pc = "off" <=> env = Off
=============================================================================
