---------------------------- MODULE FwEnvFlagged ----------------------------
(* fw_setenv of tools/env/fw_env.c on SPI and NOR flash, with the flag      *)
(* scheme FLAG_BOOLEAN.                                                     *)
EXTENDS EnvFlagged

VARIABLE unmarked      \* history: the old copy was left active unnoticed

FwPcs == {"fw", "fwErase", "fwHead", "fwBody", "fwMark", "fwDone"}

(* fw_env_open(): both copies are read, or nothing happens at all.          *)
fw_env_open ==
  /\ pc = "off"
  /\ LET c == SelectCopy(media, Copies) IN
       /\ env' = IF c = 0 THEN DefaultEnv ELSE media[c].data
       /\ current' = IF c = 0 THEN 1 ELSE c
  /\ pc' = "fw"
  /\ committed' = env'
  /\ tried' = {}
  /\ UNCHANGED <<media, env_new, readFaults, writeFaults, unmarked>>

fw_env_write ==
  /\ pc = "fw"
  /\ env' \in Envs
  /\ UNCHANGED <<media, current, env_new, pc, readFaults, writeFaults,
                 committed, tried, unmarked>>

fw_env_close ==
  /\ pc = "fw"
  /\ env_new' = env
  /\ tried' = tried \cup {env}
  /\ pc' = "fwErase"
  /\ UNCHANGED <<media, env, current, readFaults, writeFaults, committed,
                 unmarked>>

dev_target == Other(current)

(* flash_write_buf(): MEMERASE, then one write() of CRC, flag and data.     *)
FwErase ==
  /\ MediaStep("fwErase", "fwHead",
               [media EXCEPT ![dev_target] = ErasedCopy])
  /\ UNCHANGED unmarked

FwWriteHead ==
  /\ MediaStep("fwHead", "fwBody",
               [media EXCEPT ![dev_target].crc = env_new,
                             ![dev_target].flags = ACTIVE_FLAG])
  /\ UNCHANGED unmarked

FwWriteBody ==
  /\ MediaStep("fwBody", "fwMark", [media EXCEPT ![dev_target].data = env_new])
  /\ UNCHANGED unmarked

(* Mutant: the flag of the copy just written is cleared.                    *)
flash_flag_obsoleteTarget(ok) ==
  /\ pc = "fwMark"
  /\ media' = IF ok THEN [media EXCEPT ![dev_target].flags = OBSOLETE_FLAG]
              ELSE media
  /\ writeFaults' = IF ok THEN writeFaults ELSE writeFaults + 1
  /\ unmarked' = (unmarked \/ ~ok)
  /\ pc' = "fwDone"
  /\ committed' = env_new
  /\ tried' = {}
  /\ UNCHANGED <<env, current, env_new, readFaults>>

(* flash_write() does not look at the result of flash_flag_obsolete():      *)
(* fw_setenv reports success also when the old copy stays active.           *)
flash_flag_obsolete(ok) ==
  /\ pc = "fwMark"
  /\ media' = IF ok THEN [media EXCEPT ![current].flags = OBSOLETE_FLAG]
              ELSE media
  /\ writeFaults' = IF ok THEN writeFaults ELSE writeFaults + 1
  /\ unmarked' = (unmarked \/ ~ok)
  /\ pc' = "fwDone"
  /\ committed' = env_new
  /\ tried' = {}
  /\ UNCHANGED <<env, current, env_new, readFaults>>

(* MEMERASE or write() fails, and fw_setenv ends with an error.             *)
FwFault ==
  /\ pc \in {"fwErase", "fwHead", "fwBody"}
  /\ writeFaults < MaxWriteFaults
  /\ writeFaults' = writeFaults + 1
  /\ pc' = "fwDone"
  /\ UNCHANGED <<media, env, current, env_new, readFaults, committed, tried,
                 unmarked>>

(* PowerCut is its end too.                                                 *)
FwNext ==
  \/ fw_env_open
  \/ fw_env_write
  \/ fw_env_close
  \/ FwErase
  \/ FwWriteHead
  \/ FwWriteBody
  \/ flash_flag_obsolete(TRUE)
  \/ writeFaults < MaxWriteFaults /\ flash_flag_obsolete(FALSE)
  \/ FwFault
=============================================================================
