---------------------------- MODULE FwEnvSerial -----------------------------
(* fw_setenv of tools/env/fw_env.c, the second program that writes the      *)
(* redundant environment: it runs under Linux while U-Boot does not, and    *)
(* main() lets one instance run at a time.  Here with the serials of NAND   *)
(* and of block devices (FLAG_INCREMENTAL).                                 *)
EXTENDS EnvRedund

VARIABLE medium        \* "mmc" or "nand", never changes

FwPcs == {"fw", "fwErase", "fwWrite", "fwDone"}

(* fw_env_open(): both copies are read, or nothing happens at all.  Without *)
(* a good copy the default environment is taken and copy 1 keeps being the  *)
(* current one, with whatever serial it has.                                *)
fw_env_open ==
  /\ pc = "off"
  /\ LET c == SelectCopy(media, Copies) IN
       /\ env' = IF c = 0 THEN DefaultEnv ELSE media[c].data
       /\ env_valid' = IF c = 0 THEN 1 ELSE c
       /\ env_flags' = media[env_valid'].flags
  /\ pc' = "fw"
  /\ blind' = FALSE
  /\ committed' = env'
  /\ tried' = {}
  /\ UNCHANGED <<media, env_new, readFaults, writeFaults>>

(* fw_env_write() of one or, with a script, of several variables.           *)
fw_env_write ==
  /\ pc = "fw"
  /\ env' \in Envs
  /\ UNCHANGED <<media, env_valid, env_flags, env_new, pc, readFaults,
                 writeFaults, blind, committed, tried>>

(* fw_env_close() up to the first write: the CRC, then the serial.          *)
fw_env_close ==
  /\ pc = "fw"
  /\ env_flags' = (env_flags + 1) % SerialMod
  /\ env_new' = GoodCopy(env, env_flags')
  /\ tried' = tried \cup {env}
  /\ pc' = IF medium = "nand" THEN "fwErase" ELSE "fwWrite"
  /\ UNCHANGED <<media, env, env_valid, readFaults, writeFaults, blind,
                 committed>>

(* dev_target of flash_io().                                                *)
dev_target == Other(env_valid)

(* Mutant: flash_io() writes the partition it has read.                     *)
MediaStepCurrent(from, to, copy) ==
  /\ pc = from
  /\ media' = [media EXCEPT ![env_valid] = copy]
  /\ pc' = to
  /\ UNCHANGED <<env, env_valid, env_flags, env_new, readFaults, writeFaults,
                 blind, committed, tried>>

MediaStep(from, to, copy) ==
  /\ pc = from
  /\ media' = [media EXCEPT ![dev_target] = copy]
  /\ pc' = to
  /\ UNCHANGED <<env, env_valid, env_flags, env_new, readFaults, writeFaults,
                 blind, committed, tried>>

(* flash_write_buf(): MEMERASE, on NAND only.                               *)
FwErase == MediaStep("fwErase", "fwWrite", BadCopy(SerialMod - 1))

(* Part of the image is on the medium.  On a block device it is the kernel  *)
(* that writes the blocks out, in any order and after write() has returned: *)
(* the block with the CRC and the serial comes first, or others do.         *)
FwWriteSome ==
  LET old == media[dev_target] IN
  IF medium = "nand"
  THEN MediaStep("fwWrite", "fwWrite", [env_new EXCEPT !.data = Blank])
  ELSE \E h \in {old, env_new} :
       \E d \in IF old.data = env_new.data THEN {old.data}
                ELSE {old.data, env_new.data, Blank} :
         MediaStep("fwWrite", "fwWrite", [h EXCEPT !.data = d])

(* All of it is, and only then is the change sure to last.                  *)
FwWriteAll ==
  /\ pc = "fwWrite"
  /\ media' = [media EXCEPT ![dev_target] = env_new]
  /\ pc' = "fwDone"
  /\ committed' = env_new.data
  /\ tried' = {}
  /\ UNCHANGED <<env, env_valid, env_flags, env_new, readFaults, writeFaults,
                 blind>>

(* MEMERASE or write() fails, and fw_setenv ends.                           *)
FwFault ==
  /\ pc \in {"fwErase", "fwWrite"}
  /\ writeFaults < MaxWriteFaults
  /\ writeFaults' = writeFaults + 1
  /\ pc' = "fwDone"
  /\ UNCHANGED <<media, env, env_valid, env_flags, env_new, readFaults,
                 blind, committed, tried>>

(* PowerCut is its end too.                                                 *)
FwNext ==
  \/ fw_env_open
  \/ fw_env_write
  \/ fw_env_close
  \/ FwErase
  \/ FwWriteSome
  \/ FwWriteAll
  \/ FwFault
=============================================================================
