----------------------------- MODULE EnvRedund ------------------------------
(* The environment kept in two copies with serial numbers: the state and    *)
(* the boot path that common/env_mmc.c and common/env_nand.c have in common *)
(* (CONFIG_ENV_OFFSET_REDUND).  EnvMmc and EnvNand add their saveenv().      *)
(*                                                                          *)
(* A copy on the medium is an env_t.  Its CRC covers the data and not the   *)
(* serial; it is modelled as the contents it was computed over, so it       *)
(* matches exactly the data it belongs to.                                  *)
EXTENDS EnvConfig, FiniteSets

CONSTANTS SerialMod,      \* 256: env_flags is an unsigned char
          FirstSerials    \* serials the copies may start with

ASSUME SerialAssumption ==
  /\ SerialMod \in Nat
  /\ SerialMod >= 3
  /\ FirstSerials \subseteq 0 .. SerialMod - 1

VARIABLES
  media,        \* the two copies on the medium
  env,          \* env_htab, the environment in RAM; Off when not running
  env_valid,    \* gd->env_valid: the copy that was loaded or written last
  env_flags,    \* the serial counter in RAM
  env_new,      \* the image saveenv() is writing
  pc,           \* where saveenv() is; "idle" outside it, "off" without power
  readFaults,   \* faults so far, against their bounds
  writeFaults,
  blind,        \* history: a boot took the default over a copy it missed
  committed,    \* history: what the last successful save or boot settled
  tried         \* history: what unfinished or failed saves since have written

vars == <<media, env, env_valid, env_flags, env_new, pc, readFaults,
          writeFaults, blind, committed, tried>>

Copies == {1, 2}
Serials == 0 .. SerialMod - 1
env_t == [crc : Envs \cup {NoCrc}, flags : Serials, data : Envs \cup {Blank}]

Other(c) == 3 - c

BadCopy(f) == [crc |-> NoCrc, flags |-> f, data |-> Blank]
GoodCopy(e, f) == [crc |-> e, flags |-> f, data |-> e]

(* crc32(0, ep->data, ENV_SIZE) == ep->crc                                  *)
crc_ok(m, c) == m[c].crc = m[c].data

(* Mutant: the wrap-around of the serial is not recognised.                 *)
CheckSerialNoWrap(f1, f2) == IF f2 > f1 THEN 2 ELSE 1

(* The serial comparison of env_relocate_spec(), both CRCs being right.     *)
CheckSerial(f1, f2) ==
  IF f1 = SerialMod - 1 /\ f2 = 0 THEN 2
  ELSE IF f2 = SerialMod - 1 /\ f1 = 0 THEN 1
  ELSE IF f2 > f1 THEN 2
  ELSE 1    \* "flags are equal - almost impossible" included

(* The copy env_relocate_spec() loads when it can read the copies in        *)
(* `readable`; 0 when it falls back to set_default_env().                   *)
SelectCopy(m, readable) ==
  LET ok(c) == c \in readable /\ crc_ok(m, c) IN
  IF ok(1) /\ ok(2) THEN CheckSerial(m[1].flags, m[2].flags)
  ELSE IF ok(1) THEN 1
  ELSE IF ok(2) THEN 2
  ELSE 0

(* The environment a boot with a readable medium would load from m.         *)
Loads(m) ==
  LET c == SelectCopy(m, Copies) IN IF c = 0 THEN DefaultEnv ELSE m[c].data

(* A medium as the factory or an earlier life of the board leaves it: no    *)
(* environment yet, one good copy, or two with successive serials.          *)
FirstMedia ==
  {m \in [Copies -> {BadCopy(0)} \cup
                    {GoodCopy(e, f) : e \in Envs, f \in FirstSerials}] :
     crc_ok(m, 1) /\ crc_ok(m, 2) =>
       \E c \in Copies : m[c].flags = (m[Other(c)].flags + 1) % SerialMod}

Init ==
  /\ media \in FirstMedia
  /\ env = Off
  /\ env_valid = 1
  /\ env_flags = 0
  /\ env_new = BadCopy(0)
  /\ pc = "off"
  /\ readFaults = 0
  /\ writeFaults = 0
  /\ blind = FALSE
  /\ committed = Loads(media)
  /\ tried = {}

(* env_init(), env_relocate() and env_relocate_spec() of a boot that reads  *)
(* the copies in `readable`.  env_init() has set env_valid to 1 and         *)
(* env_flags is in .bss, so both restart when nothing valid is found.       *)
env_relocate_spec(readable) ==
  /\ pc = "off"
  /\ LET c == SelectCopy(media, readable) IN
       /\ env' = IF c = 0 THEN DefaultEnv ELSE media[c].data
       /\ env_valid' = IF c = 0 THEN 1 ELSE c
       /\ env_flags' = IF c = 0 THEN 0 ELSE media[c].flags
  /\ pc' = "idle"
  /\ UNCHANGED <<media, env_new, writeFaults>>

Boot ==
  /\ env_relocate_spec(Copies)
  /\ blind' = FALSE
  /\ committed' = env'
  /\ tried' = {}
  /\ UNCHANGED readFaults

(* The device or a copy cannot be read at this boot, but at a later one.    *)
BootWithReadFault ==
  /\ readFaults < MaxReadFaults
  /\ readFaults' = readFaults + 1
  /\ \E readable \in (SUBSET Copies) \ {Copies} :
       /\ env_relocate_spec(readable)
       /\ blind' = (blind \/ (SelectCopy(media, readable) = 0
                              /\ SelectCopy(media, Copies) # 0))
  /\ UNCHANGED <<committed, tried>>

(* setenv and its kind: external to the storage.                            *)
SetEnv ==
  /\ pc = "idle"
  /\ env' \in Envs
  /\ UNCHANGED <<media, env_valid, env_flags, env_new, pc, readFaults,
                 writeFaults, blind, committed, tried>>

(* The power goes, or the board is reset, between any two steps.            *)
PowerCut ==
  /\ pc # "off"
  /\ pc' = "off"
  /\ env' = Off
  /\ UNCHANGED <<media, env_valid, env_flags, env_new, readFaults,
                 writeFaults, blind, committed, tried>>

(* saveenv() up to its first write: env_export() fills env_new, the serial  *)
(* is increased (and stays increased if the save fails).                    *)
ExportEnv(next) ==
  /\ pc = "idle"
  /\ env_flags' = (env_flags + 1) % SerialMod
  /\ env_new' = GoodCopy(env, env_flags')
  /\ tried' = tried \cup {env}
  /\ pc' = next
  /\ UNCHANGED <<media, env, env_valid, readFaults, writeFaults, blind,
                 committed>>

(* The end of a saveenv() that returns 0; v is the new env_valid.           *)
SaveDone(v) ==
  /\ env_valid' = v
  /\ pc' = "idle"
  /\ committed' = env_new.data
  /\ tried' = {}
  /\ UNCHANGED <<env, env_flags, env_new, readFaults, writeFaults, blind>>

-----------------------------------------------------------------------------
TypeOK ==
  /\ media \in [Copies -> env_t]
  /\ env \in Envs \cup {Off}
  /\ env_valid \in Copies
  /\ env_flags \in Serials
  /\ env_new \in env_t
  /\ readFaults \in 0 .. MaxReadFaults
  /\ writeFaults \in 0 .. MaxWriteFaults
  /\ blind \in BOOLEAN
  /\ committed \in Envs
  /\ tried \subseteq Envs

(* Power cuts alone lose nothing: at every moment, also between two blocks  *)
(* of a write, a reset would load the environment of the last successful    *)
(* save or the one being saved.                                             *)
CrashSafe ==
  readFaults = 0 /\ writeFaults = 0 => Loads(media) \in {committed} \cup tried

(* After saveenv(), or fw_setenv, has reported success, the next boot loads *)
(* what was saved: env_relocate_spec() takes the copy that was written last.*)
SavedIsLoaded ==
  pc \in {"idle", "fwDone"} /\ tried = {} => Loads(media) = committed

HasGood(m) == \E c \in Copies : crc_ok(m, c)

(* While the copy in use is good, no step leaves the medium without a good  *)
(* copy, whatever power cut or failed call it follows: saveenv() replaces   *)
(* the other copy.                                                          *)
BackupKept == [][crc_ok(media, env_valid) => HasGood(media')]_vars

Store == INSTANCE EnvStore WITH running <- env

(* The two copies implement one durable environment (EnvStore).             *)
ImplementsStore == Store!StoreSpec
=============================================================================
