----------------------------- MODULE EnvSingle ------------------------------
(* The environment in a single copy: env_mmc.c, env_nand.c, env_sf.c and    *)
(* env_flash.c without a redundant one.  This is how the E9 board is        *)
(* configured (MMC).  A save that does not finish may cost the environment, *)
(* but the CRC keeps a mixture of old and new from being used.              *)
EXTENDS EnvConfig

VARIABLES
  medium,       \* which of the four drivers is built in; never changes
  copy,         \* the env_t on it
  env,          \* env_htab, or Off
  env_flash,    \* env_sf.c: the flash has been probed by a saveenv()
  env_new,      \* the environment saveenv() is writing
  pc,
  readFaults, writeFaults,
  committed,    \* history: what the last successful save or boot settled
  tried         \* history: what unfinished or failed saves since have written

vars == <<medium, copy, env, env_flash, env_new, pc, readFaults, writeFaults,
          committed, tried>>

Media == {"mmc", "nand", "sf", "nor"}
env_t == [crc : Envs \cup {NoCrc}, data : Envs \cup {Blank}]
BadCopy == [crc |-> NoCrc, data |-> Blank]
GoodCopy(e) == [crc |-> e, data |-> e]

(* env_import(buf, 1): the data if the CRC is right, else the default.      *)
env_import(ep) == IF ep.crc = ep.data THEN ep.data ELSE DefaultEnv

Init ==
  /\ medium \in Media
  /\ copy \in {BadCopy} \cup {GoodCopy(e) : e \in Envs}
  /\ env = Off
  /\ env_flash = FALSE
  /\ env_new = DefaultEnv
  /\ pc = "off"
  /\ readFaults = 0
  /\ writeFaults = 0
  /\ committed = env_import(copy)
  /\ tried = {}

env_relocate_spec ==
  /\ pc = "off"
  /\ env' = env_import(copy)
  /\ env_flash' = FALSE
  /\ committed' = env'
  /\ tried' = {}
  /\ pc' = "idle"
  /\ UNCHANGED <<medium, copy, env_new, readFaults, writeFaults>>

(* The device cannot be read: set_default_env().  NOR flash is memory.      *)
BootWithReadFault ==
  /\ pc = "off"
  /\ medium # "nor"
  /\ readFaults < MaxReadFaults
  /\ readFaults' = readFaults + 1
  /\ env' = DefaultEnv
  /\ env_flash' = FALSE
  /\ pc' = "idle"
  /\ UNCHANGED <<medium, copy, env_new, writeFaults, committed, tried>>

SetEnv ==
  /\ pc = "idle"
  /\ env' \in Envs
  /\ UNCHANGED <<medium, copy, env_flash, env_new, pc, readFaults,
                 writeFaults, committed, tried>>

PowerCut ==
  /\ pc # "off"
  /\ pc' = "off"
  /\ env' = Off
  /\ UNCHANGED <<medium, copy, env_flash, env_new, readFaults, writeFaults,
                 committed, tried>>

(* env_sf.c: a failed probe puts the default environment in RAM.            *)
ProbeFault ==
  /\ pc = "idle"
  /\ medium = "sf"
  /\ ~env_flash
  /\ writeFaults < MaxWriteFaults
  /\ writeFaults' = writeFaults + 1
  /\ env' = DefaultEnv
  /\ UNCHANGED <<medium, copy, env_flash, env_new, pc, readFaults, committed,
                 tried>>

(* saveenv() up to env_export(); only MMC is written without an erase.      *)
Export ==
  /\ pc = "idle"
  /\ env_flash' = (env_flash \/ medium = "sf")
  /\ env_new' = env
  /\ tried' = tried \cup {env}
  /\ pc' = IF medium = "mmc" THEN "write" ELSE "erase"
  /\ UNCHANGED <<medium, copy, env, readFaults, writeFaults, committed>>

Erase ==
  /\ pc = "erase"
  /\ copy' = BadCopy
  /\ pc' = "write"
  /\ UNCHANGED <<medium, env, env_flash, env_new, readFaults, writeFaults,
                 committed, tried>>

(* Some blocks are written, the one with the CRC first.  In place (MMC) the *)
(* data may still be the old ones, or already the new ones, where the       *)
(* environments agree in the other blocks.                                  *)
WriteSome ==
  /\ pc = "write"
  /\ \E d \in IF copy.data = env_new THEN {env_new}
              ELSE {Blank} \cup (IF medium = "mmc" THEN {copy.data, env_new}
                                                     ELSE {}) :
       copy' = [crc |-> env_new, data |-> d]
  /\ UNCHANGED <<medium, env, env_flash, env_new, pc, readFaults,
                 writeFaults, committed, tried>>

(* The last block, the rest of the sector, and saveenv() returns 0.         *)
WriteRest ==
  /\ pc = "write"
  /\ copy' = GoodCopy(env_new)
  /\ pc' = "idle"
  /\ committed' = env_new
  /\ tried' = {}
  /\ UNCHANGED <<medium, env, env_flash, env_new, readFaults, writeFaults>>

(* Mutant: the result of the write is not looked at.                        *)
SaveFaultIgnored ==
  /\ pc \in {"erase", "write"}
  /\ writeFaults < MaxWriteFaults
  /\ writeFaults' = writeFaults + 1
  /\ pc' = "idle"
  /\ committed' = env_new /\ tried' = {}
  /\ UNCHANGED <<medium, copy, env, env_flash, env_new, readFaults>>

(* A call on the medium fails.  saveenv() returns an error, except that of  *)
(* env_flash.c after a failed flash_sect_erase(): rc is still 0.            *)
SaveFault ==
  /\ pc \in {"erase", "write"}
  /\ writeFaults < MaxWriteFaults
  /\ writeFaults' = writeFaults + 1
  /\ pc' = "idle"
  /\ IF medium = "nor" /\ pc = "erase"
     THEN committed' = env_new /\ tried' = {}
     ELSE UNCHANGED <<committed, tried>>
  /\ UNCHANGED <<medium, copy, env, env_flash, env_new, readFaults>>

Next ==
  \/ env_relocate_spec
  \/ BootWithReadFault
  \/ SetEnv
  \/ PowerCut
  \/ ProbeFault
  \/ Export
  \/ Erase
  \/ WriteSome
  \/ WriteRest
  \/ SaveFault

Spec == Init /\ [][Next]_vars

-----------------------------------------------------------------------------
SingleTypeOK ==
  /\ medium \in Media
  /\ copy \in env_t
  /\ env \in Envs \cup {Off}
  /\ env_flash \in BOOLEAN
  /\ env_new \in Envs
  /\ pc \in {"off", "idle", "erase", "write"}
  /\ pc = "off" <=> env = Off
  /\ readFaults \in 0 .. MaxReadFaults
  /\ writeFaults \in 0 .. MaxWriteFaults
  /\ committed \in Envs
  /\ tried \subseteq Envs

(* At every moment a reset loads the last saved environment, one that an    *)
(* unfinished save was writing, or the default: never parts of two.         *)
WholeOrDefault ==
  medium # "nor" \/ writeFaults = 0 =>
    env_import(copy) \in {committed, DefaultEnv} \cup tried

(* The environment is at stake only while a save is unfinished: after one   *)
(* that reported success the next boot loads what was saved.                *)
SavedIsLoaded ==
  /\ pc = "idle"
  /\ tried = {}
  /\ medium # "nor" \/ writeFaults = 0
  => env_import(copy) = committed
=============================================================================
