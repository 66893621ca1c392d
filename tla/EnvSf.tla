------------------------------- MODULE EnvSf --------------------------------
(* common/env_sf.c with CONFIG_ENV_OFFSET_REDUND, the environment in SPI    *)
(* flash.                                                                   *)
EXTENDS EnvFlagged

VARIABLE env_flash     \* the flash has been probed by a saveenv()

SfInit == Init /\ env_flash = FALSE

(* Mutant: env_valid is not preset for a boot that finds no good copy.      *)
env_relocate_specUnset(readable) ==
  /\ pc = "off"
  /\ LET c == IF 1 \in readable THEN SelectCopy(media, readable) ELSE 0 IN
       /\ env' = IF c = 0 THEN DefaultEnv ELSE media[c].data
       /\ current' = c
  /\ pc' = "idle"
  /\ UNCHANGED <<media, env_new, writeFaults>>

(* env_relocate_spec(), after env_init() has set env_valid to 1.  A failure *)
(* to read copy 1, or to probe the flash, gives the default environment at  *)
(* once; a failure to read copy 2 only makes it invalid.                    *)
env_relocate_spec(readable) ==
  /\ pc = "off"
  /\ LET c == IF 1 \in readable THEN SelectCopy(media, readable) ELSE 0 IN
       /\ env' = IF c = 0 THEN DefaultEnv ELSE media[c].data
       /\ current' = IF c = 0 THEN 1 ELSE c
  /\ pc' = "idle"
  /\ UNCHANGED <<media, env_new, writeFaults>>

Boot ==
  /\ env_relocate_spec(Copies)
  /\ env_flash' = FALSE
  /\ committed' = env'
  /\ tried' = {}
  /\ UNCHANGED readFaults

BootWithReadFault ==
  /\ readFaults < MaxReadFaults
  /\ readFaults' = readFaults + 1
  /\ \E readable \in (SUBSET Copies) \ {Copies} : env_relocate_spec(readable)
  /\ env_flash' = FALSE
  /\ UNCHANGED <<committed, tried>>

(* The first saveenv() after a boot probes the flash again; when that fails *)
(* it returns an error and has put the default environment in RAM.          *)
ProbeFault ==
  /\ pc = "idle"
  /\ ~env_flash
  /\ writeFaults < MaxWriteFaults
  /\ writeFaults' = writeFaults + 1
  /\ env' = DefaultEnv
  /\ UNCHANGED <<media, current, env_new, pc, readFaults, committed, tried,
                 env_flash>>

(* The environment does not fit: only the probe has happened.               *)
ExportFault ==
  /\ pc = "idle"
  /\ env_flash' = TRUE
  /\ UNCHANGED vars

ProbeAndExport == Export /\ env_flash' = TRUE

(* The old copy is marked obsolete and env_valid changes over.              *)
MarkObsolete ==
  /\ pc = "mark"
  /\ media' = [media EXCEPT ![current].flags = OBSOLETE_FLAG]
  /\ ReturnSuccess(IF current = 2 THEN 1 ELSE 2)
  /\ UNCHANGED <<env, env_new, readFaults, writeFaults>>

(* spi_flash_erase() or one of the spi_flash_write() fails.                 *)
FlashFault == pc \in {"erase", "head", "body", "mark"} /\ ReturnError

SfNext ==
  \/ Boot
  \/ BootWithReadFault
  \/ ProbeFault
  \/ ExportFault
  \/ ProbeAndExport
  \/ /\ SetEnv \/ PowerCut \/ Erase \/ WriteHead \/ WriteBody \/ MarkObsolete
        \/ FlashFault
     /\ UNCHANGED env_flash

-----------------------------------------------------------------------------
SfTypeOK ==
  /\ TypeOK
  /\ pc \in {"off", "idle", "erase", "head", "body", "mark"}
  /\ pc = "off" <=> env = Off
  /\ env_flash \in BOOLEAN
=============================================================================
