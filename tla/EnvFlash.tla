------------------------------ MODULE EnvFlash ------------------------------
(* A board that keeps its environment in two flagged copies in flash: it is *)
(* built with env_sf.c (SPI) or with env_flash.c (NOR).                     *)
EXTENDS EnvSf, EnvNor, FwEnvFlagged

VARIABLE medium        \* never changes

flashVars == <<vars, env_flash, unmarked, medium>>

FlashNext ==
  /\ \/ medium = "sf" /\ SfNext /\ UNCHANGED unmarked
     \/ medium = "nor" /\ NorNext /\ UNCHANGED <<env_flash, unmarked>>
     \/ FwNext /\ UNCHANGED env_flash
  /\ UNCHANGED medium

FlashInit == SfInit /\ unmarked = FALSE /\ medium \in {"sf", "nor"}

FlashSpec == FlashInit /\ [][FlashNext]_flashVars

-----------------------------------------------------------------------------
FlashTypeOK ==
  IF pc \in FwPcs THEN TypeOK /\ env # Off
  ELSE IF medium = "sf" THEN SfTypeOK ELSE NorTypeOK

(* A save may have reported success although a call on the flash failed:    *)
(* saveenv() of env_flash.c, or fw_setenv that could not mark the old copy. *)
Unreported == unmarked \/ (medium = "nor" /\ writeFaults > 0)

(* As long as the copies can be read, a reset at any moment, also between   *)
(* the two flag repairs of a NOR boot, loads the environment of the last    *)
(* successful save or one that a later, unfinished or failed, save wrote.   *)
AlwaysLoadable ==
  readFaults = 0 /\ ~Unreported => Loads(media) \in {committed} \cup tried

(* After a save has reported success, the next boot loads what was saved    *)
(* although only a flag, written last, tells the copies apart.              *)
SavedIsLoaded ==
  pc \in {"idle", "fwDone"} /\ tried = {} /\ ~Unreported =>
    Loads(media) = committed

(* While the copy in use is good, the step leaves a good copy, whatever     *)
(* power cut or failed call it follows.                                     *)
KeepsInUse == crc_ok(media, current) => HasGood(media')

(* A step of one durable environment (EnvStore), with all power cuts, and   *)
(* on SPI flash also with all failing erases and writes.  After a boot that *)
(* could not read the copy in use it no longer is: the next save erases     *)
(* that copy.                                                               *)
StepsAsStore == Store!StoreNext \/ Unreported' \/ readFaults' > 0
=============================================================================
