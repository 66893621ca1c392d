------------------------------ MODULE EnvBoard ------------------------------
(* A board is built with one of the environment drivers, with or without a  *)
(* redundant copy; all of its reads, erases and writes may fail, power may  *)
(* be lost between any two steps, and under Linux fw_setenv writes the same *)
(* copies.                                                                  *)
EXTENDS EnvConfig

CONSTANTS SerialMod, FirstSerials

(* What EnvRedund assumes of them.                                          *)
ASSUME BoardAssumption ==
  /\ SerialMod \in Nat
  /\ SerialMod >= 3
  /\ FirstSerials \subseteq 0 .. SerialMod - 1

VARIABLES
  medium, redundant,   \* the driver and CONFIG_ENV_*_REDUND; never change
  media,               \* the two copies, or the only one
  env, env_new, pc,    \* in RAM, see EnvRedund and EnvFlagged
  current,             \* the copy in use
  env_flags, blind,    \* with serials
  env_flash, unmarked, \* with flags
  readFaults, writeFaults, committed, tried

boardVars == <<medium, redundant, media, env, env_new, pc, current, env_flags,
               blind, env_flash, unmarked, readFaults, writeFaults,
               committed, tried>>

Serial == INSTANCE EnvSerial WITH env_valid <- current
Flash == INSTANCE EnvFlash
Single == INSTANCE EnvSingle WITH copy <- media

OnSerial == redundant /\ medium \in {"mmc", "nand"}
OnFlash == redundant /\ medium \in {"sf", "nor"}

NoSerials == env_flags = 0 /\ blind = FALSE
NoFlash == env_flash = FALSE /\ unmarked = FALSE

BoardInit ==
  \/ redundant = TRUE /\ Serial!SerialInit /\ NoFlash
  \/ redundant = TRUE /\ Flash!FlashInit /\ NoSerials
  \/ /\ redundant = FALSE /\ Single!Init /\ NoSerials
     /\ unmarked = FALSE /\ current = 1

BoardNext ==
  /\ \/ OnSerial /\ Serial!SerialNext /\ UNCHANGED <<env_flash, unmarked>>
     \/ OnFlash /\ Flash!FlashNext /\ UNCHANGED <<env_flags, blind>>
     \/ /\ ~redundant /\ Single!Next
        /\ UNCHANGED <<env_flags, blind, unmarked, current>>
  /\ UNCHANGED redundant

BoardSpec == BoardInit /\ [][BoardNext]_boardVars

-----------------------------------------------------------------------------
(* Every variable has its type on every medium.                             *)
BoardTypeOK ==
  IF OnSerial THEN Serial!SerialTypeOK
  ELSE IF OnFlash THEN Flash!FlashTypeOK
  ELSE Single!SingleTypeOK

(* A reset at any moment loads the environment of the last successful save  *)
(* or one that an unfinished save was writing, and never parts of two; a    *)
(* single copy may also be lost and leave the default.                      *)
AlwaysLoadable ==
  IF OnSerial THEN Serial!CrashSafe
  ELSE IF OnFlash THEN Flash!AlwaysLoadable
  ELSE Single!WholeOrDefault

(* After saveenv() or fw_setenv has reported success, the next boot loads   *)
(* what was saved, also after earlier calls that failed; with serials only  *)
(* the faults that LostOnlyAfterFaults names can prevent it.                *)
SaveIsKept ==
  IF OnSerial THEN Serial!LostOnlyAfterFaults
  ELSE IF OnFlash THEN Flash!SavedIsLoaded
  ELSE Single!SavedIsLoaded

(* No step costs the good copy in use while there is no other: saveenv()    *)
(* and fw_setenv replace the other copy.  Only the second attempt of a save *)
(* on NAND may.                                                             *)
InUseKept ==
  [][/\ OnSerial => Serial!KeepsInUse
     /\ OnFlash => Flash!KeepsInUse]_boardVars

(* Two copies in flash with flags are one durable environment (EnvStore)    *)
(* although calls fail, whether U-Boot or Linux writes them.                *)
FlashIsStore ==
  [][OnFlash => Flash!StepsAsStore]_<<env, committed, tried>>
=============================================================================
