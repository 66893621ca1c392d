----------------------------- MODULE EnvSerial ------------------------------
(* A board that keeps its environment in two copies with serials: it is     *)
(* built with env_mmc.c or with env_nand.c, which share everything but      *)
(* saveenv(), and under Linux fw_setenv writes the same copies.             *)
EXTENDS EnvMmc, EnvNand, FwEnvSerial

serialVars == <<vars, medium>>

SerialNext ==
  /\ \/ medium = "mmc" /\ Next
     \/ medium = "nand" /\ NandNext
     \/ FwNext
  /\ UNCHANGED medium

SerialInit == Init /\ medium \in {"mmc", "nand"}

SerialSpec == SerialInit /\ [][SerialNext]_serialVars

-----------------------------------------------------------------------------
(* Every variable has its type and the board is off exactly when it has no  *)
(* environment in RAM: nothing U-Boot or fw_setenv leave on the medium      *)
(* takes a serial out of its range.                                         *)
SerialTypeOK ==
  IF pc \in FwPcs THEN TypeOK /\ env # Off
  ELSE IF medium = "mmc" THEN MmcTypeOK ELSE NandTypeOK

(* A save has succeeded and a boot would not load what it saved.            *)
Lost ==
  pc \in {"idle", "fwDone"} /\ tried = {} /\ Loads(media) # committed

(* Only two things make a boot take the older copy after a successful save: *)
(* the save followed a boot that had missed a good copy and restarted the   *)
(* serial at 0, or failed writes, which increase the serial too, carried it *)
(* past its wrap-around, which CheckSerial does not recognise then.  On     *)
(* NAND the two kinds of fault must not meet: a boot that could not read    *)
(* the newest copy and a first attempt that cannot erase it leave two good  *)
(* copies with equal serials.  fw_setenv adds no other case.                *)
LostOnlyAfterFaults ==
  medium = "mmc" \/ readFaults = 0 \/ writeFaults = 0 =>
    (Lost => blind \/ \E c \in Copies : media[c].flags <= writeFaults)

(* While the copy in use is good, the step leaves a good copy; but the      *)
(* second attempt of a save on NAND, after the first one has failed, may    *)
(* not.                                                                     *)
KeepsInUse ==
  crc_ok(media, env_valid) =>
    HasGood(media') \/ (medium = "nand" /\ writeFaults > 0)
=============================================================================
