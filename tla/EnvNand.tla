------------------------------ MODULE EnvNand -------------------------------
(* common/env_nand.c with CONFIG_ENV_OFFSET_REDUND: saveenv() erases and    *)
(* writes the copy that was not loaded; if that fails it does the same to   *)
(* the other copy, the one that was loaded.                                 *)
EXTENDS EnvRedund

(* Mutant: the copy in use is the first one that is erased.                 *)
LocationInUse(n) == IF n = 1 THEN env_valid ELSE Other(env_valid)

(* location[env_idx] of the n-th attempt, and where saveenv() is in its     *)
(* erase_and_write_env().                                                   *)
Attempts == {1, 2}
Location(n) == IF (env_valid = 1) = (n = 1) THEN 2 ELSE 1
AtErase == <<"erase1", "erase2">>
AtWrite == <<"write1", "write2">>

NandExport == ExportEnv(AtErase[1])

(* nand_erase_opts() succeeds: the copy is blank.                           *)
Erase(n) ==
  /\ pc = AtErase[n]
  /\ media' = [media EXCEPT ![Location(n)] = BadCopy(SerialMod - 1)]
  /\ pc' = AtWrite[n]
  /\ UNCHANGED <<env, env_valid, env_flags, env_new, readFaults, writeFaults,
                 blind, committed, tried>>

(* writeenv() succeeds.  A first attempt that succeeds changes env_valid to *)
(* the copy it wrote; a second one has written the copy env_valid is.       *)
(* Until the last block is written the CRC does not match, so a power cut   *)
(* during writeenv() leaves what one before it leaves.                      *)
Write(n) ==
  /\ pc = AtWrite[n]
  /\ media' = [media EXCEPT ![Location(n)] = env_new]
  /\ SaveDone(IF n = 2 THEN env_valid
              ELSE IF env_valid = 2 THEN 1 ELSE 2)

(* erase_and_write_env() fails in the erase, which leaves the copy as it    *)
(* was, or in the write, which leaves it unusable: the other copy is tried  *)
(* once, then saveenv() returns the error.                                  *)
Fault(n) ==
  /\ pc \in {AtErase[n], AtWrite[n]}
  /\ writeFaults < MaxWriteFaults
  /\ writeFaults' = writeFaults + 1
  /\ pc' = IF n = 1 THEN AtErase[2] ELSE "idle"
  /\ UNCHANGED <<media, env, env_valid, env_flags, env_new, readFaults,
                 blind, committed, tried>>

NandNext ==
  \/ Boot
  \/ BootWithReadFault
  \/ SetEnv
  \/ PowerCut
  \/ NandExport
  \/ \E n \in Attempts : Erase(n) \/ Write(n) \/ Fault(n)

-----------------------------------------------------------------------------
NandTypeOK ==
  /\ TypeOK
  /\ pc \in {"off", "idle"} \cup {AtErase[n] : n \in Attempts}
                            \cup {AtWrite[n] : n \in Attempts}
  /\ pc = "off" <=> env = Off
=============================================================================
