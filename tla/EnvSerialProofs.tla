-------------------------- MODULE EnvSerialProofs ---------------------------
(* Proofs about the two copies with serials, for every set of environments, *)
(* every serial modulus of at least 3 and every fault bound: first for the  *)
(* redundant environment in MMC, then by the same argument for U-Boot,      *)
(* built for MMC or for NAND, and fw_setenv of Linux writing in turns.      *)
EXTENDS EnvSerial, TLAPS

NoFaults == readFaults = 0 /\ writeFaults = 0

(* saveenv() is between env_export() and its end.                           *)
Saving == pc \in {"head", "body"}

(* Outside saveenv(), RAM and medium agree: the copy a boot would take is   *)
(* the one env_valid names, env_flags is its serial.                        *)
IdleInv ==
  pc = "idle" =>
    /\ tried = {}
    /\ Loads(media) = committed
    /\ SelectCopy(media, Copies) \in {0, env_valid}
    /\ SelectCopy(media, Copies) # 0 => env_flags = media[env_valid].flags

(* Inside it, the copy env_valid names is untouched and its serial is one   *)
(* behind, or there has never been a good copy.                             *)
SavingInv ==
  Saving =>
    /\ tried = {env}
    /\ \/ /\ crc_ok(media, env_valid)
          /\ media[env_valid].data = committed
          /\ env_flags = (media[env_valid].flags + 1) % SerialMod
       \/ /\ ~crc_ok(media, env_valid)
          /\ committed = DefaultEnv
    /\ pc = "head" => SelectCopy(media, Copies) \in {0, env_valid}
    /\ pc = "body" => /\ media[Target].crc = env
                      /\ media[Target].flags = env_flags

(* The image being written is the environment in RAM.                       *)
ImageInv == Saving => env_new = GoodCopy(env, env_flags)

TInv == MmcTypeOK /\ ImageInv

OffInv == pc = "off" => Loads(media) \in {committed} \cup tried

(* The strengthening of CrashSafe that every step preserves.                *)
IInv == TInv /\ (NoFaults => IdleInv /\ SavingInv /\ OffInv)

-----------------------------------------------------------------------------
USE EnvAssumption, SerialAssumption, FaultAssumption

(* crc_ok() and the serials decide the copy as env_relocate_spec() does.    *)
LEMMA SelectCases ==
  ASSUME NEW m \in [Copies -> env_t]
  PROVE  /\ SelectCopy(m, Copies) \in {0, 1, 2}
         /\ SelectCopy(m, Copies) = 0 <=> ~crc_ok(m, 1) /\ ~crc_ok(m, 2)
         /\ SelectCopy(m, Copies) # 0 => crc_ok(m, SelectCopy(m, Copies))
  BY DEF SelectCopy, CheckSerial, Copies

(* A copy written with the next serial is newer than the one it follows,    *)
(* also across the wrap-around; this is where SerialMod >= 3 is needed.     *)
LEMMA NextSerialWins ==
  ASSUME NEW f \in Serials
  PROVE  /\ CheckSerial(f, (f + 1) % SerialMod) = 2
         /\ CheckSerial((f + 1) % SerialMod, f) = 1
         /\ (f + 1) % SerialMod \in Serials
<1>1. (f + 1) % SerialMod = IF f = SerialMod - 1 THEN 0 ELSE f + 1
  BY DEF Serials
<1> QED
  BY <1>1 DEF CheckSerial, Serials

(* A good copy whose serial follows that of the other one is the copy a     *)
(* boot takes; so is a good copy beside a bad one.                          *)
LEMMA NewCopySelected ==
  ASSUME NEW m \in [Copies -> env_t], NEW t \in Copies, NEW v \in Copies,
         t # v, crc_ok(m, t),
         crc_ok(m, v) => m[t].flags = (m[v].flags + 1) % SerialMod
  PROVE  SelectCopy(m, Copies) = t
<1>1. CASE ~crc_ok(m, v)
  BY <1>1, SelectCases DEF Copies
<1>2. CASE crc_ok(m, v)
  <2>1. m[v].flags \in Serials
    BY Zenon DEF env_t
  <2>2. SelectCopy(m, Copies) = CheckSerial(m[1].flags, m[2].flags)
    BY <1>2 DEF SelectCopy, Copies
  <2>3. /\ CheckSerial(m[v].flags, m[t].flags) = 2
        /\ CheckSerial(m[t].flags, m[v].flags) = 1
    BY <1>2, <2>1, NextSerialWins, Zenon
  <2>4. CASE v = 1 /\ t = 2
    BY <2>2, <2>3, <2>4, Zenon
  <2>5. CASE v = 2 /\ t = 1
    BY <2>2, <2>3, <2>5, Zenon
  <2> QED
    BY <2>4, <2>5 DEF Copies
<1> QED
  BY <1>1, <1>2, Zenon

(* The types of the images the model builds.                                *)
LEMMA CopyTypes ==
  ASSUME NEW e \in Envs, NEW f \in Serials
  PROVE  GoodCopy(e, f) \in env_t /\ BadCopy(f) \in env_t
  BY Zenon DEF GoodCopy, BadCopy, env_t

(* The invariant holds of a board that is off, with any two copies.         *)
LEMMA InitInv == Init => IInv
<1> SUFFICES ASSUME Init PROVE IInv
  OBVIOUS
<1>1. media \in [Copies -> env_t]
  BY CopyTypes DEF Init, FirstMedia, Serials
<1>2. Loads(media) \in Envs
  BY <1>1, SelectCases DEF Loads, env_t, crc_ok, Copies
<1>3. TInv
  <2>1. BadCopy(0) \in env_t
    BY CopyTypes DEF Serials
  <2>2. 0 \in Serials /\ 1 \in Copies
    BY DEF Serials, Copies
  <2>3. PcOK /\ ImageInv
    BY Zenon DEF Init, PcOK, ImageInv, Saving
  <2>4. blind \in BOOLEAN /\ env \in Envs \cup {Off} /\ tried \subseteq Envs
    BY Zenon  DEF Init
  <2>5. readFaults \in 0 .. MaxReadFaults /\ writeFaults \in 0 .. MaxWriteFaults
    BY DEF Init
  <2> QED
    BY <1>1, <1>2, <2>1, <2>2, <2>3, <2>4, <2>5, Zenon 
    DEF Init, TInv, MmcTypeOK, TypeOK
<1>4. IdleInv /\ SavingInv /\ OffInv
  BY Zenon DEF Init, IdleInv, SavingInv, Saving, OffInv
<1> QED
  BY <1>3, <1>4, Zenon DEF IInv

(* Every step keeps the types.                                              *)
LEMMA TypeStep == TInv /\ [Next]_vars => TInv'
<1> SUFFICES ASSUME TInv, [Next]_vars PROVE TInv'
  OBVIOUS
<1> USE DEF TInv, MmcTypeOK, TypeOK, PcOK, ImageInv, Saving
<1>0. ASSUME NEW readable \in SUBSET Copies, env_relocate_spec(readable)
      PROVE  /\ env' \in Envs /\ env_valid' \in Copies
             /\ env_flags' \in Serials /\ env_new' \in env_t
             /\ media' \in [Copies -> env_t]
             /\ pc' = "idle" /\ env' # Off
  <2>1. SelectCopy(media, readable) \in {0, 1, 2}
    BY Zenon DEF SelectCopy, CheckSerial
  <2>2. SelectCopy(media, readable) # 0 =>
          media[SelectCopy(media, readable)].data \in Envs
    BY DEF SelectCopy, CheckSerial, crc_ok, env_t, Copies
  <2> QED
    BY <1>0, <2>1, <2>2 DEF env_relocate_spec, Copies, Serials, env_t
<1>1. CASE Boot
  <2>1. env_relocate_spec(Copies) /\ Copies \in SUBSET Copies
    BY <1>1, Zenon DEF Boot
  <2>2. env' \in Envs /\ env_valid' \in Copies /\ env_flags' \in Serials
        /\ env_new' \in env_t /\ media' \in [Copies -> env_t]
        /\ pc' = "idle" /\ env' # Off
    BY <2>1, <1>0, Zenon
  <2>3. writeFaults' = writeFaults
    BY <2>1, Zenon DEF env_relocate_spec
  <2> QED
    BY <1>1, <2>2, <2>3, Zenon DEF Boot
<1>2. CASE BootWithReadFault
  BY <1>0, <1>2 DEF BootWithReadFault, env_relocate_spec
<1>3. CASE SetEnv
  BY <1>3, Zenon DEF SetEnv
<1>4. CASE PowerCut
  BY <1>4, Zenon DEF PowerCut
<1>5. CASE Export
  <2>1. env_flags' \in Serials
    BY <1>5, NextSerialWins, Zenon DEF Export, ExportEnv
  <2> QED
    BY <1>5, <2>1, CopyTypes, Zenon DEF Export, ExportEnv
<1>6. CASE WriteHead
  BY <1>6 DEF WriteHead, Overwritten, Target, Copies, env_t
<1>7. CASE WriteBody
  <2>1. env_new.data \in Envs
    BY <1>7 DEF WriteBody, GoodCopy
  <2> QED
    BY <1>7, <2>1 DEF WriteBody, SaveDone, Target, Copies, env_t
<1>8. CASE WriteFault
  BY <1>8 DEF WriteFault
<1>9. CASE UNCHANGED vars
  BY <1>9, Zenon DEF vars
<1> QED
  BY <1>1, <1>2, <1>3, <1>4, <1>5, <1>6, <1>7, <1>8, <1>9, Zenon DEF Next

(* What a boot would load in the middle of a save: the old environment as   *)
(* long as the data of the copy being written differ from the new one, the  *)
(* new one from then on.                                                    *)
LEMMA LoadsWhileSaving ==
  ASSUME TInv, SavingInv, Saving
  PROVE  Loads(media) \in {committed} \cup tried
<1> USE DEF TInv, MmcTypeOK, TypeOK
<1>1. CASE pc = "head"
  BY <1>1, SelectCases DEF SavingInv, Saving, Loads, Copies
<1>2. CASE pc = "body"
  <2>1. Target \in Copies /\ Target # env_valid
    BY DEF Target, Copies
  <2>2. CASE ~crc_ok(media, Target)
    <3>1. SelectCopy(media, Copies) \in {0, env_valid}
      BY <2>1, <2>2, SelectCases, Zenon DEF Copies
    <3> QED
      BY <3>1, SelectCases, <1>2 DEF SavingInv, Saving, Loads, Copies
  <2>3. CASE crc_ok(media, Target)
    <3>1. media[Target].data = env /\ media[Target].flags = env_flags
      BY <1>2, <2>3, Zenon DEF SavingInv, Saving, crc_ok
    <3>2. SelectCopy(media, Copies) = Target
      BY <1>2, <2>1, <2>3, <3>1, NewCopySelected, Zenon DEF SavingInv, Saving
    <3> QED
      BY <2>1, <3>1, <3>2 DEF SavingInv, Loads, Copies
  <2> QED
    BY <2>2, <2>3, Zenon
<1> QED
  BY <1>1, <1>2, Zenon DEF Saving

(* Every step keeps the whole invariant.                                    *)
LEMMA InvStep == IInv /\ [Next]_vars => IInv'
<1> SUFFICES ASSUME IInv, [Next]_vars, NoFaults'
             PROVE  IdleInv' /\ SavingInv' /\ OffInv'
  BY TypeStep, Zenon DEF IInv
<1>t. TInv /\ TInv'
  BY TypeStep, Zenon DEF IInv
<1>s. SelectCopy(media, Copies) \in {0, 1, 2}
  BY <1>t, SelectCases, Zenon DEF TInv, MmcTypeOK, TypeOK
<1> USE DEF NoFaults, Saving
<1>1. CASE Boot
  <2>1. NoFaults
    BY <1>1, Zenon DEF Boot, env_relocate_spec
  <2>2. IdleInv'
    <3>1. media' = media /\ env' = Loads(media)
      BY <1>1, Zenon DEF Boot, env_relocate_spec, Loads
    <3>2. SelectCopy(media, Copies) # 0 =>
            /\ env_valid' = SelectCopy(media, Copies)
            /\ env_flags' = media[env_valid'].flags
      BY <1>1, Zenon DEF Boot, env_relocate_spec
    <3> QED
      BY <1>1, <3>1, <3>2, <1>s, Zenon DEF Boot, IdleInv, Loads
  <2> QED
    BY <1>1, <2>2, Zenon DEF Boot, env_relocate_spec, SavingInv, OffInv
<1>2. CASE BootWithReadFault
  BY <1>2, <1>t DEF BootWithReadFault, TInv, MmcTypeOK, TypeOK
<1>3. CASE SetEnv
  <2>1. IdleInv /\ NoFaults
    BY <1>3, Zenon DEF SetEnv, IInv
  <2> QED
    BY <1>3, <2>1, Zenon DEF SetEnv, IdleInv, SavingInv, OffInv, Loads
<1>4. CASE PowerCut
  <2>1. NoFaults /\ IdleInv /\ SavingInv
    BY <1>4, Zenon DEF PowerCut, IInv
  <2>2. Loads(media) \in {committed} \cup tried
    BY <1>4, <1>t, <2>1, LoadsWhileSaving, Zenon
    DEF PowerCut, IdleInv, TInv, MmcTypeOK, PcOK
  <2> QED
    BY <1>4, <2>2, Zenon DEF PowerCut, IdleInv, SavingInv, OffInv, Loads
<1>5. CASE Export
  <2>1. NoFaults /\ IdleInv
    BY <1>5, Zenon DEF Export, ExportEnv, IInv
  <2>2. pc = "idle" /\ pc' = "head" /\ media' = media /\ env' = env
        /\ env_valid' = env_valid /\ committed' = committed
        /\ tried' = {env} /\ env_flags' = (env_flags + 1) % SerialMod
    BY <1>5, <2>1, Zenon DEF Export, ExportEnv, IdleInv
  <2>3. env_valid \in Copies /\ media \in [Copies -> env_t]
    BY <1>t, Zenon DEF TInv, MmcTypeOK, TypeOK
  <2>4. CASE SelectCopy(media, Copies) = 0
    BY <2>1, <2>2, <2>3, <2>4, SelectCases, Zenon
    DEF IdleInv, SavingInv, OffInv, Loads, Copies, crc_ok
  <2>5. CASE SelectCopy(media, Copies) # 0
    BY <2>1, <2>2, <2>3, <2>5, SelectCases, Zenon
    DEF IdleInv, SavingInv, OffInv, Loads, Copies, crc_ok
  <2> QED
    BY <2>4, <2>5, Zenon
<1>6. CASE WriteHead
  <2>1. NoFaults /\ SavingInv
    BY <1>6, Zenon DEF WriteHead, IInv
  <2>2. env_valid \in Copies /\ media \in [Copies -> env_t]
        /\ Target \in Copies /\ Target # env_valid /\ Target' = Target
    BY <1>6, <1>t DEF WriteHead, TInv, MmcTypeOK, TypeOK, Target, Copies
  <2>3. media'[env_valid] = media[env_valid]
    BY <1>6, <2>2, Zenon DEF WriteHead
  <2>4. media'[Target].crc = env /\ media'[Target].flags = env_flags
    BY <1>6, <1>t, <2>2 DEF WriteHead, TInv, ImageInv, GoodCopy, env_t
  <2> QED
    BY <1>6, <2>1, <2>2, <2>3, <2>4, Zenon
    DEF WriteHead, IdleInv, SavingInv, OffInv, crc_ok
<1>7. CASE WriteBody
  <2>1. NoFaults /\ SavingInv
    BY <1>7, Zenon DEF WriteBody, SaveDone, IInv
  <2>2. /\ pc = "body" /\ pc' = "idle" /\ env_valid' = Target
        /\ env_flags' = env_flags /\ tried' = {} /\ committed' = env
        /\ media \in [Copies -> env_t] /\ media' \in [Copies -> env_t]
        /\ env_valid \in Copies /\ Target \in Copies /\ Target # env_valid
    BY <1>7, <1>t DEF WriteBody, SaveDone, TInv, MmcTypeOK, TypeOK, ImageInv,
                      GoodCopy, Target, Copies
  <2>3. media'[env_valid] = media[env_valid]
    BY <1>7, <2>2, Zenon DEF WriteBody
  <2>4. /\ media'[Target].data = env
        /\ media'[Target].crc = env
        /\ media'[Target].flags = env_flags
    BY <1>7, <1>t, <2>1, <2>2
    DEF WriteBody, SavingInv, TInv, ImageInv, GoodCopy, env_t
  <2>5. crc_ok(media', Target)
    BY <2>4, Zenon DEF crc_ok
  <2>6. crc_ok(media', env_valid) =>
          media'[Target].flags = (media'[env_valid].flags + 1) % SerialMod
    BY <2>1, <2>2, <2>3, <2>4, Zenon DEF SavingInv, crc_ok
  <2>7. SelectCopy(media', Copies) = Target
    BY <2>2, <2>5, <2>6, NewCopySelected, Zenon
  <2>8. Loads(media') = env
    BY <2>2, <2>4, <2>7 DEF Loads, Copies
  <2>9. IdleInv'
    BY <2>2, <2>4, <2>7, <2>8, Zenon DEF IdleInv
  <2> QED
    BY <2>2, <2>9, Zenon DEF SavingInv, OffInv
<1>8. CASE WriteFault
  BY <1>8, <1>t DEF WriteFault, TInv, MmcTypeOK, TypeOK
<1>9. CASE UNCHANGED vars
  BY <1>9, Zenon DEF vars, IInv, IdleInv, SavingInv, OffInv, Loads, Target
<1> QED
  BY <1>1, <1>2, <1>3, <1>4, <1>5, <1>6, <1>7, <1>8, <1>9, Zenon DEF Next

-----------------------------------------------------------------------------
(* The variables of env_mmc.c keep their types, and RAM is empty exactly    *)
(* when the power is off.                                                   *)
THEOREM TypeCorrect == Spec => []MmcTypeOK
<1>1. Init => TInv
  BY InitInv, Zenon DEF IInv
<1>2. TInv => MmcTypeOK
  BY Zenon DEF TInv
<1> QED
  BY <1>1, <1>2, TypeStep, PTL DEF Spec

(* The invariant from which the following theorems are taken.               *)
THEOREM Inductive == Spec => []IInv
  BY InitInv, InvStep, PTL DEF Spec

(* However often and wherever a saveenv() of env_mmc.c is cut off, a boot   *)
(* that reads both copies finds the last saved environment or the one that  *)
(* was being saved.                                                         *)
THEOREM CrashSafety == Spec => []CrashSafe
<1>1. IInv => CrashSafe
  <2> SUFFICES ASSUME IInv, NoFaults PROVE Loads(media) \in {committed} \cup tried
    BY Zenon DEF CrashSafe, NoFaults
  <2>1. TInv /\ IdleInv /\ SavingInv /\ OffInv
    BY Zenon DEF IInv
  <2> QED
    BY <2>1, LoadsWhileSaving, Zenon
    DEF TInv, MmcTypeOK, PcOK, Saving, IdleInv, OffInv
<1> QED
  BY <1>1, Inductive, PTL

(* A save that succeeded is what the next boot loads, for every serial the  *)
(* copies can have, as long as no access to the medium has failed.          *)
THEOREM SaveIsDurable ==
  ASSUME MaxReadFaults = 0, MaxWriteFaults = 0
  PROVE  Spec => []SavedIsLoaded
<1>1. IInv => SavedIsLoaded
  BY DEF IInv, TInv, MmcTypeOK, PcOK, TypeOK, NoFaults, IdleInv, SavedIsLoaded
<1> QED
  BY <1>1, Inductive, PTL

(* Step by step, env_mmc.c implements the durable environment of EnvStore:  *)
(* the write of the first block is invisible, the end of the last write is  *)
(* the commit.                                                              *)
THEOREM Refinement ==
  ASSUME MaxReadFaults = 0, MaxWriteFaults = 0
  PROVE  Spec => ImplementsStore
<1>1. Init => Store!StoreInit
  BY InitInv, Zenon
  DEF Init, IInv, TInv, MmcTypeOK, TypeOK, Store!StoreInit
<1>2. IInv /\ [Next]_vars => [Store!StoreNext]_Store!storeVars
  <2> SUFFICES ASSUME IInv, [Next]_vars
               PROVE  [Store!StoreNext]_Store!storeVars
    OBVIOUS
  <2>t. TInv /\ NoFaults /\ IdleInv /\ SavingInv /\ OffInv
    BY DEF IInv, TInv, MmcTypeOK, TypeOK, NoFaults
  <2> USE DEF TInv, MmcTypeOK, PcOK, TypeOK, Store!storeVars
  <2>1. CASE Boot
    <3>1. env' = Loads(media) /\ committed' = env' /\ tried' = {} /\ pc = "off"
      BY <2>1, Zenon DEF Boot, env_relocate_spec, Loads
    <3>2. Store!Boot
      BY <3>1, <2>t, Zenon DEF OffInv, Store!Boot
    <3> QED
      BY <3>2, Zenon DEF Store!StoreNext
  <2>2. CASE BootWithReadFault
    BY <2>2, <2>t DEF BootWithReadFault
  <2>3. CASE SetEnv
    <3>1. Store!Edit
      BY <2>3, <2>t, Zenon DEF SetEnv, Store!Edit
    <3> QED
      BY <3>1, Zenon DEF Store!StoreNext
  <2>4. CASE PowerCut
    <3>1. Store!Cut
      BY <2>4, <2>t, Zenon DEF PowerCut, Store!Cut
    <3> QED
      BY <3>1, Zenon DEF Store!StoreNext
  <2>5. CASE Export
    <3>1. Store!Attempt
      BY <2>5, <2>t, Zenon DEF Export, ExportEnv, Store!Attempt
    <3> QED
      BY <3>1, Zenon DEF Store!StoreNext
  <2>6. CASE WriteHead
    BY <2>6, Zenon DEF WriteHead
  <2>7. CASE WriteBody
    <3>1. Store!Commit
      BY <2>7, <2>t
      DEF WriteBody, SaveDone, SavingInv, Saving, ImageInv, GoodCopy, Store!Commit
    <3> QED
      BY <3>1, Zenon DEF Store!StoreNext
  <2>8. CASE WriteFault
    BY <2>8, <2>t, Zenon DEF WriteFault
  <2>9. CASE UNCHANGED vars
    BY <2>9, Zenon DEF vars
  <2> QED
    BY <2>1, <2>2, <2>3, <2>4, <2>5, <2>6, <2>7, <2>8, <2>9, Zenon DEF Next
<1> QED
  BY <1>1, <1>2, Inductive, PTL
  DEF Spec, ImplementsStore, Store!StoreSpec

(* Whatever fails, and however often, a saveenv() of env_mmc.c never costs  *)
(* the good copy that is in use: the write goes to the other one.           *)
THEOREM BackupIsKept == Spec => BackupKept
<1>1. TInv /\ [Next]_vars => [crc_ok(media, env_valid) => HasGood(media')]_vars
  <2> SUFFICES ASSUME TInv, Next, crc_ok(media, env_valid)
               PROVE  HasGood(media')
    BY Zenon DEF vars
  <2>1. env_valid \in Copies /\ Target # env_valid
    BY DEF TInv, MmcTypeOK, TypeOK, Target, Copies
  <2>2. media'[env_valid] = media[env_valid]
    <3> USE <2>1 DEF TInv, MmcTypeOK, TypeOK
    <3>1. CASE WriteHead
      BY <3>1, Zenon DEF WriteHead
    <3>2. CASE WriteBody
      BY <3>2, Zenon DEF WriteBody
    <3>3. CASE ~WriteHead /\ ~WriteBody
      BY <3>3, Zenon DEF Next, Boot, BootWithReadFault, env_relocate_spec, SetEnv,
                  PowerCut, Export, ExportEnv, WriteFault
    <3> QED
      BY <3>1, <3>2, <3>3, Zenon
  <2> QED
    BY <2>1, <2>2, Zenon DEF HasGood, crc_ok
<1>2. Init => TInv
  BY InitInv, Zenon DEF IInv
<1> QED
  BY <1>1, <1>2, TypeStep, PTL DEF Spec, BackupKept

-----------------------------------------------------------------------------
(* All three writers. *)

(* Some writer is between its export and its last write; on NAND, at the    *)
(* first of its two attempts.                                               *)
Writing == pc \in {"head", "body", "erase1", "write1", "fwErase", "fwWrite"}
SecondTry == pc \in {"erase2", "write2"}

(* A second attempt follows a failed write.                                 *)
STInv ==
  /\ TypeOK
  /\ medium \in {"mmc", "nand"}
  /\ pc \in {"off", "idle", "fw", "fwDone"} \/ Writing \/ SecondTry
  /\ pc = "off" <=> env = Off
  /\ pc \in {"head", "body"} => medium = "mmc"
  /\ pc \in {"erase1", "write1", "erase2", "write2"} => medium = "nand"
  /\ Writing \/ SecondTry => env_new = GoodCopy(env, env_flags)
  /\ SecondTry => writeFaults > 0

(* U-Boot and fw_setenv leave RAM and medium in agreement after they have   *)
(* read the copies.                                                         *)
AgreeInv ==
  pc \in {"idle", "fw"} =>
    /\ tried = {}
    /\ Loads(media) = committed
    /\ SelectCopy(media, Copies) \in {0, env_valid}
    /\ SelectCopy(media, Copies) # 0 => env_flags = media[env_valid].flags

(* While the other copy o is written, a boot does not take it unless it     *)
(* already holds the new data.                                              *)
TargetSafe(m, v, e) ==
  \/ SelectCopy(m, Copies) \in {0, v}
  \/ crc_ok(m, Other(v)) /\ m[Other(v)].data = e

WritingInv ==
  Writing =>
    /\ tried = {env}
    /\ \/ /\ crc_ok(media, env_valid)
          /\ media[env_valid].data = committed
          /\ env_flags = (media[env_valid].flags + 1) % SerialMod
       \/ /\ ~crc_ok(media, env_valid)
          /\ committed = DefaultEnv
    /\ TargetSafe(media, env_valid, env)
    /\ pc = "body" => /\ media[Other(env_valid)].crc = env
                      /\ media[Other(env_valid)].flags = env_flags

RestInv ==
  /\ pc = "off" => Loads(media) \in {committed} \cup tried
  /\ pc = "fwDone" => Loads(media) = committed /\ tried = {}

(* The strengthening of CrashSafe that every step of every writer keeps.    *)
SInv == STInv /\ (NoFaults => AgreeInv /\ WritingInv /\ RestInv)

-----------------------------------------------------------------------------
USE EnvAssumption, SerialAssumption, FaultAssumption

(* The three writers agree on the copy to overwrite.                        *)
LEMMA SameTarget ==
  ASSUME env_valid \in Copies
  PROVE  /\ Target = Other(env_valid)
         /\ Location(1) = Other(env_valid)
         /\ dev_target = Other(env_valid)
         /\ Other(env_valid) \in Copies
         /\ Other(env_valid) # env_valid
         /\ (IF env_valid = 2 THEN 1 ELSE 2) = Other(env_valid)
  BY DEF Target, Location, dev_target, Other, Copies

(* Overwriting the other copy with anything but a good copy of other data   *)
(* leaves it safe.                                                          *)
LEMMA WriteTarget ==
  ASSUME NEW m \in [Copies -> env_t], NEW v \in Copies, NEW e,
         crc_ok(m, Other(v)) => m[Other(v)].data = e
  PROVE  TargetSafe(m, v, e)
  BY SelectCases DEF TargetSafe, Other, Copies

(* A finished write of the next serial is what a boot takes.                *)
LEMMA FinishedIsTaken ==
  ASSUME NEW m \in [Copies -> env_t], NEW v \in Copies, NEW e \in Envs,
         NEW f \in Serials, m[Other(v)] = GoodCopy(e, f),
         crc_ok(m, v) => f = (m[v].flags + 1) % SerialMod
  PROVE  SelectCopy(m, Copies) = Other(v) /\ Loads(m) = e
<1>1. Other(v) \in Copies /\ Other(v) # v
  BY DEF Other, Copies
<1>2. crc_ok(m, Other(v)) /\ m[Other(v)].flags = f /\ m[Other(v)].data = e
  BY DEF crc_ok, GoodCopy
<1>3. SelectCopy(m, Copies) = Other(v)
  BY <1>1, <1>2, NewCopySelected, Zenon
<1> QED
  BY <1>1, <1>2, <1>3 DEF Loads, Copies

(* What a boot loads in the middle of a save.                               *)
LEMMA LoadsWhileWriting ==
  ASSUME STInv, WritingInv, Writing
  PROVE  Loads(media) \in {committed} \cup tried
<1>1. media \in [Copies -> env_t] /\ env_valid \in Copies
  BY Zenon DEF STInv, TypeOK
<1>2. SelectCopy(media, Copies) \in {0, env_valid, Other(env_valid)}
  BY <1>1, SelectCases DEF Other, Copies
<1>3. CASE SelectCopy(media, Copies) \in {0, env_valid}
  BY <1>1, <1>3, SelectCases, Zenon DEF WritingInv, Loads, Copies
<1>4. CASE /\ SelectCopy(media, Copies) = Other(env_valid)
           /\ SelectCopy(media, Copies) \notin {0, env_valid}
  BY <1>1, <1>4, Zenon DEF WritingInv, TargetSafe, Loads
<1> QED
  BY <1>2, <1>3, <1>4, Zenon

(* The invariant holds of a board that is off.                              *)
LEMMA SerialInitInv == SerialInit => SInv
<1> SUFFICES ASSUME SerialInit PROVE SInv
  OBVIOUS
<1>1. IInv
  BY InitInv, Zenon DEF SerialInit
<1>2. pc = "off" /\ tried = {} /\ medium \in {"mmc", "nand"}
  BY Zenon DEF SerialInit, Init
<1>3. STInv
  BY <1>1, <1>2, Zenon DEF IInv, TInv, MmcTypeOK, PcOK, STInv, Writing, SecondTry
<1>4. AgreeInv /\ WritingInv /\ RestInv
  BY <1>1, <1>2, Zenon DEF IInv, AgreeInv, WritingInv, RestInv, Writing, NoFaults,
                    SerialInit, Init
<1> QED
  BY <1>3, <1>4, Zenon DEF SInv

(* Reading the copies gives RAM an environment and a serial.                *)
LEMMA SelectedTypes ==
  ASSUME TypeOK, NEW readable \in SUBSET Copies
  PROVE  /\ SelectCopy(media, readable) \in {0, 1, 2}
         /\ SelectCopy(media, readable) # 0 =>
              /\ media[SelectCopy(media, readable)].data \in Envs
              /\ media[SelectCopy(media, readable)].flags \in Serials
<1>1. SelectCopy(media, readable) \in {0, 1, 2}
  BY Zenon DEF SelectCopy, CheckSerial
<1>2. SelectCopy(media, readable) # 0 =>
        crc_ok(media, SelectCopy(media, readable))
  BY Zenon DEF SelectCopy, CheckSerial
<1> QED
  BY <1>1, <1>2 DEF TypeOK, crc_ok, env_t, Copies

(* Every step of every writer keeps the types.                              *)
LEMMA SerialTypeStep == STInv /\ [SerialNext]_serialVars => STInv'
<1> SUFFICES ASSUME STInv, [SerialNext]_serialVars PROVE STInv'
  OBVIOUS
<1>v. env_valid \in Copies
  BY Zenon DEF STInv, TypeOK
<1> USE DEF STInv, TypeOK, Writing, SecondTry
<1>0. ASSUME NEW readable \in SUBSET Copies, env_relocate_spec(readable)
      PROVE  /\ env' \in Envs /\ env_valid' \in Copies
             /\ env_flags' \in Serials /\ env_new' \in env_t
             /\ media' \in [Copies -> env_t]
             /\ pc' = "idle" /\ env' # Off
  BY <1>0, SelectedTypes DEF env_relocate_spec, Copies, Serials
<1>1. CASE Boot /\ UNCHANGED medium
  <2>1. env_relocate_spec(Copies) /\ Copies \in SUBSET Copies
    BY <1>1, Zenon DEF Boot
  <2>2. env' \in Envs /\ env_valid' \in Copies /\ env_flags' \in Serials
        /\ env_new' \in env_t /\ media' \in [Copies -> env_t]
        /\ pc' = "idle" /\ env' # Off
    BY <2>1, <1>0, Zenon
  <2>3. writeFaults' = writeFaults
    BY <2>1, Zenon DEF env_relocate_spec
  <2> QED
    BY <1>1, <2>2, <2>3, Zenon DEF Boot
<1>2. CASE BootWithReadFault /\ UNCHANGED medium
  BY <1>0, <1>2 DEF BootWithReadFault, env_relocate_spec
<1>3. CASE (SetEnv \/ fw_env_write) /\ UNCHANGED medium
  BY <1>3, Zenon DEF SetEnv, fw_env_write
<1>4. CASE PowerCut /\ UNCHANGED medium
  BY <1>4, Zenon DEF PowerCut
<1>5. CASE /\ \/ medium = "mmc" /\ Export
              \/ medium = "nand" /\ NandExport
           /\ UNCHANGED medium
  <2>1. env_flags' \in Serials
    BY <1>5, NextSerialWins, Zenon DEF Export, NandExport, ExportEnv
  <2> QED
    BY <1>5, <2>1, CopyTypes DEF Export, NandExport, ExportEnv, AtErase
<1>6. CASE WriteHead /\ UNCHANGED medium
  BY <1>6 DEF WriteHead, Overwritten, Target, Copies, env_t
<1>7. CASE WriteBody /\ UNCHANGED medium
  <2>1. env_new.data \in Envs
    BY <1>7 DEF WriteBody, GoodCopy
  <2> QED
    BY <1>7, <2>1 DEF WriteBody, SaveDone, Target, Copies, env_t
<1>8. CASE WriteFault /\ UNCHANGED medium
  BY <1>8 DEF WriteFault
<1>b. BadCopy(SerialMod - 1) \in env_t
  BY CopyTypes DEF Serials
<1>9. ASSUME NEW n \in Attempts, medium = "nand", UNCHANGED medium,
             Erase(n) \/ Write(n) \/ Fault(n)
      PROVE  STInv'
  <2>1. Location(n) \in Copies
    BY Zenon DEF Location, Copies
  <2>2. CASE Erase(n)
    BY <1>9, <1>b, <2>1, <2>2 DEF Erase, AtErase, AtWrite, Attempts
  <2>3. CASE Write(n)
    <3>1. env_new.data \in Envs
      BY <1>9, <2>3 DEF Write, AtWrite, Attempts, GoodCopy
    <3>2. env_valid' \in Copies
      BY <2>3, <1>v, Zenon DEF Write, SaveDone, Copies
    <3> QED
      BY <1>9, <2>1, <2>3, <3>1, <3>2
      DEF Write, SaveDone, AtWrite, Attempts
  <2>4. CASE Fault(n)
    BY <1>9, <2>4 DEF Fault, AtErase, AtWrite, Attempts
  <2> QED
    BY <1>9, <2>2, <2>3, <2>4, Zenon
<1>10. CASE fw_env_open /\ UNCHANGED medium
  <2>1. Copies \in SUBSET Copies
    OBVIOUS
  <2>2. env' \in Envs /\ env_valid' \in Copies
    BY <1>10, <2>1, SelectedTypes, Zenon DEF fw_env_open, Copies
  <2>3. env_flags' \in Serials
    BY <1>10, <2>2, Zenon DEF fw_env_open, env_t
  <2> QED
    BY <1>10, <2>2, <2>3, Zenon DEF fw_env_open
<1>11. CASE fw_env_close /\ UNCHANGED medium
  <2>1. env_flags' \in Serials
    BY <1>11, NextSerialWins, Zenon DEF fw_env_close
  <2> QED
    BY <1>11, <2>1, CopyTypes, Zenon DEF fw_env_close
<1>12. CASE FwErase /\ UNCHANGED medium
  BY <1>12, <1>b, SameTarget, Zenon DEF FwErase, MediaStep
<1>13. CASE FwWriteSome /\ UNCHANGED medium
  <2>1. PICK c \in env_t : MediaStep("fwWrite", "fwWrite", c)
    <3>1. dev_target \in Copies /\ media[dev_target] \in env_t
      BY <1>v, SameTarget, Zenon
    <3>2. CASE medium = "nand"
      BY <1>13, <3>2, Zenon DEF FwWriteSome, env_t
    <3>3. CASE medium # "nand"
      <4>1. PICK h \in {media[dev_target], env_new},
                 d \in {media[dev_target].data, env_new.data, Blank} :
              MediaStep("fwWrite", "fwWrite", [h EXCEPT !.data = d])
        BY <1>13, <3>3, Zenon DEF FwWriteSome
      <4>2. [h EXCEPT !.data = d] \in env_t
        BY <3>1, Zenon DEF env_t
      <4> QED
        BY <4>1, <4>2, Zenon
    <3> QED
      BY <3>2, <3>3, Zenon
  <2> QED
    BY <1>13, <2>1, <1>v, SameTarget, Zenon DEF MediaStep
<1>14. CASE FwWriteAll /\ UNCHANGED medium
  <2>1. env_new.data \in Envs
    BY <1>14 DEF FwWriteAll, GoodCopy
  <2> QED
    BY <1>14, <2>1, <1>v, SameTarget, Zenon DEF FwWriteAll
<1>15. CASE FwFault /\ UNCHANGED medium
  BY <1>15 DEF FwFault
<1>16. CASE UNCHANGED serialVars
  BY <1>16, Zenon DEF serialVars, vars
<1> HIDE DEF STInv, TypeOK, Writing, SecondTry
<1>17. CASE medium = "mmc" /\ Next /\ UNCHANGED medium
  BY <1>17, <1>1, <1>2, <1>3, <1>4, <1>5, <1>6, <1>7, <1>8, Zenon  DEF Next
<1>18. CASE medium = "nand" /\ NandNext /\ UNCHANGED medium
  BY <1>18, <1>1, <1>2, <1>3, <1>4, <1>5, <1>9, Zenon  DEF NandNext
<1>19. CASE FwNext /\ UNCHANGED medium
  BY <1>19, <1>3, <1>10, <1>11, <1>12, <1>13, <1>14, <1>15, Zenon  DEF FwNext
<1> QED
  BY <1>16, <1>17, <1>18, <1>19, Zenon  DEF SerialNext

(* A write of part of the other copy keeps the invariant if it leaves it    *)
(* safe; the last write makes it the copy in use.                           *)
LEMMA PartWrite ==
  ASSUME STInv, STInv', WritingInv, Writing, Writing',
         UNCHANGED <<env, env_valid, env_flags, committed, tried>>,
         media'[env_valid] = media[env_valid],
         \/ media' = media
         \/ crc_ok(media', Other(env_valid)) =>
              media'[Other(env_valid)].data = env,
         pc' = "body" => /\ media'[Other(env_valid)].crc = env
                         /\ media'[Other(env_valid)].flags = env_flags
  PROVE  AgreeInv' /\ WritingInv' /\ RestInv'
<1>1. media' \in [Copies -> env_t] /\ env_valid \in Copies
  BY Zenon DEF STInv, TypeOK
<1>2. TargetSafe(media', env_valid, env)
  BY <1>1, WriteTarget, Zenon DEF WritingInv
<1>3. crc_ok(media', env_valid) <=> crc_ok(media, env_valid)
  BY Zenon DEF crc_ok
<1>4. TargetSafe(media, env_valid, env)'
  BY <1>2, Zenon DEF TargetSafe, SelectCopy, Other, crc_ok
<1>5. crc_ok(media, env_valid)' <=> crc_ok(media, env_valid)
  BY <1>3, Zenon DEF crc_ok
<1>6. WritingInv'
  BY <1>4, <1>5, Zenon DEF WritingInv
<1> QED
  BY <1>6, Zenon DEF AgreeInv, RestInv, Writing

(* With the last write of a save the other copy is complete and newer, so a *)
(* boot loads it.                                                           *)
LEMMA LastWrite ==
  ASSUME STInv, STInv', WritingInv, Writing,
         media'[env_valid] = media[env_valid],
         media'[Other(env_valid)] = GoodCopy(env, env_flags)
  PROVE  /\ SelectCopy(media', Copies) = Other(env_valid)
         /\ Loads(media') = env
         /\ media'[Other(env_valid)].flags = env_flags
<1>1. /\ media' \in [Copies -> env_t] /\ env_valid \in Copies
      /\ env \in Envs /\ env_flags \in Serials
  BY Zenon  DEF STInv, TypeOK, Writing
<1>2. crc_ok(media', env_valid) =>
        env_flags = (media'[env_valid].flags + 1) % SerialMod
  BY Zenon DEF WritingInv, crc_ok
<1> QED
  BY <1>1, <1>2, FinishedIsTaken DEF GoodCopy

(* Every step of every writer keeps the whole invariant.                    *)
LEMMA SerialInvStep == SInv /\ [SerialNext]_serialVars => SInv'
<1> SUFFICES ASSUME SInv, [SerialNext]_serialVars, NoFaults'
             PROVE  AgreeInv' /\ WritingInv' /\ RestInv'
  BY SerialTypeStep, Zenon DEF SInv
<1>t. STInv /\ STInv'
  BY SerialTypeStep, Zenon DEF SInv
<1>u. /\ media \in [Copies -> env_t] /\ media' \in [Copies -> env_t]
      /\ env_valid \in Copies
      /\ readFaults \in Nat /\ writeFaults \in Nat
  BY <1>t DEF STInv, TypeOK
<1>o. /\ Other(env_valid) \in Copies /\ Other(env_valid) # env_valid
      /\ Target = Other(env_valid) /\ dev_target = Other(env_valid)
      /\ Location(1) = Other(env_valid)
      /\ (IF env_valid = 2 THEN 1 ELSE 2) = Other(env_valid)
  BY <1>u, SameTarget, Zenon
<1>s. SelectCopy(media, Copies) \in {0, 1, 2}
  BY <1>u, SelectCases, Zenon
<1>i. NoFaults => AgreeInv /\ WritingInv /\ RestInv
  BY Zenon  DEF SInv
<1>1. CASE Boot \/ fw_env_open
  <2>1. media' = media /\ env' = Loads(media) /\ committed' = env' /\ tried' = {}
    BY <1>1, Zenon DEF Boot, env_relocate_spec, fw_env_open, Loads
  <2>2. SelectCopy(media, Copies) # 0 =>
          /\ env_valid' = SelectCopy(media, Copies)
          /\ env_flags' = media[env_valid'].flags
    BY <1>1, Zenon DEF Boot, env_relocate_spec, fw_env_open
  <2>3. pc' \in {"idle", "fw"}
    BY <1>1, Zenon DEF Boot, env_relocate_spec, fw_env_open
  <2>4. AgreeInv'
    BY <2>1, <2>2, <1>s, Zenon DEF AgreeInv, Loads
  <2> QED
    BY <2>3, <2>4, Zenon DEF WritingInv, Writing, RestInv
<1>2. CASE BootWithReadFault
  BY SMTT(30), <1>2, <1>u DEF BootWithReadFault, NoFaults
<1>3. CASE SetEnv \/ fw_env_write
  <2>1. /\ pc \in {"idle", "fw"} /\ pc' = pc
        /\ UNCHANGED <<media, env_valid, env_flags, committed, tried>>
        /\ AgreeInv
    BY <1>3, <1>i, Zenon DEF SetEnv, fw_env_write, NoFaults
  <2> QED
    BY <2>1, Zenon DEF AgreeInv, WritingInv, Writing, RestInv, Loads
<1>4. CASE PowerCut
  <2>1. AgreeInv /\ WritingInv /\ RestInv /\ writeFaults = 0
    BY <1>4, <1>i, Zenon DEF PowerCut, NoFaults
  <2>2. Loads(media) \in {committed} \cup tried
    BY <1>t, <2>1, LoadsWhileWriting DEF STInv, SecondTry, AgreeInv, RestInv
  <2> QED
    BY <1>4, <2>2, Zenon DEF PowerCut, AgreeInv, WritingInv, Writing, RestInv, Loads
<1>5. CASE Export \/ NandExport \/ fw_env_close
  <2>1. AgreeInv
    BY <1>5, <1>i, Zenon DEF Export, NandExport, ExportEnv, fw_env_close, NoFaults
  <2>2. /\ pc \in {"idle", "fw"}
        /\ pc' \in {"head", "erase1", "fwErase", "fwWrite"}
        /\ media' = media /\ env' = env
        /\ env_valid' = env_valid /\ committed' = committed
        /\ env_flags' = (env_flags + 1) % SerialMod
    BY <1>5, Zenon DEF Export, NandExport, ExportEnv, AtErase, fw_env_close
  <2>3. tried' = {env}
    BY <1>5, <2>1, <2>2, Zenon
    DEF Export, NandExport, ExportEnv, fw_env_close, AgreeInv
  <2>4. TargetSafe(media, env_valid, env)'
    BY <2>1, <2>2, Zenon DEF AgreeInv, TargetSafe
  <2>5. CASE SelectCopy(media, Copies) = 0
    <3>1. ~crc_ok(media, env_valid) /\ committed = DefaultEnv
      BY <1>u, <2>1, <2>2, <2>5, SelectCases, Zenon DEF AgreeInv, Loads, Copies
    <3> QED
      BY <2>2, <2>3, <2>4, <3>1, Zenon
      DEF AgreeInv, WritingInv, Writing, RestInv, crc_ok
  <2>6. CASE SelectCopy(media, Copies) # 0
    <3>1. /\ crc_ok(media, env_valid) /\ media[env_valid].data = committed
          /\ env_flags = media[env_valid].flags
      BY <1>u, <2>1, <2>2, <2>6, SelectCases, Zenon DEF AgreeInv, Loads
    <3> QED
      BY <2>2, <2>3, <2>4, <3>1, Zenon
      DEF AgreeInv, WritingInv, Writing, RestInv, crc_ok
  <2> QED
    BY <2>5, <2>6, Zenon
<1>w. Writing /\ NoFaults => WritingInv /\ env_new = GoodCopy(env, env_flags)
  BY <1>t, <1>i, Zenon DEF STInv
<1>6. CASE WriteHead
  <2>1. /\ Writing /\ Writing' /\ NoFaults
        /\ UNCHANGED <<env, env_valid, env_flags, committed, tried>>
    BY <1>6, Zenon DEF WriteHead, Writing, NoFaults
  <2>2. WritingInv /\ env_new = GoodCopy(env, env_flags)
    BY <2>1, <1>w, Zenon
  <2>3. media'[env_valid] = media[env_valid]
    BY <1>6, <1>o, <1>u, Zenon DEF WriteHead
  <2>4. /\ media'[Other(env_valid)].crc = env
        /\ media'[Other(env_valid)].flags = env_flags
    BY SMTT(30), <1>6, <1>o, <1>u, <2>2 DEF WriteHead, GoodCopy
  <2> QED
    BY <1>t, <2>1, <2>2, <2>3, <2>4, PartWrite, Zenon DEF crc_ok
<1>7. CASE WriteBody \/ Write(1) \/ FwWriteAll
  <2>1. Writing /\ NoFaults /\ pc' \in {"idle", "fwDone"} /\ tried' = {}
        /\ env_flags' = env_flags
    BY <1>7, Zenon DEF WriteBody, Write, AtWrite, SaveDone, FwWriteAll, Writing, NoFaults
  <2>2. WritingInv /\ env_new = GoodCopy(env, env_flags)
    BY <2>1, <1>w, Zenon
  <2>3. committed' = env
    BY <1>7, <2>2, Zenon DEF WriteBody, Write, SaveDone, FwWriteAll, GoodCopy
  <2>4. pc' = "idle" => env_valid' = Other(env_valid)
    BY <1>7, <1>o DEF WriteBody, Write, SaveDone, FwWriteAll
  <2>5. media'[env_valid] = media[env_valid]
    BY <1>7, <1>o, <1>u, Zenon DEF WriteBody, Write, FwWriteAll
  <2>6. media'[Other(env_valid)] = GoodCopy(env, env_flags)
    <3>1. CASE WriteBody
      <4>1. /\ media[Other(env_valid)].crc = env
            /\ media[Other(env_valid)].flags = env_flags
        BY <2>1, <2>2, <3>1, Zenon DEF WriteBody, WritingInv
      <4>2. media' = [media EXCEPT ![Other(env_valid)].data = env]
        BY <3>1, <1>o, <2>2, Zenon DEF WriteBody, GoodCopy
      <4> QED
        BY <4>1, <4>2, <1>o, <1>u DEF GoodCopy, env_t
    <3>2. CASE Write(1) \/ FwWriteAll
      BY <3>2, <1>o, <1>u, <2>2, Zenon DEF Write, FwWriteAll
    <3> QED
      BY <1>7, <3>1, <3>2, Zenon
  <2>7. /\ SelectCopy(media', Copies) = Other(env_valid)
        /\ Loads(media') = env
        /\ media'[Other(env_valid)].flags = env_flags
    BY <1>t, <2>1, <2>2, <2>5, <2>6, LastWrite, Zenon
  <2>8. AgreeInv'
    BY <2>1, <2>3, <2>4, <2>7, Zenon DEF AgreeInv
  <2> QED
    BY <2>1, <2>3, <2>7, <2>8, Zenon DEF WritingInv, Writing, RestInv
<1>8. CASE WriteFault \/ FwFault \/ \E n \in Attempts : Fault(n)
  BY <1>8, <1>u DEF WriteFault, FwFault, Fault, NoFaults
<1>9. CASE Erase(2) \/ Write(2)
  BY <1>9, <1>t, <1>u
  DEF Erase, Write, SaveDone, AtErase, AtWrite, STInv, SecondTry, NoFaults
<1>10. CASE Erase(1) \/ FwErase \/ FwWriteSome
  <2>1. /\ Writing /\ Writing' /\ NoFaults /\ pc' # "body"
        /\ UNCHANGED <<env, env_valid, env_flags, committed, tried>>
    BY <1>10, Zenon DEF Erase, AtErase, AtWrite, FwErase, FwWriteSome, MediaStep,
                 Writing, NoFaults
  <2>2. WritingInv /\ env_new = GoodCopy(env, env_flags)
    BY <2>1, <1>w, Zenon
  <2>3. media'[env_valid] = media[env_valid]
    BY <1>10, <1>o, <1>u, Zenon DEF Erase, FwErase, FwWriteSome, MediaStep
  <2>4. env \in Envs
    BY <1>t, <2>1, Zenon DEF STInv, TypeOK, Writing
  <2>5. CASE Erase(1) \/ FwErase
    <3>1. media'[Other(env_valid)] = BadCopy(SerialMod - 1)
      BY <2>5, <1>o, <1>u, Zenon DEF Erase, FwErase, MediaStep
    <3>2. ~crc_ok(media', Other(env_valid))
      BY <3>1 DEF crc_ok, BadCopy
    <3> QED
      BY <1>t, <2>1, <2>2, <2>3, <3>2, PartWrite, Zenon
  <2>6. CASE FwWriteSome /\ medium = "nand"
    <3>1. media'[Other(env_valid)] = [env_new EXCEPT !.data = Blank]
      BY <2>6, <1>o, <1>u, Zenon DEF FwWriteSome, MediaStep
    <3>2. ~crc_ok(media', Other(env_valid))
      BY <3>1, <2>2, <2>4, Zenon DEF crc_ok, GoodCopy
    <3> QED
      BY <1>t, <2>1, <2>2, <2>3, <3>2, PartWrite, Zenon
  <2>7. CASE FwWriteSome /\ medium # "nand"
    <3> DEFINE old == media[Other(env_valid)]
    <3>1. PICK h \in {old, env_new}, d \in {old.data, env_new.data, Blank} :
            media' = [media EXCEPT ![Other(env_valid)] = [h EXCEPT !.data = d]]
      BY <2>7, <1>o, Zenon DEF FwWriteSome, MediaStep
    <3>2. old \in env_t /\ env_new \in env_t
      BY <1>t, <1>o, <1>u, Zenon DEF STInv, TypeOK
    <3>3. media'[Other(env_valid)] = [h EXCEPT !.data = d]
      BY <3>1, <1>o, <1>u, Zenon
    <3>4. /\ media'[Other(env_valid)].crc = h.crc
          /\ media'[Other(env_valid)].data = d
      BY <3>2, <3>3, Zenon DEF env_t
    <3>5. h.crc # Blank
      BY <3>2, Zenon DEF env_t
    <3>6. CASE h = old /\ d = old.data
      <4>1. [h EXCEPT !.data = d] = old
        BY <3>2, <3>6, Zenon DEF env_t
      <4>2. media' = media
        BY <3>1, <4>1, <1>o, <1>u, Zenon
      <4> QED
        BY <1>t, <2>1, <2>2, <4>2, PartWrite, Zenon
    <3>7. CASE ~(h = old /\ d = old.data)
      <4>1. env_new.crc = env /\ env_new.data = env
        BY <2>2, Zenon DEF GoodCopy
      <4>2. h.crc = d => d = env
        BY <3>1, <3>5, <3>7, <4>1, Zenon DEF old
      <4>3. crc_ok(media', Other(env_valid)) =>
              media'[Other(env_valid)].data = env
        BY <3>4, <4>2, Zenon DEF crc_ok
      <4> QED
        BY <1>t, <2>1, <2>2, <2>3, <4>3, PartWrite, Zenon
    <3> QED
      BY <3>6, <3>7, Zenon
  <2> QED
    BY <1>10, <2>5, <2>6, <2>7, Zenon
<1>11. CASE UNCHANGED serialVars
  BY <1>11, <1>i, Zenon DEF serialVars, vars, AgreeInv, WritingInv, RestInv, Writing,
                     TargetSafe, Loads, NoFaults
<1>12. CASE Next
  BY <1>12, <1>1, <1>2, <1>3, <1>4, <1>5, <1>6, <1>7, <1>8, Zenon  DEF Next
<1>13. CASE NandNext
  <2>1. CASE \E n \in Attempts : Erase(n) \/ Write(n)
    BY <2>1, <1>7, <1>9, <1>10, Zenon DEF Attempts
  <2> QED
    BY <1>13, <2>1, <1>1, <1>2, <1>3, <1>4, <1>5, <1>8, Zenon  DEF NandNext
<1>14. CASE FwNext
  BY <1>14, <1>1, <1>3, <1>5, <1>7, <1>8, <1>10, Zenon  DEF FwNext
<1> QED
  BY <1>11, <1>12, <1>13, <1>14, Zenon  DEF SerialNext

-----------------------------------------------------------------------------
(* The types the theorems and the runs name.                                *)
LEMMA SerialTypesHold == STInv => SerialTypeOK
<1> SUFFICES ASSUME STInv PROVE SerialTypeOK
  OBVIOUS
<1>1. TypeOK /\ (pc = "off" <=> env = Off) /\ medium \in {"mmc", "nand"}
  BY Zenon DEF STInv
<1>2. CASE pc \in FwPcs
  BY <1>1, <1>2, Zenon DEF SerialTypeOK, FwPcs
<1>3. CASE pc \notin FwPcs /\ medium = "mmc"
  BY <1>1, <1>3, Zenon DEF STInv, Writing, SecondTry, SerialTypeOK, FwPcs,
                    MmcTypeOK, PcOK
<1>4. CASE pc \notin FwPcs /\ medium = "nand"
  <2>1. pc \in {"off", "idle", "erase1", "erase2", "write1", "write2"}
    BY <1>4, Zenon DEF STInv, Writing, SecondTry, FwPcs
  <2>2. /\ 1 \in Attempts /\ 2 \in Attempts
        /\ AtErase[1] = "erase1" /\ AtErase[2] = "erase2"
        /\ AtWrite[1] = "write1" /\ AtWrite[2] = "write2"
    BY Zenon DEF Attempts, AtErase, AtWrite
  <2>3. pc \in {"off", "idle"} \cup {AtErase[n] : n \in Attempts}
                               \cup {AtWrite[n] : n \in Attempts}
    BY <2>1, <2>2, Zenon
  <2> QED
    BY <1>1, <1>4, <2>3, Zenon DEF SerialTypeOK, NandTypeOK
<1> QED
  BY <1>1, <1>2, <1>3, <1>4, Zenon

(* What the invariant says of a board that loses power.                     *)
LEMMA SerialCrashHolds == SInv => CrashSafe
<1> SUFFICES ASSUME SInv, NoFaults
             PROVE  Loads(media) \in {committed} \cup tried
  BY Zenon DEF CrashSafe, NoFaults
<1>1. STInv /\ AgreeInv /\ WritingInv /\ RestInv /\ writeFaults = 0
  BY Zenon DEF SInv, NoFaults
<1> QED
  BY <1>1, LoadsWhileWriting DEF STInv, SecondTry, AgreeInv, RestInv

(* The variables of the three writers keep their types, whatever fails: no  *)
(* serial on the medium or in RAM leaves the range of an unsigned char.     *)
THEOREM SerialTypes == SerialSpec => []SerialTypeOK
<1>1. SerialInit => STInv
  BY SerialInitInv, Zenon DEF SInv
<1> QED
  BY <1>1, SerialTypeStep, SerialTypesHold, PTL DEF SerialSpec

(* Wherever a saveenv() for MMC or NAND or an fw_setenv is cut off, and     *)
(* whichever of them comes next, a boot that reads both copies finds the    *)
(* last saved environment or the one that was being saved.                  *)
THEOREM SerialCrashSafety == SerialSpec => []CrashSafe
  BY SerialInitInv, SerialInvStep, SerialCrashHolds, PTL DEF SerialSpec

(* Without faults, what a save of any of them reported as done is what the  *)
(* next boot loads.                                                         *)
THEOREM SerialSaveIsDurable ==
  ASSUME MaxReadFaults = 0, MaxWriteFaults = 0
  PROVE  SerialSpec => []SavedIsLoaded
<1>1. SInv => SavedIsLoaded
  BY DEF SInv, STInv, TypeOK, NoFaults, AgreeInv, RestInv, SavedIsLoaded
<1> QED
  BY <1>1, SerialInitInv, SerialInvStep, PTL DEF SerialSpec

(* Step by step, the three writers together implement one durable           *)
(* environment: a write of part of a copy is invisible, the last write is   *)
(* the commit.                                                              *)
THEOREM SerialRefinement ==
  ASSUME MaxReadFaults = 0, MaxWriteFaults = 0
  PROVE  SerialSpec => ImplementsStore
<1>1. SerialInit => Store!StoreInit
  BY SerialInitInv, Zenon DEF SerialInit, Init, SInv, STInv, TypeOK, Store!StoreInit
<1>2. SInv /\ [SerialNext]_serialVars => [Store!StoreNext]_Store!storeVars
  <2> SUFFICES ASSUME SInv, [SerialNext]_serialVars
               PROVE  [Store!StoreNext]_Store!storeVars
    OBVIOUS
  <2>t. STInv /\ AgreeInv /\ WritingInv /\ RestInv
    BY DEF SInv, STInv, TypeOK, NoFaults
  <2>e. /\ pc = "off" <=> env = Off
        /\ env \in Envs \cup {Off} /\ committed \in Envs
        /\ readFaults = 0 /\ writeFaults = 0 /\ ~SecondTry
    BY <2>t DEF STInv, TypeOK
  <2>1. CASE Boot \/ fw_env_open
    <3>1. env' = Loads(media) /\ committed' = env' /\ tried' = {} /\ pc = "off"
      BY <2>1, Zenon DEF Boot, env_relocate_spec, fw_env_open, Loads
    <3>2. Store!Boot
      BY <3>1, <2>t, <2>e, Zenon DEF RestInv, Store!Boot
    <3> QED
      BY <3>2, Zenon DEF Store!StoreNext
  <2>2. CASE BootWithReadFault
    BY <2>2, <2>e DEF BootWithReadFault
  <2>3. CASE SetEnv \/ fw_env_write
    <3>1. Store!Edit
      BY <2>3, <2>e, Zenon DEF SetEnv, fw_env_write, Store!Edit
    <3> QED
      BY <3>1, Zenon DEF Store!StoreNext
  <2>4. CASE PowerCut
    <3>1. Store!Cut
      BY <2>4, <2>e, Zenon DEF PowerCut, Store!Cut
    <3> QED
      BY <3>1, Zenon DEF Store!StoreNext
  <2>5. CASE Export \/ NandExport \/ fw_env_close
    <3>1. Store!Attempt
      BY <2>5, <2>e, Zenon
      DEF Export, NandExport, ExportEnv, fw_env_close, Store!Attempt
    <3> QED
      BY <3>1, Zenon DEF Store!StoreNext
  <2>6. CASE WriteBody \/ Write(1) \/ FwWriteAll
    <3>1. Writing /\ tried' = {} /\ env' = env /\ committed' = env_new.data
      BY <2>6, Zenon DEF WriteBody, Write, AtWrite, SaveDone, FwWriteAll, Writing
    <3>2. env_new.data = env /\ tried = {env} /\ env # Off
      BY SMTT(30), <3>1, <2>t, <2>e DEF STInv, WritingInv, Writing, GoodCopy
    <3>3. Store!Commit
      BY <3>1, <3>2, Zenon DEF Store!Commit
    <3> QED
      BY <3>3, Zenon DEF Store!StoreNext
  <2>7. CASE WriteFault \/ FwFault \/ \E n \in Attempts : Fault(n)
    BY <2>7, <2>e DEF WriteFault, FwFault, Fault
  <2>8. CASE Erase(2) \/ Write(2)
    BY <2>8, <2>e, Zenon DEF Erase, Write, AtErase, AtWrite, SecondTry
  <2>9. CASE WriteHead \/ Erase(1) \/ FwErase \/ FwWriteSome
    BY <2>9, Zenon DEF WriteHead, Erase, FwErase, FwWriteSome, MediaStep,
                Store!storeVars
  <2>10. CASE UNCHANGED serialVars
    BY <2>10, Zenon DEF serialVars, vars, Store!storeVars
  <2>11. CASE Next
    BY <2>11, <2>1, <2>2, <2>3, <2>4, <2>5, <2>6, <2>7, <2>9, Zenon  DEF Next
  <2>12. CASE NandNext
    <3>1. CASE \E n \in Attempts : Erase(n) \/ Write(n)
      BY <3>1, <2>6, <2>8, <2>9, Zenon DEF Attempts
    <3> QED
      BY <2>12, <3>1, <2>1, <2>2, <2>3, <2>4, <2>5, <2>7, Zenon  DEF NandNext
  <2>13. CASE FwNext
    BY <2>13, <2>1, <2>3, <2>5, <2>6, <2>7, <2>9, Zenon  DEF FwNext
  <2> QED
    BY <2>10, <2>11, <2>12, <2>13, Zenon  DEF SerialNext
<1> QED
  BY <1>1, <1>2, SerialInitInv, SerialInvStep, PTL
  DEF SerialSpec, ImplementsStore, Store!StoreSpec

-----------------------------------------------------------------------------
(* With failing reads and writes.  The serial in RAM has passed that of the *)
(* copy in use, or it has wrapped around; in the latter case every further  *)
(* increase was one of a save that failed.                                  *)
PassedInUse ==
  IF Writing THEN media[env_valid].flags < env_flags \/ env_flags <= writeFaults
  ELSE IF SecondTry
  THEN media[env_valid].flags < env_flags \/ env_flags < writeFaults
  ELSE media[env_valid].flags <= env_flags \/ env_flags < writeFaults

(* On NAND the second attempt leaves the other copy, which it must pass too.*)
PassedSpare ==
  LET f == media[Other(env_valid)].flags IN
  IF Writing THEN f < env_flags \/ env_flags <= writeFaults + 1
  ELSE IF SecondTry THEN f < env_flags \/ env_flags <= writeFaults
  ELSE f <= env_flags \/ env_flags <= writeFaults

Running == pc \notin {"off", "fwDone"}

(* The situations in which a boot may take the older copy.                  *)
Excused ==
  \/ medium = "nand" /\ readFaults > 0 /\ writeFaults > 0
  \/ blind
  \/ \E c \in Copies : media[c].flags <= writeFaults

TriedInv == Writing \/ SecondTry => tried # {}

HeadInv ==
  pc = "body" => /\ media[Other(env_valid)].crc = env
                 /\ media[Other(env_valid)].flags = env_flags

KeptInv == tried = {} => Loads(media) = committed \/ Excused

InUseInv == Running /\ ~blind /\ crc_ok(media, env_valid) => PassedInUse

SpareInv ==
  /\ medium = "nand" /\ readFaults = 0
  /\ pc \in {"idle", "erase1", "write1"} \/ SecondTry
  /\ ~blind /\ crc_ok(media, Other(env_valid))
  => PassedSpare

(* The strengthening of LostOnlyAfterFaults.                                *)
KInv == STInv /\ TriedInv /\ HeadInv /\ KeptInv /\ InUseInv /\ SpareInv

(* The next serial, and what it means to have passed a serial f.            *)
LEMMA NextSerial ==
  ASSUME NEW s \in Serials
  PROVE  /\ (s + 1) % SerialMod \in Serials
         /\ (s + 1) % SerialMod = IF s = SerialMod - 1 THEN 0 ELSE s + 1
  BY DEF Serials

(* A finished copy t that has passed the other one is what a boot takes,    *)
(* unless a serial is as small as the number of failed writes.              *)
LEMMA PassedIsTaken ==
  ASSUME NEW m \in [Copies -> env_t], NEW t \in Copies, NEW u \in Copies,
         t # u, NEW e \in Envs, NEW f \in Serials, NEW w \in Nat,
         m[t] = GoodCopy(e, f),
         crc_ok(m, u) => m[u].flags < f \/ f <= w
  PROVE  \/ SelectCopy(m, Copies) = t /\ Loads(m) = e
         \/ \E c \in Copies : m[c].flags <= w
<1>1. crc_ok(m, t) /\ m[t].flags = f /\ m[t].data = e
  BY SMTT(30) DEF crc_ok, GoodCopy
<1> SUFFICES ASSUME \A c \in Copies : ~(m[c].flags <= w)
             PROVE  SelectCopy(m, Copies) = t
  BY <1>1 DEF Loads, Copies
<1>2. m[1].flags \in Serials /\ m[2].flags \in Serials
  BY Zenon DEF Copies, env_t
<1>3. m[1].flags > 0 /\ m[2].flags > 0
  BY SMTT(30), <1>2 DEF Copies, Serials
<1>4. CASE ~crc_ok(m, u)
  BY <1>1, <1>4, Zenon DEF SelectCopy, Copies
<1>5. CASE crc_ok(m, u)
  <2>1. m[u].flags < m[t].flags
    BY <1>1, <1>5, Zenon
  <2>2. CheckSerial(m[1].flags, m[2].flags) = t
    BY <1>2, <1>3, <2>1 DEF CheckSerial, Copies, Serials
  <2> QED
    BY <1>1, <1>5, <2>2, Zenon DEF SelectCopy, Copies
<1> QED
  BY <1>4, <1>5, Zenon

(* The copy a boot takes has the larger serial, or it has wrapped around.   *)
LEMMA TakenHasPassed ==
  ASSUME NEW m \in [Copies -> env_t], NEW v \in Copies,
         SelectCopy(m, Copies) = v, crc_ok(m, Other(v))
  PROVE  m[Other(v)].flags <= m[v].flags \/ m[v].flags = 0
<1>1. crc_ok(m, v)
  BY SelectCases DEF Copies
<1>2. CheckSerial(m[1].flags, m[2].flags) = v
  BY <1>1 DEF SelectCopy, Copies, Other
<1>3. m[1].flags \in Serials /\ m[2].flags \in Serials
  BY Zenon DEF Copies, env_t
<1> QED
  BY <1>2, <1>3 DEF CheckSerial, Copies, Other, Serials

(* The invariant holds of a board that is off.                              *)
LEMMA KeptInit == SerialInit => KInv
<1> SUFFICES ASSUME SerialInit PROVE KInv
  OBVIOUS
<1>1. STInv
  BY SerialInitInv, Zenon DEF SInv
<1>2. pc = "off" /\ committed = Loads(media)
  BY Zenon DEF SerialInit, Init
<1> QED
  BY <1>1, <1>2, Zenon DEF KInv, TriedInv, HeadInv, KeptInv, InUseInv, SpareInv,
                    Running, Writing, SecondTry

(* A step that leaves the copies and does not succeed in a save keeps what  *)
(* is known of the last successful one.                                     *)
LEMMA StillKept ==
  ASSUME STInv, STInv', KeptInv, UNCHANGED <<media, committed, medium>>,
         tried' = {} => tried = {}, blind => blind',
         readFaults' >= readFaults, writeFaults' >= writeFaults
  PROVE  KeptInv'
<1>1. /\ readFaults \in Nat /\ writeFaults \in Nat
      /\ readFaults' \in Nat /\ writeFaults' \in Nat
  BY SMTT(30) DEF STInv, TypeOK
<1>2. \A c \in Copies : media[c].flags \in Nat
  BY DEF STInv, TypeOK, env_t, Serials
<1>3. (medium = "nand" /\ readFaults > 0 /\ writeFaults > 0)
      => (medium' = "nand" /\ readFaults' > 0 /\ writeFaults' > 0)
  BY <1>1
<1>4. (\E c \in Copies : media[c].flags <= writeFaults)
      => \E c \in Copies : media'[c].flags <= writeFaults'
  BY <1>1, <1>2
<1>5. Excused => Excused'
  BY <1>3, <1>4, Zenon  DEF Excused
<1>6. Loads(media)' = Loads(media)
  BY Zenon DEF Loads
<1> QED
  BY <1>5, <1>6, Zenon DEF KeptInv

(* A save that succeeds: the copy t it wrote has passed the other one.      *)
LEMMA SavedIsKept ==
  ASSUME STInv, STInv', NEW t \in Copies, NEW u \in Copies, t # u,
         NEW e \in Envs, NEW f \in Serials,
         media'[t] = GoodCopy(e, f), committed' = e,
         crc_ok(media', u) /\ ~Excused' => media'[u].flags < f \/ f <= writeFaults'
  PROVE  KeptInv'
<1>1. media' \in [Copies -> env_t] /\ writeFaults' \in Nat
  BY SMTT(30) DEF STInv, TypeOK
<1> SUFFICES ASSUME ~Excused' PROVE Loads(media') = committed'
  BY Zenon  DEF KeptInv
<1>2. ~\E c \in Copies : media'[c].flags <= writeFaults'
  BY Zenon DEF Excused
<1> QED
  BY <1>1, <1>2, PassedIsTaken, Zenon

(* Every step of every writer keeps the invariant, whatever fails.          *)
LEMMA KeptStep == KInv /\ [SerialNext]_serialVars => KInv'
<1> SUFFICES ASSUME KInv, [SerialNext]_serialVars PROVE KInv'
  OBVIOUS
<1>t. STInv /\ STInv'
  BY SerialTypeStep, Zenon DEF KInv
<1>i. TriedInv /\ HeadInv /\ KeptInv /\ InUseInv /\ SpareInv
  BY Zenon DEF KInv
<1>m. /\ media \in [Copies -> env_t] /\ media' \in [Copies -> env_t]
      /\ env_valid \in Copies /\ env_valid' \in Copies
      /\ readFaults \in Nat /\ writeFaults \in Nat
      /\ env_flags \in Serials /\ env_flags' \in Serials
      /\ \A c \in Copies : media[c].flags \in Serials
      /\ \A c \in Copies : media'[c].flags \in Serials
      /\ medium' = medium
  <2>1. medium' = medium
    BY Zenon DEF SerialNext, serialVars
  <2> QED
    BY <1>t, <2>1 DEF STInv, TypeOK, env_t
<1>o. /\ Other(env_valid) \in Copies /\ Other(env_valid) # env_valid
      /\ Target = Other(env_valid) /\ dev_target = Other(env_valid)
      /\ Location(1) = Other(env_valid)
      /\ (IF env_valid = 2 THEN 1 ELSE 2) = Other(env_valid)
      /\ Other(Other(env_valid)) = env_valid
      /\ Location(2) = env_valid
  BY <1>m, SameTarget DEF Other, Copies, Location
<1> SUFFICES TriedInv' /\ HeadInv' /\ KeptInv' /\ InUseInv' /\ SpareInv'
  BY <1>t, Zenon DEF KInv
<1>1. CASE Boot \/ fw_env_open
  <2> DEFINE c == SelectCopy(media, Copies)
  <2>1. /\ media' = media /\ committed' = Loads(media) /\ pc' \in {"idle", "fw"}
        /\ pc' = "idle" => env_flags' = IF c = 0 THEN 0 ELSE media[c].flags
        /\ pc' = "fw" => env_flags' = media[env_valid'].flags
        /\ env_valid' = IF c = 0 THEN 1 ELSE c
    BY <1>1, Zenon DEF Boot, env_relocate_spec, fw_env_open, Loads
  <2>2. KeptInv'
    BY <2>1, Zenon DEF KeptInv, Loads
  <2>3. /\ c \in {0, 1, 2} /\ c # 0 => crc_ok(media, c)
        /\ c = 0 => ~crc_ok(media, 1) /\ ~crc_ok(media, 2)
    BY <1>m, SelectCases, Zenon
  <2>4. ~Writing' /\ ~SecondTry' /\ pc' # "body"
    BY <2>1, Zenon DEF Writing, SecondTry
  <2>5. InUseInv'
    <3>1. c # 0 => media'[env_valid'].flags = env_flags'
      BY <2>1, Zenon
    <3>2. c = 0 => ~crc_ok(media', env_valid')
      BY <2>1, <2>3, Zenon DEF crc_ok
    <3> QED
      BY <2>4, <3>1, <3>2, <1>m DEF InUseInv, PassedInUse, crc_ok, Serials
  <2>6. SpareInv'
    <3>1. c = 0 => ~crc_ok(media', Other(env_valid'))
      BY <2>1, <2>3, <1>m DEF crc_ok, Other, Copies
    <3>2. c # 0 /\ crc_ok(media', Other(env_valid')) =>
            \/ media'[Other(env_valid')].flags <= media'[env_valid'].flags
            \/ media'[env_valid'].flags = 0
      BY <1>m, <2>1, TakenHasPassed, Zenon
    <3>3. c # 0 => media'[env_valid'].flags = env_flags'
      BY <2>1, Zenon
    <3>4. writeFaults' \in Nat
      BY SMTT(30), <1>t DEF STInv, TypeOK
    <3>5. crc_ok(media', Other(env_valid')) =>
            \/ media'[Other(env_valid')].flags <= env_flags'
            \/ env_flags' <= writeFaults'
      BY <3>1, <3>2, <3>3, <3>4
    <3> QED
      BY <2>4, <3>5, Zenon DEF SpareInv, PassedSpare, crc_ok
  <2> QED
    BY <2>1, <2>2, <2>4, <2>5, <2>6, Zenon DEF TriedInv, HeadInv
<1>2. CASE BootWithReadFault
  <2>1. PICK readable \in (SUBSET Copies) \ {Copies} :
          /\ env_relocate_spec(readable)
          /\ blind' = (blind \/ (SelectCopy(media, readable) = 0
                                 /\ SelectCopy(media, Copies) # 0))
    BY <1>2, Zenon DEF BootWithReadFault
  <2> DEFINE c == SelectCopy(media, readable)
  <2>2. /\ media' = media /\ pc' = "idle" /\ writeFaults' = writeFaults
        /\ env_valid' = IF c = 0 THEN 1 ELSE c
        /\ env_flags' = IF c = 0 THEN 0 ELSE media[c].flags
        /\ UNCHANGED <<committed, tried>> /\ readFaults' = readFaults + 1
    BY <1>2, <2>1, Zenon DEF BootWithReadFault, env_relocate_spec
  <2>3. (blind => blind') /\ (~blind' /\ c = 0 => SelectCopy(media, Copies) = 0)
    BY <2>1 , Zenon
  <2>4. KeptInv'
    BY <1>t, <1>i, <1>m, <2>2, <2>3, StillKept
  <2>5. ~Writing' /\ ~SecondTry' /\ pc' # "body" /\ readFaults' # 0
    BY SMTT(30), <1>m, <2>2 DEF Writing, SecondTry
  <2>6. ~blind' /\ crc_ok(media', env_valid') =>
          media'[env_valid'].flags = env_flags'
    BY <1>m, <2>2, <2>3, SelectCases, Zenon DEF crc_ok
  <2>7. InUseInv'
    BY SMTT(30), <1>m, <2>5, <2>6 DEF InUseInv, PassedInUse, crc_ok, Serials
  <2> QED
    BY <2>4, <2>5, <2>7, Zenon DEF TriedInv, HeadInv, SpareInv
<1>3. CASE SetEnv \/ fw_env_write
  <2>1. /\ pc \in {"idle", "fw"} /\ pc' = pc
        /\ UNCHANGED <<media, env_valid, env_flags, committed, tried, blind,
                       readFaults, writeFaults>>
    BY <1>3, Zenon DEF SetEnv, fw_env_write
  <2>2. KeptInv'
    BY <1>t, <1>i, <1>m, <2>1, StillKept
  <2> QED
    BY <1>i, <1>m, <2>1, <2>2, Zenon
    DEF TriedInv, HeadInv, InUseInv, PassedInUse, SpareInv, PassedSpare,
        Running, Writing, SecondTry, crc_ok
<1>4. CASE PowerCut
  <2>1. /\ pc' = "off"
        /\ UNCHANGED <<media, committed, tried, blind, readFaults, writeFaults>>
    BY <1>4, Zenon DEF PowerCut
  <2>2. KeptInv'
    BY <1>t, <1>i, <1>m, <2>1, StillKept
  <2> QED
    BY <2>1, <2>2, Zenon DEF TriedInv, HeadInv, InUseInv, SpareInv, Running, Writing,
                      SecondTry
<1>5. CASE Export \/ NandExport \/ fw_env_close
  <2>1. /\ pc \in {"idle", "fw"} /\ pc' \in {"head", "erase1", "fwErase", "fwWrite"}
        /\ pc = "idle" \/ pc' \notin {"head", "erase1"}
        /\ UNCHANGED <<media, env_valid, committed, blind, readFaults,
                       writeFaults>>
        /\ env_flags' = (env_flags + 1) % SerialMod
        /\ tried' = tried \cup {env}
    BY <1>5, Zenon DEF Export, NandExport, ExportEnv, AtErase, fw_env_close
  <2>2. env_flags' = IF env_flags = SerialMod - 1 THEN 0 ELSE env_flags + 1
    BY <1>m, <2>1, NextSerial, Zenon
  <2>3. KeptInv' /\ TriedInv' /\ HeadInv'
    BY <2>1, Zenon DEF KeptInv, TriedInv, HeadInv
  <2>4. Writing' /\ ~Writing /\ ~SecondTry /\ ~SecondTry' /\ Running
    BY <2>1, Zenon DEF Writing, SecondTry, Running
  <2>5. InUseInv'
    <3> SUFFICES ASSUME ~blind, crc_ok(media, env_valid)
                 PROVE  \/ media[env_valid].flags < env_flags'
                        \/ env_flags' <= writeFaults
      BY <2>1, <2>4, Zenon DEF InUseInv, PassedInUse, crc_ok
    <3>1. media[env_valid].flags <= env_flags \/ env_flags < writeFaults
      BY <1>i, <2>4, Zenon DEF InUseInv, PassedInUse
    <3> QED
      BY SMTT(30), <1>m, <2>2, <3>1 DEF Serials
  <2>6. SpareInv'
    <3> SUFFICES ASSUME ~blind, crc_ok(media, Other(env_valid)), pc = "idle",
                        medium = "nand", readFaults = 0
                 PROVE  \/ media[Other(env_valid)].flags < env_flags'
                        \/ env_flags' <= writeFaults + 1
      BY <1>m, <2>1, <2>4, Zenon DEF SpareInv, PassedSpare, crc_ok
    <3>1. \/ media[Other(env_valid)].flags <= env_flags
          \/ env_flags <= writeFaults
      BY <1>i, <2>4, Zenon DEF SpareInv, PassedSpare
    <3>2. media[Other(env_valid)].flags \in Serials
      BY <1>m, <1>o, Zenon
    <3> QED
      BY SMTT(30), <1>m, <2>2, <3>1, <3>2 DEF Serials
  <2> QED
    BY <2>3, <2>5, <2>6, Zenon
<1>6. CASE WriteHead \/ Erase(1) \/ FwErase \/ FwWriteSome
  <2>1. /\ Writing /\ Writing' /\ ~SecondTry' /\ pc' # "idle"
        /\ UNCHANGED <<env, env_valid, env_flags, committed, tried, blind,
                       readFaults, writeFaults>>
    BY <1>6, Zenon DEF WriteHead, Erase, AtErase, AtWrite, FwErase, FwWriteSome,
                MediaStep, Writing, SecondTry
  <2>2. media'[env_valid] = media[env_valid]
    BY <1>6, <1>o, <1>m DEF WriteHead, Erase, FwErase, FwWriteSome, MediaStep
  <2>3. tried # {}
    BY <1>i, <2>1, Zenon DEF TriedInv
  <2>4. InUseInv'
    BY <1>i, <2>1, <2>2, Zenon
    DEF InUseInv, PassedInUse, Running, Writing, SecondTry, crc_ok
  <2>5. HeadInv'
    <3>1. CASE WriteHead
      <4>1. env_new = GoodCopy(env, env_flags)
        BY <1>t, <2>1, Zenon DEF STInv
      <4> QED
        BY <3>1, <4>1, <1>o, <1>m, <2>1 DEF WriteHead, GoodCopy, HeadInv
    <3>2. CASE Erase(1) \/ FwErase \/ FwWriteSome
      BY <3>2, Zenon DEF HeadInv, Erase, AtWrite, FwErase, FwWriteSome, MediaStep
    <3> QED
      BY <1>6, <3>1, <3>2, Zenon
  <2>6. SpareInv'
    <3>1. CASE Erase(1)
      <4>1. ~crc_ok(media', Other(env_valid))
        BY <3>1, <1>o, <1>m, Zenon DEF Erase, crc_ok, BadCopy
      <4> QED
        BY <2>1, <4>1, Zenon DEF SpareInv, crc_ok
    <3>2. CASE WriteHead \/ FwErase \/ FwWriteSome
      BY <3>2, <2>1, Zenon DEF SpareInv, WriteHead, FwErase, FwWriteSome, MediaStep
    <3> QED
      BY <1>6, <3>1, <3>2, Zenon
  <2> QED
    BY <2>1, <2>3, <2>4, <2>5, <2>6, Zenon DEF TriedInv, KeptInv
<1>7. CASE WriteBody \/ Write(1) \/ FwWriteAll
  <2>1. /\ Writing /\ pc' \in {"idle", "fwDone"} /\ Running
        /\ UNCHANGED <<env, env_flags, blind, readFaults, writeFaults>>
    BY <1>7, Zenon DEF WriteBody, Write, AtWrite, SaveDone, FwWriteAll, Writing, Running
  <2>2. env_new = GoodCopy(env, env_flags) /\ env \in Envs
    BY <1>t, <2>1, Zenon DEF STInv, TypeOK, Writing
  <2>3. committed' = env
    BY <1>7, <2>2, Zenon DEF WriteBody, Write, SaveDone, FwWriteAll, GoodCopy
  <2>4. pc' = "idle" => env_valid' = Other(env_valid)
    BY <1>7, <1>o, Zenon DEF WriteBody, Write, SaveDone, FwWriteAll
  <2>5. media'[env_valid] = media[env_valid]
    BY <1>7, <1>o, <1>m, Zenon DEF WriteBody, Write, FwWriteAll
  <2>6. media'[Other(env_valid)] = GoodCopy(env, env_flags)
    <3>1. CASE WriteBody
      <4>1. /\ media[Other(env_valid)].crc = env
            /\ media[Other(env_valid)].flags = env_flags
        BY <1>i, <3>1, Zenon DEF WriteBody, HeadInv
      <4>2. media' = [media EXCEPT ![Other(env_valid)].data = env]
        BY <3>1, <1>o, <2>2, Zenon DEF WriteBody, GoodCopy
      <4> QED
        BY <4>1, <4>2, <1>o, <1>m DEF GoodCopy, env_t
    <3>2. CASE Write(1) \/ FwWriteAll
      BY <3>2, <1>o, <1>m, <2>2, Zenon DEF Write, FwWriteAll
    <3> QED
      BY <1>7, <3>1, <3>2, Zenon
  <2>7. ~blind /\ crc_ok(media', env_valid) =>
          media'[env_valid].flags < env_flags \/ env_flags <= writeFaults
    BY <1>i, <2>1, <2>5, Zenon DEF InUseInv, PassedInUse, crc_ok
  <2>8. KeptInv'
    <3>1. ~Excused' => ~blind
      BY <2>1, Zenon DEF Excused
    <3> QED
      BY SMTT(30), <1>t, <1>m, <1>o, <2>1, <2>2, <2>3, <2>6, <2>7, <3>1, SavedIsKept
  <2>9. ~Writing' /\ ~SecondTry' /\ pc' # "body"
    BY <2>1, Zenon DEF Writing, SecondTry
  <2>10. InUseInv'
    <3>1. pc' = "idle" => media'[env_valid'].flags = env_flags'
      BY SMTT(30), <2>1, <2>4, <2>6 DEF GoodCopy
    <3> QED
      BY SMTT(30), <1>m, <2>1, <2>9, <3>1 DEF InUseInv, PassedInUse, Running, Serials
  <2>11. SpareInv'
    <3>1. pc' = "idle" => Other(env_valid') = env_valid
      BY <2>4, <1>o, Zenon
    <3>2. media[env_valid].flags \in Nat /\ env_flags \in Nat
      BY <1>m DEF Serials
    <3> QED
      BY <1>m, <2>1, <2>5, <2>7, <2>9, <3>1, <3>2
      DEF SpareInv, PassedSpare, crc_ok
  <2> QED
    BY <2>8, <2>9, <2>10, <2>11, Zenon DEF TriedInv, HeadInv
<1>8. CASE Erase(2)
  <2>1. /\ SecondTry /\ SecondTry' /\ ~Writing' /\ ~Writing /\ pc' # "body"
        /\ media' = [media EXCEPT ![env_valid] = BadCopy(SerialMod - 1)]
        /\ UNCHANGED <<env, env_valid, env_flags, committed, tried, blind,
                       readFaults, writeFaults>>
    BY <1>8, <1>o, Zenon DEF Erase, AtErase, AtWrite, SecondTry, Writing
  <2>2. ~crc_ok(media', env_valid)
    BY <2>1, <1>m, Zenon DEF crc_ok, BadCopy
  <2>3. media'[Other(env_valid)] = media[Other(env_valid)]
    BY <2>1, <1>m, <1>o, Zenon
  <2>4. InUseInv'
    BY <2>1, <2>2, Zenon DEF InUseInv, crc_ok
  <2>5. SpareInv'
    BY <1>i, <1>m, <2>1, <2>3, Zenon DEF SpareInv, PassedSpare, crc_ok
  <2> QED
    BY <1>i, <2>1, <2>4, <2>5, Zenon DEF TriedInv, HeadInv, KeptInv
<1>9. CASE Write(2)
  <2>1. /\ SecondTry /\ ~Writing /\ pc' = "idle"
        /\ media' = [media EXCEPT ![env_valid] = env_new]
        /\ committed' = env_new.data
        /\ UNCHANGED <<env_valid, env_flags, blind, readFaults, writeFaults>>
    BY <1>9, <1>o, Zenon DEF Write, AtWrite, SaveDone, SecondTry, Writing
  <2>2. /\ env_new = GoodCopy(env, env_flags) /\ env \in Envs
        /\ medium = "nand" /\ writeFaults > 0
    BY <1>t, <2>1, Zenon DEF STInv, TypeOK, SecondTry
  <2>3. /\ media'[env_valid] = GoodCopy(env, env_flags) /\ committed' = env
        /\ media'[Other(env_valid)] = media[Other(env_valid)]
    BY <2>1, <2>2, <1>m, <1>o, Zenon DEF GoodCopy
  <2>4. ~blind /\ readFaults = 0 /\ crc_ok(media', Other(env_valid)) =>
          \/ media'[Other(env_valid)].flags < env_flags
          \/ env_flags <= writeFaults
    BY <1>i, <2>1, <2>2, <2>3, Zenon DEF SpareInv, PassedSpare, crc_ok
  <2>5. ~Excused' => ~blind /\ readFaults = 0
    BY <1>m, <2>1, <2>2 DEF Excused
  <2>6. KeptInv'
    BY <1>t, <1>m, <1>o, <2>1, <2>2, <2>3, <2>4, <2>5, SavedIsKept, Zenon
  <2>7. ~Writing' /\ ~SecondTry' /\ pc' # "body"
    BY <2>1, Zenon DEF Writing, SecondTry
  <2>8. InUseInv'
    <3>1. media'[env_valid'].flags = env_flags'
      BY <2>1, <2>3 DEF GoodCopy
    <3> QED
      BY <1>m, <2>7, <3>1 DEF InUseInv, PassedInUse, Serials
  <2>9. SpareInv'
    <3>1. media[Other(env_valid)].flags \in Nat /\ env_flags \in Nat
      BY <1>m, <1>o DEF Serials
    <3> QED
      BY <1>m, <2>1, <2>3, <2>4, <2>7, <3>1 DEF SpareInv, PassedSpare, crc_ok
  <2> QED
    BY <2>6, <2>7, <2>8, <2>9, Zenon DEF TriedInv, HeadInv
<1>10. CASE WriteFault \/ FwFault \/ \E n \in Attempts : Fault(n)
  <2>1. /\ writeFaults' = writeFaults + 1
        /\ UNCHANGED <<media, env, env_valid, env_flags, committed, tried, blind,
                       readFaults>>
    BY <1>10, Zenon DEF WriteFault, FwFault, Fault
  <2>2. \/ Writing /\ pc' = "idle" /\ medium = "mmc"
        \/ Writing /\ pc' = "fwDone"
        \/ pc \in {"erase1", "write1"} /\ pc' = "erase2"
        \/ SecondTry /\ pc' = "idle"
    BY SMTT(30), <1>10, <1>t
    DEF WriteFault, FwFault, Fault, Attempts, AtErase, AtWrite, STInv, Writing,
        SecondTry
  <2>3. KeptInv'
    BY SMTT(30), <1>t, <1>i, <1>m, <2>1, StillKept
  <2>4. TriedInv' /\ HeadInv' /\ ~Writing' /\ Running
    BY <1>i, <2>1, <2>2, Zenon DEF TriedInv, HeadInv, Writing, SecondTry, Running
  <2>5. media[Other(env_valid)].flags \in Serials
    BY <1>m, <1>o, Zenon
  <2>6. InUseInv'
    <3> SUFFICES ASSUME ~blind, crc_ok(media, env_valid), Running'
                 PROVE  PassedInUse'
      BY <2>1, Zenon DEF InUseInv, crc_ok
    <3>1. \/ media[env_valid].flags < env_flags
          \/ env_flags <= writeFaults
      BY SMTT(30), <1>i, <1>m, <2>2, <2>4
      DEF InUseInv, PassedInUse, Writing, SecondTry, Serials
    <3> QED
      BY SMTT(30), <1>m, <2>1, <2>4, <3>1 DEF PassedInUse, Serials
  <2>7. SpareInv'
    <3> SUFFICES ASSUME medium = "nand", readFaults = 0, ~blind,
                        crc_ok(media, Other(env_valid)),
                        pc' = "idle" \/ SecondTry'
                 PROVE  PassedSpare'
      BY <1>m, <2>1, <2>2, Zenon DEF SpareInv, crc_ok, SecondTry
    <3>1. \/ media[Other(env_valid)].flags < env_flags
          \/ env_flags <= writeFaults + 1
      BY SMTT(30), <1>i, <1>m, <2>2, <2>4, <2>5
      DEF SpareInv, PassedSpare, Writing, SecondTry, Serials
    <3> QED
      BY SMTT(30), <1>m, <2>1, <2>4, <2>5, <3>1 DEF PassedSpare, Serials
  <2> QED
    BY <2>3, <2>4, <2>6, <2>7, Zenon
<1>11. CASE UNCHANGED serialVars
  <2>1. UNCHANGED <<media, env, env_valid, env_flags, pc, readFaults,
                    writeFaults, blind, committed, tried, medium>>
    BY <1>11, Zenon DEF serialVars, vars
  <2>2. KeptInv'
    BY <1>t, <1>i, <1>m, <2>1, StillKept
  <2> QED
    BY <1>i, <2>1, <2>2, Zenon
    DEF TriedInv, HeadInv, InUseInv, PassedInUse, SpareInv, PassedSpare,
        Running, Writing, SecondTry, crc_ok
<1>12. CASE Next
  BY <1>12, <1>1, <1>2, <1>3, <1>4, <1>5, <1>6, <1>7, <1>10, Zenon  DEF Next
<1>13. CASE NandNext
  <2>1. CASE \E n \in Attempts : Erase(n) \/ Write(n)
    BY <2>1, <1>6, <1>7, <1>8, <1>9, Zenon DEF Attempts
  <2> QED
    BY <1>13, <2>1, <1>1, <1>2, <1>3, <1>4, <1>5, <1>10, Zenon  DEF NandNext
<1>14. CASE FwNext
  BY <1>14, <1>1, <1>3, <1>5, <1>6, <1>7, <1>10, Zenon  DEF FwNext
<1> QED
  BY <1>11, <1>12, <1>13, <1>14, Zenon  DEF SerialNext

(* What the invariant says of a save that has succeeded.                    *)
LEMMA SerialFaultsHold == KInv => LostOnlyAfterFaults
<1> SUFFICES ASSUME KInv, medium = "mmc" \/ readFaults = 0 \/ writeFaults = 0,
                    Lost
             PROVE  blind \/ \E c \in Copies : media[c].flags <= writeFaults
  BY Zenon DEF LostOnlyAfterFaults
<1>1. Excused
  BY Zenon DEF KInv, KeptInv, Lost
<1>2. readFaults \in Nat /\ writeFaults \in Nat
  BY DEF KInv, STInv, TypeOK
<1>3. ~(medium = "nand" /\ readFaults > 0 /\ writeFaults > 0)
  BY <1>2
<1> QED
  BY <1>1, <1>3, Zenon  DEF Excused

(* Whatever reads and writes fail, a boot takes the older copy after a      *)
(* successful save only if the boot before that save missed a good copy or  *)
(* the serial wrapped around within the failed writes.                      *)
THEOREM SerialFaults == SerialSpec => []LostOnlyAfterFaults
  BY KeptInit, KeptStep, SerialFaultsHold, PTL DEF SerialSpec

(* Every step leaves a good copy where the copy in use was good, but for    *)
(* the second attempt of a save on NAND.                                    *)
LEMMA SerialInUseStep == STInv /\ [SerialNext]_serialVars => KeepsInUse
<1> SUFFICES ASSUME STInv, [SerialNext]_serialVars, crc_ok(media, env_valid),
                    ~(medium = "nand" /\ writeFaults > 0)
             PROVE  HasGood(media')
  BY Zenon DEF KeepsInUse
<1>m. media \in [Copies -> env_t] /\ env_valid \in Copies
  BY Zenon DEF STInv, TypeOK
<1>o. /\ Other(env_valid) # env_valid /\ Other(env_valid) \in Copies
      /\ Target = Other(env_valid) /\ dev_target = Other(env_valid)
      /\ Location(1) = Other(env_valid)
  BY <1>m, SameTarget, Zenon DEF Other, Copies, Location
<1>s. ~SecondTry
  BY Zenon DEF STInv, SecondTry
<1>1. media'[env_valid] = media[env_valid]
  <2>1. CASE UNCHANGED media
    BY <2>1, Zenon
  <2>2. CASE WriteHead \/ WriteBody \/ FwErase \/ FwWriteSome \/ FwWriteAll
    BY <2>2, <1>m, <1>o, Zenon
    DEF WriteHead, WriteBody, FwErase, FwWriteSome, FwWriteAll, MediaStep
  <2>3. CASE \E n \in Attempts : Erase(n) \/ Write(n)
    <3>1. Erase(1) \/ Write(1)
      BY SMTT(30), <2>3, <1>s DEF Attempts, Erase, Write, AtErase, AtWrite, SecondTry
    <3> QED
      BY <3>1, <1>m, <1>o, Zenon DEF Erase, Write
  <2>4. CASE Boot \/ BootWithReadFault \/ SetEnv \/ PowerCut \/ Export
             \/ NandExport \/ WriteFault \/ fw_env_open \/ fw_env_write
             \/ fw_env_close \/ FwFault \/ \E n \in Attempts : Fault(n)
    BY <2>4, Zenon DEF Boot, BootWithReadFault, env_relocate_spec, SetEnv, PowerCut,
                Export, NandExport, ExportEnv, WriteFault, fw_env_open,
                fw_env_write, fw_env_close, FwFault, Fault
  <2>5. CASE UNCHANGED serialVars
    BY <2>5, Zenon DEF serialVars, vars
  <2> QED
    BY <2>2, <2>3, <2>4, <2>5, Zenon  DEF SerialNext, Next, NandNext, FwNext
<1> QED
  BY <1>1, <1>m, Zenon DEF HasGood, crc_ok

(* No writer touches the copy in use before its spare copy is complete, but *)
(* for the second attempt of env_nand.c.                                    *)
THEOREM SerialInUseKept == SerialSpec => [][KeepsInUse]_serialVars
<1>1. SInv => STInv
  BY Zenon DEF SInv
<1> QED
  BY <1>1, SerialInitInv, SerialInvStep, SerialInUseStep, PTL DEF SerialSpec
=============================================================================
