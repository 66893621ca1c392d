-------------------------- MODULE EnvBoardProofs ----------------------------
(* Proofs about the board with any of the environment drivers: what         *)
(* EnvSerialProofs and EnvFlashProofs show of two copies, and the single    *)
(* copy, which is how the E9 board is configured.                           *)
EXTENDS EnvBoard, TLAPS

SP == INSTANCE EnvSerialProofs WITH env_valid <- current
FP == INSTANCE EnvFlashProofs

-----------------------------------------------------------------------------
(* The board takes the steps, and is judged by the properties, of the       *)
(* modules that those proofs are about.                                     *)
LEMMA SameSerialNext == Serial!SerialNext <=> SP!SerialNext
<1>1. /\ Serial!Boot <=> SP!Boot
      /\ Serial!BootWithReadFault <=> SP!BootWithReadFault
  BY Zenon DEF Serial!Boot, SP!Boot, Serial!BootWithReadFault, SP!BootWithReadFault,
         Serial!env_relocate_spec, SP!env_relocate_spec, Serial!SelectCopy,
         SP!SelectCopy, Serial!CheckSerial, SP!CheckSerial, Serial!crc_ok,
         SP!crc_ok, Serial!Copies, SP!Copies
<1>2. /\ Serial!SetEnv <=> SP!SetEnv
      /\ Serial!PowerCut <=> SP!PowerCut
      /\ Serial!Export <=> SP!Export
      /\ Serial!WriteFault <=> SP!WriteFault
  BY DEF Serial!SetEnv, SP!SetEnv, Serial!PowerCut, SP!PowerCut, Serial!Export,
         SP!Export, Serial!WriteFault, SP!WriteFault, Serial!ExportEnv,
         SP!ExportEnv, Serial!GoodCopy, SP!GoodCopy
<1>3. /\ Serial!WriteHead <=> SP!WriteHead
      /\ Serial!WriteBody <=> SP!WriteBody
  BY DEF Serial!WriteHead, SP!WriteHead, Serial!Overwritten, SP!Overwritten,
         Serial!WriteBody, SP!WriteBody, Serial!Target, SP!Target,
         Serial!SaveDone, SP!SaveDone
<1>4. Serial!NandExport <=> SP!NandExport
  BY DEF Serial!NandExport, SP!NandExport, Serial!ExportEnv, SP!ExportEnv,
         Serial!AtErase, SP!AtErase, Serial!GoodCopy, SP!GoodCopy
<1>5. \A n \in {1, 2} : /\ Serial!Erase(n) <=> SP!Erase(n)
                        /\ Serial!Write(n) <=> SP!Write(n)
                        /\ Serial!Fault(n) <=> SP!Fault(n)
  BY SMTT(30) DEF Serial!Erase, SP!Erase, Serial!Write, SP!Write, Serial!Fault, SP!Fault,
         Serial!AtErase, SP!AtErase, Serial!AtWrite, SP!AtWrite, Serial!Location,
         SP!Location, Serial!SaveDone, SP!SaveDone, Serial!BadCopy, SP!BadCopy
<1>6. /\ Serial!fw_env_open <=> SP!fw_env_open
      /\ Serial!fw_env_write <=> SP!fw_env_write
      /\ Serial!fw_env_close <=> SP!fw_env_close
  BY DEF Serial!fw_env_open, SP!fw_env_open, Serial!fw_env_write, SP!fw_env_write,
         Serial!fw_env_close, SP!fw_env_close, Serial!SelectCopy, SP!SelectCopy,
         Serial!CheckSerial, SP!CheckSerial, Serial!crc_ok, SP!crc_ok,
         Serial!Copies, SP!Copies, Serial!GoodCopy, SP!GoodCopy
<1>7. Serial!FwErase <=> SP!FwErase
  BY DEF Serial!FwErase, SP!FwErase, Serial!MediaStep, SP!MediaStep,
         Serial!dev_target, SP!dev_target, Serial!Other, SP!Other, Serial!BadCopy,
         SP!BadCopy
<1>8. Serial!FwWriteSome <=> SP!FwWriteSome
  BY DEF Serial!FwWriteSome, SP!FwWriteSome, Serial!MediaStep, SP!MediaStep,
         Serial!dev_target, SP!dev_target, Serial!Other, SP!Other
<1>9. /\ Serial!FwWriteAll <=> SP!FwWriteAll
      /\ Serial!FwFault <=> SP!FwFault
  BY SMTT(30) DEF Serial!FwWriteAll, SP!FwWriteAll, Serial!FwFault, SP!FwFault,
         Serial!dev_target, SP!dev_target, Serial!Other, SP!Other
<1> QED
  BY <1>1, <1>2, <1>3, <1>4, <1>5, <1>6, <1>7, <1>8, <1>9, ZenonT(30)
  DEF Serial!SerialNext, SP!SerialNext, Serial!Next, SP!Next,
      Serial!NandNext, SP!NandNext, Serial!FwNext, SP!FwNext,
      Serial!Attempts, SP!Attempts

(* The two instances of EnvSerial, the board's and the one in its proofs,   *)
(* start alike and state the same properties.                               *)
LEMMA SameSerial ==
  /\ Serial!SerialInit <=> SP!SerialInit
  /\ Serial!SerialTypeOK <=> SP!SerialTypeOK
  /\ Serial!CrashSafe <=> SP!CrashSafe
  /\ Serial!LostOnlyAfterFaults <=> SP!LostOnlyAfterFaults
  /\ Serial!KeepsInUse <=> SP!KeepsInUse
  BY DEF Serial!SerialInit, SP!SerialInit, Serial!Init, SP!Init,
         Serial!FirstMedia, SP!FirstMedia, Serial!SerialTypeOK,
         SP!SerialTypeOK, Serial!TypeOK, SP!TypeOK, Serial!FwPcs, SP!FwPcs,
         Serial!MmcTypeOK, SP!MmcTypeOK, Serial!NandTypeOK, SP!NandTypeOK,
         Serial!PcOK, SP!PcOK, Serial!env_t, SP!env_t,
         Serial!Serials, SP!Serials, Serial!CrashSafe, SP!CrashSafe,
         Serial!LostOnlyAfterFaults, SP!LostOnlyAfterFaults,
         Serial!Lost, SP!Lost, Serial!KeepsInUse, SP!KeepsInUse,
         Serial!HasGood, SP!HasGood, Serial!Loads, SP!Loads,
         Serial!SelectCopy, SP!SelectCopy, Serial!CheckSerial, SP!CheckSerial,
         Serial!crc_ok, SP!crc_ok, Serial!Copies, SP!Copies,
         Serial!GoodCopy, SP!GoodCopy, Serial!BadCopy, SP!BadCopy,
         Serial!Other, SP!Other, Serial!Attempts, SP!Attempts,
         Serial!AtErase, SP!AtErase, Serial!AtWrite, SP!AtWrite

(* What is proved of the copies with a serial number.                       *)
LEMMA SerialSteps ==
  /\ SP!SerialInit => SP!SInv /\ SP!KInv
  /\ SP!SInv /\ [SP!SerialNext]_SP!serialVars => SP!SInv'
  /\ SP!KInv /\ [SP!SerialNext]_SP!serialVars => SP!KInv'
  /\ SP!STInv /\ [SP!SerialNext]_SP!serialVars => SP!KeepsInUse
  /\ SP!STInv => SP!SerialTypeOK
  /\ SP!SInv => SP!CrashSafe
  /\ SP!KInv => SP!LostOnlyAfterFaults
  BY SMTT(30), EnvAssumption, FaultAssumption, BoardAssumption, SP!SerialInitInv,
     SP!SerialInvStep, SP!KeptInit, SP!KeptStep, SP!SerialInUseStep,
     SP!SerialTypesHold, SP!SerialCrashHolds, SP!SerialFaultsHold

(* The two instances of EnvFlash take the same steps.                       *)
LEMMA SameFlashNext == Flash!FlashNext <=> FP!FlashNext
<1>1. /\ Flash!SetEnv <=> FP!SetEnv
      /\ Flash!PowerCut <=> FP!PowerCut
      /\ Flash!Export <=> FP!Export
      /\ Flash!ProbeFault <=> FP!ProbeFault
      /\ Flash!ExportFault <=> FP!ExportFault
  BY DEF Flash!SetEnv, FP!SetEnv, Flash!PowerCut, FP!PowerCut, Flash!Export,
         FP!Export, Flash!ProbeFault, FP!ProbeFault, Flash!ExportFault,
         FP!ExportFault, Flash!vars, FP!vars
<1>2. Flash!ProbeAndExport <=> FP!ProbeAndExport
  BY SMTT(30) DEF Flash!ProbeAndExport, FP!ProbeAndExport, Flash!Export, FP!Export
<1>3. /\ Flash!Boot <=> FP!Boot
      /\ Flash!BootWithReadFault <=> FP!BootWithReadFault
  BY Zenon DEF Flash!Boot, FP!Boot, Flash!BootWithReadFault, FP!BootWithReadFault,
         Flash!env_relocate_spec, FP!env_relocate_spec, Flash!SelectCopy,
         FP!SelectCopy, Flash!CheckFlags, FP!CheckFlags, Flash!crc_ok,
         FP!crc_ok, Flash!Copies, FP!Copies, Flash!ACTIVE_FLAG,
         FP!ACTIVE_FLAG, Flash!OBSOLETE_FLAG, FP!OBSOLETE_FLAG, Flash!ERASED,
         FP!ERASED
<1>4. /\ Flash!Erase <=> FP!Erase
      /\ Flash!WriteHead <=> FP!WriteHead
      /\ Flash!WriteBody <=> FP!WriteBody
  BY DEF Flash!Erase, FP!Erase, Flash!WriteHead, FP!WriteHead,
         Flash!WriteBody, FP!WriteBody, Flash!MediaStep, FP!MediaStep,
         Flash!Other, FP!Other, Flash!ErasedCopy, FP!ErasedCopy,
         Flash!ERASED, FP!ERASED, Flash!ACTIVE_FLAG, FP!ACTIVE_FLAG
<1>5. /\ Flash!MarkObsolete <=> FP!MarkObsolete
      /\ Flash!FlashFault <=> FP!FlashFault
  BY SMTT(30) DEF Flash!MarkObsolete, FP!MarkObsolete, Flash!FlashFault,
         FP!FlashFault, Flash!ReturnSuccess, FP!ReturnSuccess,
         Flash!ReturnError, FP!ReturnError, Flash!OBSOLETE_FLAG,
         FP!OBSOLETE_FLAG
<1>6. Flash!NorBoot <=> FP!NorBoot
  BY DEF Flash!NorBoot, FP!NorBoot, Flash!SelectCopy, FP!SelectCopy,
         Flash!CheckFlags, FP!CheckFlags, Flash!crc_ok, FP!crc_ok,
         Flash!Copies, FP!Copies, Flash!ACTIVE_FLAG, FP!ACTIVE_FLAG,
         Flash!OBSOLETE_FLAG, FP!OBSOLETE_FLAG, Flash!ERASED, FP!ERASED
<1>7. /\ Flash!RepairOther <=> FP!RepairOther
      /\ Flash!RepairCurrent <=> FP!RepairCurrent
      /\ Flash!RepairFault <=> FP!RepairFault
  BY DEF Flash!RepairOther, FP!RepairOther, Flash!RepairCurrent,
         FP!RepairCurrent, Flash!RepairFault, FP!RepairFault,
         Flash!MediaStep, FP!MediaStep, Flash!Other, FP!Other, Flash!crc_ok,
         FP!crc_ok, Flash!OBSOLETE_FLAG, FP!OBSOLETE_FLAG, Flash!ERASED,
         FP!ERASED, Flash!ACTIVE_FLAG, FP!ACTIVE_FLAG
<1>8. /\ Flash!NorMarkObsolete <=> FP!NorMarkObsolete
      /\ Flash!Finish <=> FP!Finish
      /\ Flash!WriteFault <=> FP!WriteFault
      /\ Flash!UnreportedFault <=> FP!UnreportedFault
  BY SMTT(30) DEF Flash!NorMarkObsolete, FP!NorMarkObsolete, Flash!Finish, FP!Finish,
         Flash!WriteFault, FP!WriteFault, Flash!UnreportedFault,
         FP!UnreportedFault, Flash!MediaStep, FP!MediaStep, Flash!Other,
         FP!Other, Flash!OBSOLETE_FLAG, FP!OBSOLETE_FLAG,
         Flash!ReturnSuccess, FP!ReturnSuccess, Flash!ReturnError,
         FP!ReturnError
<1>9. /\ Flash!fw_env_open <=> FP!fw_env_open
      /\ Flash!fw_env_write <=> FP!fw_env_write
      /\ Flash!fw_env_close <=> FP!fw_env_close
      /\ Flash!FwFault <=> FP!FwFault
  BY DEF Flash!fw_env_open, FP!fw_env_open, Flash!fw_env_write,
         FP!fw_env_write, Flash!fw_env_close, FP!fw_env_close, Flash!FwFault,
         FP!FwFault, Flash!SelectCopy, FP!SelectCopy, Flash!CheckFlags,
         FP!CheckFlags, Flash!crc_ok, FP!crc_ok, Flash!Copies, FP!Copies,
         Flash!ACTIVE_FLAG, FP!ACTIVE_FLAG, Flash!OBSOLETE_FLAG,
         FP!OBSOLETE_FLAG, Flash!ERASED, FP!ERASED
<1>10. /\ Flash!FwErase <=> FP!FwErase
       /\ Flash!FwWriteHead <=> FP!FwWriteHead
       /\ Flash!FwWriteBody <=> FP!FwWriteBody
  BY DEF Flash!FwErase, FP!FwErase, Flash!FwWriteHead, FP!FwWriteHead,
         Flash!FwWriteBody, FP!FwWriteBody, Flash!MediaStep, FP!MediaStep,
         Flash!dev_target, FP!dev_target, Flash!Other, FP!Other,
         Flash!ErasedCopy, FP!ErasedCopy, Flash!ERASED, FP!ERASED,
         Flash!ACTIVE_FLAG, FP!ACTIVE_FLAG
<1>11. /\ Flash!flash_flag_obsolete(TRUE) <=> FP!flash_flag_obsolete(TRUE)
       /\ Flash!flash_flag_obsolete(FALSE) <=> FP!flash_flag_obsolete(FALSE)
  BY SMTT(30) DEF Flash!flash_flag_obsolete, FP!flash_flag_obsolete,
         Flash!OBSOLETE_FLAG, FP!OBSOLETE_FLAG
<1> QED
  BY ZenonT(30), <1>1, <1>2, <1>3, <1>4, <1>5, <1>6, <1>7, <1>8, <1>9, <1>10,
     <1>11, Zenon
  DEF Flash!FlashNext, FP!FlashNext, Flash!SfNext, FP!SfNext,
        Flash!NorNext, FP!NorNext, Flash!FwNext, FP!FwNext

(* They start alike and state the same properties.                          *)
LEMMA SameFlash ==
  /\ Flash!FlashInit <=> FP!FlashInit
  /\ Flash!FlashTypeOK <=> FP!FlashTypeOK
  /\ Flash!AlwaysLoadable <=> FP!AlwaysLoadable
  /\ Flash!SavedIsLoaded <=> FP!SavedIsLoaded
  /\ Flash!KeepsInUse <=> FP!KeepsInUse
  /\ Flash!StepsAsStore <=> FP!StepsAsStore
<1>1. Flash!FlashInit <=> FP!FlashInit
  BY SMTT(30) DEF Flash!FlashInit, FP!FlashInit, Flash!SfInit, FP!SfInit, Flash!Init,
         FP!Init, Flash!FirstMedia, FP!FirstMedia, Flash!Copies, FP!Copies,
         Flash!GoodCopy, FP!GoodCopy, Flash!ErasedCopy, FP!ErasedCopy,
         Flash!Loads, FP!Loads, Flash!SelectCopy, FP!SelectCopy,
         Flash!CheckFlags, FP!CheckFlags, Flash!crc_ok, FP!crc_ok,
         Flash!ACTIVE_FLAG, FP!ACTIVE_FLAG, Flash!OBSOLETE_FLAG,
         FP!OBSOLETE_FLAG, Flash!ERASED, FP!ERASED
<1>2. Flash!FlashTypeOK <=> FP!FlashTypeOK
  BY SMTT(30) DEF Flash!FlashTypeOK, FP!FlashTypeOK, Flash!TypeOK, FP!TypeOK,
         Flash!FwPcs, FP!FwPcs, Flash!SfTypeOK, FP!SfTypeOK,
         Flash!NorTypeOK, FP!NorTypeOK, Flash!env_t, FP!env_t,
         Flash!Flags, FP!Flags, Flash!Copies, FP!Copies,
         Flash!ACTIVE_FLAG, FP!ACTIVE_FLAG, Flash!OBSOLETE_FLAG,
         FP!OBSOLETE_FLAG, Flash!ERASED, FP!ERASED
<1>3. /\ Flash!AlwaysLoadable <=> FP!AlwaysLoadable
      /\ Flash!SavedIsLoaded <=> FP!SavedIsLoaded
      /\ Flash!KeepsInUse <=> FP!KeepsInUse
  BY SMTT(30) DEF Flash!AlwaysLoadable, FP!AlwaysLoadable, Flash!SavedIsLoaded,
         FP!SavedIsLoaded, Flash!Unreported, FP!Unreported,
         Flash!KeepsInUse, FP!KeepsInUse, Flash!HasGood, FP!HasGood,
         Flash!Loads, FP!Loads, Flash!SelectCopy, FP!SelectCopy,
         Flash!CheckFlags, FP!CheckFlags, Flash!crc_ok, FP!crc_ok,
         Flash!Copies, FP!Copies, Flash!ACTIVE_FLAG, FP!ACTIVE_FLAG,
         Flash!OBSOLETE_FLAG, FP!OBSOLETE_FLAG, Flash!ERASED, FP!ERASED
<1>4. Flash!StepsAsStore <=> FP!StepsAsStore
  BY SMTT(30) DEF Flash!StepsAsStore, FP!StepsAsStore, Flash!Unreported, FP!Unreported,
         Flash!Store!StoreNext, FP!Store!StoreNext, Flash!Store!Boot,
         FP!Store!Boot, Flash!Store!Edit, FP!Store!Edit,
         Flash!Store!Attempt, FP!Store!Attempt, Flash!Store!Commit,
         FP!Store!Commit, Flash!Store!Cut, FP!Store!Cut
<1> QED
  BY <1>1, <1>2, <1>3, <1>4, ZenonT(30)

(* What is proved of the copies with an active and an obsolete flag.        *)
LEMMA FlashSteps ==
  /\ FP!FlashInit => FP!FInv
  /\ FP!FInv /\ [FP!FlashNext]_FP!flashVars => FP!FInv'
  /\ FP!FTInv /\ [FP!FlashNext]_FP!flashVars => FP!KeepsInUse
  /\ FP!FInv /\ [FP!FlashNext]_FP!flashVars =>
       [FP!StepsAsStore]_<<env, committed, tried>>
  /\ FP!FTInv => FP!FlashTypeOK
  /\ FP!FInv => FP!AlwaysLoadable /\ FP!SavedIsLoaded
  BY SMTT(30), EnvAssumption, FaultAssumption, FP!FlashInitInv, FP!FlashInvStep,
     FP!InUseStep, FP!StoreStep, FP!FlashTypesHold, FP!FlashCrashHolds
-----------------------------------------------------------------------------
(* A single copy: while a save is under way its environment is among those  *)
(* tried, and while none is a boot loads what was settled last.             *)
SingleInv ==
  /\ Single!SingleTypeOK
  /\ pc \in {"erase", "write"} => env_new \in tried
  /\ medium # "nor" \/ writeFaults = 0 =>
       /\ tried = {} => Single!env_import(media) = committed
       /\ Single!env_import(media) \in {committed, DefaultEnv} \cup tried

(* A single copy at the first boot.                                         *)
LEMMA SingleInitInv == Single!Init => SingleInv
<1> SUFFICES ASSUME Single!Init PROVE SingleInv
  BY SMTT(30)
<1>1. /\ media \in Single!env_t
      /\ Single!env_import(media) \in Envs
  BY EnvAssumption DEF Single!Init, Single!env_t, Single!BadCopy,
                       Single!GoodCopy, Single!env_import
<1>2. /\ readFaults \in 0 .. MaxReadFaults
      /\ writeFaults \in 0 .. MaxWriteFaults
  BY FaultAssumption DEF Single!Init
<1>3. Single!SingleTypeOK
  BY <1>1, <1>2, EnvAssumption, ZenonT(30) DEF Single!Init, Single!SingleTypeOK
<1> QED
  BY <1>3 DEF SingleInv, Single!Init

(* No step of a save, boot or fault leaves the types.                       *)
LEMMA SingleTypeStep ==
  ASSUME Single!SingleTypeOK, Single!Next
  PROVE  Single!SingleTypeOK'
<1>1. media' \in Single!env_t
  BY SMTT(30), EnvAssumption
  DEF Single!SingleTypeOK, Single!Next, Single!env_relocate_spec,
      Single!BootWithReadFault, Single!SetEnv, Single!PowerCut,
      Single!ProbeFault, Single!Export, Single!Erase, Single!WriteSome,
      Single!WriteRest, Single!SaveFault, Single!env_t, Single!BadCopy,
      Single!GoodCopy
<1>2. /\ env' \in Envs \cup {Off} /\ env_new' \in Envs /\ medium' = medium
      /\ pc' \in {"off", "idle", "erase", "write"}
      /\ pc' = "off" <=> env' = Off
      /\ committed' \in Envs /\ tried' \subseteq Envs
  <2>1. Single!env_import(media) \in Envs
    BY SMTT(30), EnvAssumption DEF Single!SingleTypeOK, Single!env_t, Single!env_import
  <2> QED
    BY <2>1, EnvAssumption, Zenon
    DEF Single!SingleTypeOK, Single!Next, Single!env_relocate_spec,
        Single!BootWithReadFault, Single!SetEnv, Single!PowerCut,
        Single!ProbeFault, Single!Export, Single!Erase, Single!WriteSome,
        Single!WriteRest, Single!SaveFault
<1>3. /\ readFaults' \in 0 .. MaxReadFaults
      /\ writeFaults' \in 0 .. MaxWriteFaults
  BY SMTT(30), FaultAssumption
  DEF Single!SingleTypeOK, Single!Next, Single!env_relocate_spec,
      Single!BootWithReadFault, Single!SetEnv, Single!PowerCut,
      Single!ProbeFault, Single!Export, Single!Erase, Single!WriteSome,
      Single!WriteRest, Single!SaveFault
<1>4. env_flash' \in BOOLEAN
  BY ZenonT(30)
  DEF Single!SingleTypeOK, Single!Next, Single!env_relocate_spec,
      Single!BootWithReadFault, Single!SetEnv, Single!PowerCut,
      Single!ProbeFault, Single!Export, Single!Erase, Single!WriteSome,
      Single!WriteRest, Single!SaveFault
<1>5. medium' \in Single!Media
  BY SMTT(30), <1>2 DEF Single!SingleTypeOK
<1> QED
  BY <1>1, <1>2, <1>3, <1>4, <1>5, ZenonT(30) DEF Single!SingleTypeOK

(* Every step of saveenv(), of a boot and of a fault keeps the invariant.   *)
LEMMA SingleStep == SingleInv /\ Single!Next => SingleInv'
<1> SUFFICES ASSUME SingleInv, Single!Next PROVE SingleInv'
  OBVIOUS
<1>t. Single!SingleTypeOK /\ Single!SingleTypeOK'
  BY SMTT(30), SingleTypeStep DEF SingleInv
<1>f. /\ writeFaults \in Nat
      /\ env_new \in Envs /\ committed \in Envs /\ tried \subseteq Envs
  BY SMTT(30), <1>t DEF Single!SingleTypeOK
<1> SUFFICES /\ pc' \in {"erase", "write"} => env_new' \in tried'
             /\ medium' # "nor" \/ writeFaults' = 0 =>
                  /\ tried' = {} => Single!env_import(media') = committed'
                  /\ Single!env_import(media')
                       \in {committed', DefaultEnv} \cup tried'
  BY SMTT(30), <1>t DEF SingleInv, Single!env_import
<1>1. CASE Single!env_relocate_spec
  BY SMTT(30), <1>1 DEF SingleInv, Single!env_relocate_spec, Single!env_import
<1>2. CASE \/ Single!BootWithReadFault \/ Single!SetEnv \/ Single!PowerCut
           \/ Single!ProbeFault
  BY SMTT(30), <1>2, <1>f DEF SingleInv, Single!BootWithReadFault, Single!SetEnv,
                    Single!PowerCut, Single!ProbeFault, Single!env_import
<1>3. CASE Single!Export
  BY SMTT(30), <1>3 DEF SingleInv, Single!Export, Single!env_import
<1>4. CASE Single!Erase
  <2>1. Single!env_import(media') = DefaultEnv
    BY SMTT(30), <1>4, EnvAssumption DEF Single!Erase, Single!env_import, Single!BadCopy
  <2> QED
    BY SMTT(30), <1>4, <2>1 DEF SingleInv, Single!Erase
<1>5. CASE Single!WriteSome
  <2>1. Single!env_import(media') \in {env_new, DefaultEnv}
    BY SMTT(30), <1>5 DEF Single!WriteSome, Single!env_import
  <2> QED
    BY SMTT(30), <1>5, <2>1 DEF SingleInv, Single!WriteSome
<1>6. CASE Single!WriteRest
  <2>1. Single!env_import(media') = env_new
    BY SMTT(30), <1>6 DEF Single!WriteRest, Single!env_import, Single!GoodCopy
  <2> QED
    BY SMTT(30), <1>6, <2>1 DEF SingleInv, Single!WriteRest
<1>7. CASE Single!SaveFault
  BY SMTT(30), <1>7, <1>f DEF SingleInv, Single!SaveFault, Single!env_import
<1> QED
  BY SMTT(30), <1>1, <1>2, <1>3, <1>4, <1>5, <1>6, <1>7 DEF Single!Next

-----------------------------------------------------------------------------
(* The invariant of the driver the board is built with.                     *)
BInv ==
  /\ redundant \in BOOLEAN
  /\ medium \in {"mmc", "nand", "sf", "nor"}
  /\ OnSerial => SP!SInv /\ SP!KInv
  /\ OnFlash => FP!FInv
  /\ ~redundant => SingleInv

(* A board's step is one of its own driver, and its driver stays the same.  *)
LEMMA BoardSteps ==
  ASSUME redundant \in BOOLEAN, medium \in {"mmc", "nand", "sf", "nor"},
         [BoardNext]_boardVars
  PROVE  /\ UNCHANGED <<redundant, medium>>
         /\ OnSerial => [SP!SerialNext]_SP!serialVars
         /\ OnFlash => [FP!FlashNext]_FP!flashVars
         /\ ~redundant => Single!Next \/ UNCHANGED boardVars
<1>1. CASE UNCHANGED boardVars
  BY <1>1 DEF boardVars, SP!serialVars, SP!vars, FP!flashVars, FP!vars
<1>2. CASE BoardNext
  <2>1. redundant' = redundant
    BY SMTT(30), <1>2 DEF BoardNext
  <2>2. CASE OnSerial /\ Serial!SerialNext
    <3>1. medium' = medium
      BY SMTT(30), <2>2 DEF Serial!SerialNext
    <3> QED
      BY SMTT(30), <2>1, <2>2, <3>1, SameSerialNext DEF OnSerial, OnFlash
  <2>3. CASE OnFlash /\ Flash!FlashNext
    <3>1. medium' = medium
      BY SMTT(30), <2>3 DEF Flash!FlashNext
    <3> QED
      BY SMTT(30), <2>1, <2>3, <3>1, SameFlashNext DEF OnSerial, OnFlash
  <2>4. CASE ~redundant /\ Single!Next
    <3>1. medium' = medium
      BY SMTT(30), <2>4
      DEF Single!Next, Single!env_relocate_spec, Single!BootWithReadFault,
          Single!SetEnv, Single!PowerCut, Single!ProbeFault, Single!Export,
          Single!Erase, Single!WriteSome, Single!WriteRest, Single!SaveFault
    <3> QED
      BY SMTT(30), <2>1, <2>4, <3>1 DEF OnSerial, OnFlash
  <2> QED
    BY <1>2, <2>2, <2>3, <2>4, ZenonT(30) DEF BoardNext
<1> QED
  BY SMTT(30), <1>1, <1>2

(* The first boot, whatever holds the environment.                          *)
LEMMA BoardInitInv == BoardInit => BInv
<1> SUFFICES ASSUME BoardInit PROVE BInv
  OBVIOUS
<1>1. CASE redundant = TRUE /\ Serial!SerialInit
  <2>1. medium \in {"mmc", "nand"}
    BY SMTT(30), <1>1 DEF Serial!SerialInit
  <2> QED
    BY SMTT(30), <1>1, <2>1, SameSerial, SerialSteps DEF BInv, OnFlash
<1>2. CASE redundant = TRUE /\ Flash!FlashInit
  <2>1. medium \in {"sf", "nor"}
    BY SMTT(30), <1>2 DEF Flash!FlashInit
  <2> QED
    BY SMTT(30), <1>2, <2>1, SameFlash, FlashSteps DEF BInv, OnSerial
<1>3. CASE redundant = FALSE /\ Single!Init
  BY ZenonT(30), <1>3, SingleInitInv DEF BInv, OnSerial, OnFlash, Single!Init, Single!Media
<1> QED
  BY <1>1, <1>2, <1>3, ZenonT(30) DEF BoardInit

(* Every step keeps the invariant of the layout that is configured.         *)
LEMMA BoardStep == BInv /\ [BoardNext]_boardVars => BInv'
<1> SUFFICES ASSUME BInv, [BoardNext]_boardVars PROVE BInv'
  OBVIOUS
<1>1. /\ UNCHANGED <<redundant, medium>>
      /\ OnSerial => [SP!SerialNext]_SP!serialVars
      /\ OnFlash => [FP!FlashNext]_FP!flashVars
      /\ ~redundant => Single!Next \/ UNCHANGED boardVars
  BY BoardSteps DEF BInv
<1>2. OnSerial => (SP!SInv /\ SP!KInv)'
  BY SMTT(30), <1>1, SerialSteps DEF BInv
<1>3. OnFlash => FP!FInv'
  BY SMTT(30), <1>1, FlashSteps DEF BInv
<1>4. ~redundant => SingleInv'
  <2>1. CASE Single!Next
    BY SMTT(30), <2>1, SingleStep DEF BInv
  <2>2. CASE UNCHANGED boardVars
    BY SMTT(30), <2>2 DEF BInv, boardVars, SingleInv, Single!SingleTypeOK,
                Single!env_import
  <2> QED
    BY SMTT(30), <1>1, <2>1, <2>2
<1> QED
  BY SMTT(30), <1>1, <1>2, <1>3, <1>4 DEF BInv, OnSerial, OnFlash

(* What the invariant says of each driver.                                  *)
LEMMA BoardHolds == BInv => BoardTypeOK /\ AlwaysLoadable /\ SaveIsKept
<1> SUFFICES ASSUME BInv PROVE BoardTypeOK /\ AlwaysLoadable /\ SaveIsKept
  OBVIOUS
<1>1. CASE OnSerial
  <2>1. SP!STInv
    BY SMTT(30), <1>1 DEF BInv, SP!SInv
  <2> QED
    BY SMTT(30), <1>1, <2>1, SameSerial, SerialSteps
    DEF BInv, BoardTypeOK, AlwaysLoadable, SaveIsKept
<1>2. CASE OnFlash
  <2>1. FP!FTInv /\ ~OnSerial
    BY SMTT(30), <1>2 DEF BInv, FP!FInv, OnFlash, OnSerial
  <2> QED
    BY SMTT(30), <1>2, <2>1, SameFlash, FlashSteps
    DEF BInv, BoardTypeOK, AlwaysLoadable, SaveIsKept
<1>3. CASE ~redundant
  <2>1. SingleInv /\ ~OnSerial /\ ~OnFlash
    BY <1>3 DEF BInv, OnSerial, OnFlash
  <2> QED
    BY SMTT(30), <2>1 DEF BoardTypeOK, AlwaysLoadable, SaveIsKept, SingleInv,
                Single!WholeOrDefault, Single!SavedIsLoaded
<1> QED
  BY SMTT(30), <1>1, <1>2, <1>3 DEF BInv, OnSerial, OnFlash

-----------------------------------------------------------------------------
(* The variables keep their types on every medium, whatever fails.          *)
THEOREM BoardTypes == BoardSpec => []BoardTypeOK
  BY BoardInitInv, BoardStep, BoardHolds, PTL DEF BoardSpec

(* Whatever driver the board is built with, a reset at any moment loads a   *)
(* whole environment: the last one saved or one that was being saved; on    *)
(* the E9 board, with its single copy, perhaps the default instead.         *)
THEOREM BoardCrashSafety == BoardSpec => []AlwaysLoadable
  BY BoardInitInv, BoardStep, BoardHolds, PTL DEF BoardSpec

(* What a save reported as done is what the next boot loads; on two copies  *)
(* with serials but for the faults that LostOnlyAfterFaults names.          *)
THEOREM BoardSaveIsKept == BoardSpec => []SaveIsKept
  BY BoardInitInv, BoardStep, BoardHolds, PTL DEF BoardSpec

(* On no medium with two copies does a step cost the good copy in use while *)
(* there is no other, but for the second attempt of a save on NAND.         *)
THEOREM BoardInUseKept == BoardSpec => InUseKept
<1>1. BInv /\ [BoardNext]_boardVars =>
        [/\ OnSerial => Serial!KeepsInUse
         /\ OnFlash => Flash!KeepsInUse]_boardVars
  <2> SUFFICES ASSUME BInv, [BoardNext]_boardVars
               PROVE  /\ OnSerial => Serial!KeepsInUse
                      /\ OnFlash => Flash!KeepsInUse
    OBVIOUS
  <2>1. /\ OnSerial => [SP!SerialNext]_SP!serialVars
        /\ OnFlash => [FP!FlashNext]_FP!flashVars
    BY SMTT(30), BoardSteps DEF BInv
  <2>2. (OnSerial => SP!STInv) /\ (OnFlash => FP!FTInv)
    BY DEF BInv, SP!SInv, FP!FInv
  <2> QED
    BY SMTT(30), <2>1, <2>2, SameSerial, SameFlash, SerialSteps, FlashSteps
<1> QED
  BY <1>1, BoardInitInv, BoardStep, PTL DEF BoardSpec, InUseKept

(* Two copies in flash are one durable environment although calls fail.     *)
THEOREM BoardFlashIsStore == BoardSpec => FlashIsStore
<1>1. BInv /\ [BoardNext]_boardVars =>
        [OnFlash => Flash!StepsAsStore]_<<env, committed, tried>>
  <2> SUFFICES ASSUME BInv, [BoardNext]_boardVars, OnFlash
               PROVE  [Flash!StepsAsStore]_<<env, committed, tried>>
    OBVIOUS
  <2>1. [FP!FlashNext]_FP!flashVars /\ FP!FInv
    BY BoardSteps DEF BInv
  <2> QED
    BY SMTT(30), <2>1, SameFlash, FlashSteps
<1> QED
  BY <1>1, BoardInitInv, BoardStep, PTL DEF BoardSpec, FlashIsStore
=============================================================================
