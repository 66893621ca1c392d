-------------------------- MODULE EnvFlashProofs ----------------------------
(* Proofs about the two copies with an active/obsolete flag, in SPI and in  *)
(* NOR flash, when U-Boot and fw_setenv of Linux write them in turns, for   *)
(* all environments and any number of failing calls.                        *)
EXTENDS EnvFlash, TLAPS

(* The copy that is not in use.                                              *)
Spare == Other(current)

(* A writer is between its export and its last write.                       *)
FwSaving == {"fwErase", "fwHead", "fwBody", "fwMark"}
Saving == pc \in {"erase", "head", "body", "mark", "rest"} \cup FwSaving
Repairing == pc \in {"repairOther", "repairCurrent"}

FTInv ==
  /\ TypeOK
  /\ medium \in {"sf", "nor"}
  /\ env_flash \in BOOLEAN
  /\ unmarked \in BOOLEAN
  /\ Saving \/ Repairing \/ pc \in {"off", "idle", "fw", "fwDone"}
  /\ pc = "rest" \/ Repairing => medium = "nor"
  /\ pc = "off" <=> env = Off

(* What a save has written of the other copy at each of its steps.          *)
ImageInv ==
  /\ Saving => env_new = env /\ env \in tried
  /\ pc \in {"head", "fwHead"} => media[Spare] = ErasedCopy
  /\ pc \in {"body", "fwBody"} =>
       media[Spare] = [ErasedCopy EXCEPT !.crc = env_new, !.flags = ACTIVE_FLAG]
  /\ pc \in {"mark", "fwMark", "rest"} =>
       media[Spare] = GoodCopy(env_new, ACTIVE_FLAG)
  /\ pc = "rest" => media[current].flags = OBSOLETE_FLAG

(* While no save is unfinished, a boot loads what was settled last.         *)
SettledInv == tried = {} /\ ~Unreported => Loads(media) = committed

(* The repair of the flags does not change which copy a boot takes.         *)
RepairInv ==
  Repairing /\ ~Unreported =>
    /\ tried = {}
    /\ SelectCopy(media, Copies) = current
    /\ pc = "repairCurrent" /\ crc_ok(media, Spare) =>
         media[Spare].flags = OBSOLETE_FLAG

(* The copy in use holds the committed environment, and a boot takes it     *)
(* unless the other one holds what a save since then has tried to write.    *)
InUseInv ==
  pc \notin {"off", "fwDone"} =>
    /\ \/ SelectCopy(media, Copies) \in {0, current}
       \/ media[Spare].data \in tried
    /\ IF crc_ok(media, current) THEN media[current].data = committed
       ELSE committed = DefaultEnv

(* The strengthening of AlwaysLoadable and SavedIsLoaded that every step of *)
(* U-Boot and of fw_setenv keeps.                                           *)
FInv ==
  /\ FTInv
  /\ ImageInv
  /\ SettledInv
  /\ RepairInv
  /\ readFaults = 0 /\ ~Unreported => AlwaysLoadable /\ InUseInv

-----------------------------------------------------------------------------
USE EnvAssumption, FaultAssumption

(* Which copy a boot takes.                                                 *)
LEMMA SelectCases ==
  ASSUME NEW m \in [Copies -> env_t]
  PROVE  /\ SelectCopy(m, Copies) \in {0, 1, 2}
         /\ SelectCopy(m, Copies) = 0 <=> ~crc_ok(m, 1) /\ ~crc_ok(m, 2)
         /\ SelectCopy(m, Copies) # 0 => crc_ok(m, SelectCopy(m, Copies))
         /\ \A v \in Copies : ~crc_ok(m, Other(v)) =>
                               SelectCopy(m, Copies) \in {0, v}
  BY DEF SelectCopy, CheckFlags, Copies, Other

(* A boot that can read only some of the copies.                            *)
LEMMA SelectedTypes ==
  ASSUME TypeOK, NEW readable \in SUBSET Copies
  PROVE  /\ SelectCopy(media, readable) \in {0, 1, 2}
         /\ SelectCopy(media, readable) # 0 =>
              media[SelectCopy(media, readable)].data \in Envs
<1>1. SelectCopy(media, readable) \in {0, 1, 2}
  BY DEF SelectCopy, CheckFlags
<1>2. SelectCopy(media, readable) # 0 =>
        crc_ok(media, SelectCopy(media, readable))
  BY DEF SelectCopy, CheckFlags
<1> QED
  BY <1>1, <1>2 DEF TypeOK, crc_ok, env_t, Copies

(* There are two copies, and the other one of the other is the first.       *)
LEMMA Others ==
  ASSUME NEW v \in Copies
  PROVE  /\ Other(v) \in Copies /\ Other(v) # v /\ Other(Other(v)) = v
         /\ (IF v = 2 THEN 1 ELSE 2) = Other(v)
  BY DEF Other, Copies

(* A copy that is written and one that is erased.                           *)
LEMMA CopyTypes ==
  ASSUME NEW e \in Envs, NEW f \in Flags
  PROVE  GoodCopy(e, f) \in env_t /\ ErasedCopy \in env_t
  BY DEF GoodCopy, ErasedCopy, env_t, Flags

(* A complete active copy beside an obsolete one is what a boot loads.      *)
LEMMA MarkedIsTaken ==
  ASSUME NEW m \in [Copies -> env_t], NEW v \in Copies, NEW e \in Envs,
         m[Other(v)] = GoodCopy(e, ACTIVE_FLAG),
         m[v].flags = OBSOLETE_FLAG
  PROVE  SelectCopy(m, Copies) = Other(v) /\ Loads(m) = e
<1>1. /\ crc_ok(m, Other(v)) /\ m[Other(v)].flags = ACTIVE_FLAG
      /\ m[Other(v)].data = e
  BY DEF crc_ok, GoodCopy
<1>2. SelectCopy(m, Copies) = Other(v)
  BY <1>1 DEF SelectCopy, CheckFlags, Copies, Other, ACTIVE_FLAG,
              OBSOLETE_FLAG, ERASED
<1> QED
  BY <1>1, <1>2, Others DEF Loads, Copies

(* The two repairs of env_relocate_spec() in NOR flash leave the choice.    *)
LEMMA RepairsKeepChoice ==
  ASSUME NEW m \in [Copies -> env_t], NEW n \in [Copies -> env_t],
         NEW v \in Copies, SelectCopy(m, Copies) = v,
         crc_ok(n, 1) <=> crc_ok(m, 1), crc_ok(n, 2) <=> crc_ok(m, 2),
         \/ n[v].flags = m[v].flags
         \/ n[v].flags = ACTIVE_FLAG,
         crc_ok(m, Other(v)) => n[Other(v)].flags = OBSOLETE_FLAG
  PROVE  SelectCopy(n, Copies) = v
<1>1. crc_ok(m, v)
  BY SelectCases DEF Copies
<1>2. CASE ~crc_ok(m, Other(v))
  BY <1>1, <1>2 DEF SelectCopy, Copies, Other
<1>3. CASE crc_ok(m, Other(v))
  <2>1. CheckFlags(m[1].flags, m[2].flags) = v
    BY <1>1, <1>3 DEF SelectCopy, Copies, Other
  <2>2. m[1].flags \in Flags /\ m[2].flags \in Flags
    BY DEF env_t, Copies
  <2>3. CheckFlags(n[1].flags, n[2].flags) = v
    BY <1>3, <2>1, <2>2 DEF CheckFlags, Copies, Other, Flags, ACTIVE_FLAG,
                            OBSOLETE_FLAG, ERASED
  <2> QED
    BY <1>1, <1>3, <2>3 DEF SelectCopy, Copies, Other
<1> QED
  BY <1>2, <1>3

(* When the copy in use v holds com, and a boot takes it or something that  *)
(* was tried, the boot loads com or something that was tried.               *)
LEMMA LoadsInUse ==
  ASSUME NEW m \in [Copies -> env_t], NEW v \in Copies, NEW com, NEW tr,
         \/ SelectCopy(m, Copies) \in {0, v}
         \/ m[Other(v)].data \in tr,
         IF crc_ok(m, v) THEN m[v].data = com ELSE com = DefaultEnv
  PROVE  Loads(m) \in {com} \cup tr
<1>1. SelectCopy(m, Copies) \in {0, v, Other(v)} /\ v # 0 /\ Other(v) # 0
  BY SelectCases DEF Other, Copies
<1>2. CASE SelectCopy(m, Copies) = 0
  BY <1>2, SelectCases DEF Loads, Copies
<1>3. CASE SelectCopy(m, Copies) = v
  BY <1>1, <1>3, SelectCases DEF Loads, Copies
<1>4. CASE SelectCopy(m, Copies) = Other(v)
  BY <1>1, <1>4, Others DEF Loads
<1> QED
  BY <1>1, <1>2, <1>3, <1>4

(* The invariant holds of a board that is off.                              *)
LEMMA FlashInitInv == FlashInit => FInv
<1> SUFFICES ASSUME FlashInit PROVE FInv
  OBVIOUS
<1> USE DEF FlashInit, SfInit, Init
<1>1. media \in [Copies -> env_t]
  <2>1. ErasedCopy \in env_t /\ \A e \in Envs, f \in Flags :
          GoodCopy(e, f) \in env_t
    BY CopyTypes DEF Flags
  <2>2. CASE media = <<ErasedCopy, ErasedCopy>>
    BY <2>1, <2>2 DEF Copies
  <2>3. CASE media \in {<<GoodCopy(e, ERASED), ErasedCopy>> : e \in Envs}
    BY <2>1, <2>3 DEF Copies, Flags
  <2>4. CASE media \in
        {[c \in Copies |-> IF c = new THEN GoodCopy(e, ACTIVE_FLAG) ELSE old] :
           new \in Copies, e \in Envs,
           old \in {ErasedCopy} \cup {GoodCopy(x, OBSOLETE_FLAG) : x \in Envs}}
    BY <2>1, <2>4 DEF Flags
  <2> QED
    BY <2>2, <2>3, <2>4 DEF FirstMedia
<1>2. Loads(media) \in Envs
  BY <1>1, SelectCases DEF Loads, crc_ok, env_t, Copies
<1>b. env_flash \in BOOLEAN /\ unmarked \in BOOLEAN
  BY Zenon
<1>3. FTInv
  <2>1. TypeOK
    BY <1>1, <1>2 DEF TypeOK, Copies
  <2> QED
    BY <1>b, <2>1 DEF FTInv, Saving, FwSaving, Repairing
<1> QED
  BY <1>3 DEF FInv, ImageInv, SettledInv, RepairInv, InUseInv, AlwaysLoadable,
              Saving, FwSaving, Repairing

(* A step of the medium that writes a copy of the right type.               *)
LEMMA MediaTypes ==
  ASSUME TypeOK, env_new \in Envs, env_new' = env_new,
         NEW c \in Copies,
         \/ media' = media
         \/ media' = [media EXCEPT ![c] = ErasedCopy]
         \/ media' = [media EXCEPT ![c].crc = env_new, ![c].flags = ACTIVE_FLAG]
         \/ media' = [media EXCEPT ![c].data = env_new]
         \/ \E f \in Flags : media' = [media EXCEPT ![c].flags = f]
  PROVE  media' \in [Copies -> env_t]
<1>1. media \in [Copies -> env_t] /\ ErasedCopy \in env_t
  BY CopyTypes DEF TypeOK, Flags
<1> QED
  BY <1>1 DEF env_t, Flags

(* Every step keeps the types.                                              *)
LEMMA FlashTypeStep == FTInv /\ [FlashNext]_flashVars => FTInv'
<1> SUFFICES ASSUME FTInv, [FlashNext]_flashVars PROVE FTInv'
  OBVIOUS
<1>t. /\ TypeOK /\ env_new \in Envs /\ current \in Copies /\ Spare \in Copies
      /\ Other(current) = Spare
  BY Others DEF FTInv, TypeOK, Spare
<1>f. ACTIVE_FLAG \in Flags /\ OBSOLETE_FLAG \in Flags /\ ERASED \in Flags
  BY DEF Flags
<1>u. (IF current = 2 THEN 1 ELSE 2) = Spare
  BY <1>t, Others DEF Spare
<1>0. ASSUME NEW readable \in SUBSET Copies, env_relocate_spec(readable)
      PROVE  /\ env' \in Envs /\ current' \in Copies /\ media' = media
             /\ env_new' = env_new /\ writeFaults' = writeFaults
             /\ pc' = "idle" /\ env' # Off
  BY <1>0, <1>t, SelectedTypes DEF env_relocate_spec, Copies
<1> USE DEF FTInv, TypeOK, Saving, FwSaving, Repairing
<1>1. CASE Boot /\ UNCHANGED <<unmarked, medium>>
  <2>1. env_relocate_spec(Copies) /\ Copies \in SUBSET Copies
    BY <1>1 DEF Boot
  <2> QED
    BY Zenon, <1>0, <1>1, <2>1 DEF Boot
<1>2. CASE NorBoot /\ medium = "nor" /\ UNCHANGED <<env_flash, unmarked, medium>>
  <2>1. Copies \in SUBSET Copies
    OBVIOUS
  <2>2. env' \in Envs /\ current' \in Copies
    BY <1>2, <1>t, <2>1, SelectedTypes DEF NorBoot, Copies
  <2> QED
    BY <1>2, <2>2 DEF NorBoot
<1>3. CASE fw_env_open /\ UNCHANGED <<env_flash, medium>>
  <2>1. Copies \in SUBSET Copies
    OBVIOUS
  <2>2. env' \in Envs /\ current' \in Copies
    BY <1>3, <1>t, <2>1, SelectedTypes DEF fw_env_open, Copies
  <2> QED
    BY <1>3, <2>2 DEF fw_env_open
<1>4. CASE BootWithReadFault /\ UNCHANGED <<unmarked, medium>>
  <2>1. PICK readable \in (SUBSET Copies) \ {Copies} :
          env_relocate_spec(readable)
    BY <1>4 DEF BootWithReadFault
  <2>2. readable \in SUBSET Copies
    OBVIOUS
  <2>3. env_flash' \in BOOLEAN /\ unmarked' \in BOOLEAN
    BY <1>4, Zenon DEF BootWithReadFault
  <2>4. TypeOK'
    BY <1>0, <1>4, <2>1, <2>2 DEF BootWithReadFault
  <2> QED
    BY <1>0, <1>4, <2>1, <2>2, <2>3, <2>4
<1>5. CASE SetEnv /\ UNCHANGED <<env_flash, unmarked, medium>>
  BY <1>5 DEF SetEnv
<1>6. CASE fw_env_write /\ UNCHANGED <<env_flash, medium>>
  BY <1>6 DEF fw_env_write
<1>7. CASE ProbeFault /\ UNCHANGED <<unmarked, medium>>
  BY <1>7 DEF ProbeFault
<1>8. CASE ExportFault /\ UNCHANGED <<unmarked, medium>>
  BY <1>8 DEF ExportFault, vars
<1>9. CASE PowerCut /\ UNCHANGED <<env_flash, unmarked, medium>>
  BY <1>9 DEF PowerCut
<1>10. CASE Export /\ UNCHANGED <<unmarked, medium>> /\ env_flash' \in BOOLEAN
  BY <1>10 DEF Export
<1>11. CASE fw_env_close /\ UNCHANGED <<env_flash, medium>>
  BY <1>11 DEF fw_env_close
<1>12. CASE /\ Erase \/ WriteHead \/ WriteBody
            /\ UNCHANGED <<env_flash, unmarked, medium>>
  BY <1>12, <1>t, MediaTypes DEF Erase, WriteHead, WriteBody, MediaStep
<1>13. CASE /\ FwErase \/ FwWriteHead \/ FwWriteBody
            /\ UNCHANGED <<env_flash, medium>>
  BY <1>13, <1>t, MediaTypes
  DEF FwErase, FwWriteHead, FwWriteBody, MediaStep, dev_target
<1>14. CASE MarkObsolete /\ UNCHANGED <<env_flash, unmarked, medium>>
  BY ZenonT(30), <1>14, <1>t, <1>f, <1>u, MediaTypes DEF MarkObsolete, ReturnSuccess
<1>15. CASE /\ medium = "nor" /\ NorMarkObsolete
            /\ UNCHANGED <<env_flash, unmarked, medium>>
  BY Zenon, <1>15, <1>t, <1>f, MediaTypes DEF NorMarkObsolete, MediaStep
<1>16. CASE Finish /\ UNCHANGED <<env_flash, unmarked, medium>>
  BY <1>16, <1>t DEF Finish, ReturnSuccess
<1>17. CASE /\ FlashFault \/ WriteFault
            /\ UNCHANGED <<env_flash, unmarked, medium>>
  BY <1>17 DEF FlashFault, WriteFault, ReturnError
<1>18. CASE FwFault /\ UNCHANGED <<env_flash, medium>>
  BY <1>18 DEF FwFault
<1>19. CASE UnreportedFault /\ UNCHANGED <<env_flash, unmarked, medium>>
  BY <1>19 DEF UnreportedFault, ReturnSuccess
<1>20. CASE RepairFault /\ UNCHANGED <<env_flash, unmarked, medium>>
  BY SMTT(30), <1>20 DEF RepairFault
<1>21. CASE RepairOther /\ UNCHANGED <<env_flash, unmarked, medium>>
  BY ZenonT(30), <1>21, <1>t, <1>f, MediaTypes DEF RepairOther, MediaStep
<1>22. CASE RepairCurrent /\ UNCHANGED <<env_flash, unmarked, medium>>
  BY Zenon, <1>22, <1>t, <1>f, MediaTypes DEF RepairCurrent, MediaStep
<1>23. ASSUME NEW ok \in BOOLEAN, flash_flag_obsolete(ok),
              ok \/ writeFaults < MaxWriteFaults, UNCHANGED <<env_flash, medium>>
       PROVE  FTInv'
  <2>1. media' \in [Copies -> env_t]
    BY Zenon, <1>23, <1>t, <1>f, MediaTypes DEF flash_flag_obsolete
  <2>2. unmarked' \in BOOLEAN
    BY <1>23, Zenon DEF flash_flag_obsolete
  <2>3. writeFaults' \in 0 .. MaxWriteFaults
    BY <1>23 DEF flash_flag_obsolete
  <2> QED
    BY SMTT(30), <1>23, <2>1, <2>2, <2>3 DEF flash_flag_obsolete
<1>24. CASE UNCHANGED flashVars
  BY <1>24 DEF flashVars, vars
<1> HIDE DEF FTInv, TypeOK, Saving, FwSaving, Repairing
<1>25. CASE medium = "sf" /\ SfNext /\ UNCHANGED <<unmarked, medium>>
  <2>1. CASE ProbeAndExport
    BY <1>25, <2>1, <1>10 DEF ProbeAndExport
  <2> QED
    BY <1>25, <2>1, <1>1, <1>4, <1>5, <1>7, <1>8, <1>9, <1>12, <1>14, <1>17,
       Zenon
    DEF SfNext
<1>26. CASE medium = "nor" /\ NorNext /\ UNCHANGED <<env_flash, unmarked, medium>>
  <2>1. CASE Export
    BY <1>26, <2>1, <1>10 DEF FTInv
  <2> QED
    BY <1>26, <2>1, <1>2, <1>5, <1>9, <1>12, <1>15, <1>16, <1>17, <1>19,
       <1>20, <1>21, <1>22, Zenon
    DEF NorNext
<1>27. CASE FwNext /\ UNCHANGED <<env_flash, medium>>
  BY <1>27, <1>3, <1>6, <1>11, <1>13, <1>18, <1>23, Zenon DEF FwNext
<1> QED
  BY <1>24, <1>25, <1>26, <1>27, Zenon DEF FlashNext

(* Faults are counted and never forgotten.                                  *)
LEMMA FaultsStay ==
  ASSUME FTInv, FTInv', [FlashNext]_flashVars
  PROVE  /\ Unreported => Unreported'
         /\ readFaults' = 0 => readFaults = 0
         /\ medium' = medium
<1>1. medium' = medium
  BY SMTT(30) DEF FlashNext, flashVars
<1>2. readFaults' = readFaults \/ readFaults' = readFaults + 1
  BY SMTT(30) DEF FlashNext, flashVars, vars, SfNext, NorNext, FwNext, Boot,
         BootWithReadFault, ProbeFault, ExportFault, ProbeAndExport, SetEnv,
         PowerCut, Export, Erase, WriteHead, WriteBody, MediaStep,
         MarkObsolete, FlashFault, ReturnError, NorBoot, RepairOther,
         RepairCurrent, RepairFault, NorMarkObsolete, Finish, WriteFault,
         UnreportedFault, fw_env_open, fw_env_write, fw_env_close, FwErase,
         FwWriteHead, FwWriteBody, flash_flag_obsolete, FwFault
<1>3. writeFaults' = writeFaults \/ writeFaults' = writeFaults + 1
  BY DEF FlashNext, flashVars, vars, SfNext, NorNext, FwNext, Boot,
         BootWithReadFault, env_relocate_spec, ProbeFault, ExportFault,
         ProbeAndExport, SetEnv, PowerCut, Export, Erase, WriteHead,
         WriteBody, MediaStep, MarkObsolete, FlashFault, ReturnError,
         NorBoot, RepairOther, RepairCurrent, RepairFault, NorMarkObsolete,
         Finish, WriteFault, UnreportedFault, fw_env_open, fw_env_write,
         fw_env_close, FwErase, FwWriteHead, FwWriteBody,
         flash_flag_obsolete, FwFault
<1>4. unmarked => unmarked'
  BY Zenon DEF FlashNext, flashVars, FwNext, fw_env_open, fw_env_write,
         fw_env_close, FwErase, FwWriteHead, FwWriteBody,
         flash_flag_obsolete, FwFault
<1>5. readFaults \in Nat /\ writeFaults \in Nat
  BY DEF FTInv, TypeOK
<1>6. writeFaults > 0 => writeFaults' > 0
  BY <1>3, <1>5
<1>7. Unreported => Unreported'
  BY <1>1, <1>4, <1>6, Zenon DEF Unreported
<1> QED
  BY <1>1, <1>2, <1>5, <1>7

(* Every step keeps what is known of the image a save is writing.           *)
LEMMA ImageStep ==
  ASSUME FTInv, FTInv', ImageInv, [FlashNext]_flashVars
  PROVE  ImageInv'
<1>t. /\ media \in [Copies -> env_t] /\ current \in Copies /\ Spare \in Copies
      /\ Other(current) = Spare /\ Spare # current /\ dev_target = Spare
  BY Others DEF FTInv, TypeOK, Spare, dev_target
<1>1. CASE /\ ~Saving'
  BY <1>1 DEF ImageInv, Saving, FwSaving
<1>2. CASE UNCHANGED vars
  BY <1>2 DEF vars, ImageInv, Saving, FwSaving, Spare
<1>3. CASE Export \/ fw_env_close
  BY <1>3 DEF Export, fw_env_close, ImageInv, Saving, FwSaving
<1>4. CASE Erase \/ FwErase
  BY <1>4, <1>t DEF Erase, FwErase, MediaStep, ImageInv, Saving, FwSaving, Spare
<1>5. CASE WriteHead \/ FwWriteHead
  BY Zenon, <1>5, <1>t DEF WriteHead, FwWriteHead, MediaStep, ImageInv, Saving,
                    FwSaving, Spare
<1>6. CASE WriteBody \/ FwWriteBody
  <2>1. /\ media' = [media EXCEPT ![Spare].data = env_new]
        /\ pc' \in {"mark", "fwMark"} /\ pc \in {"body", "fwBody"}
        /\ UNCHANGED <<env, env_new, current, tried>>
    BY <1>6, <1>t DEF WriteBody, FwWriteBody, MediaStep
  <2>2. media[Spare] = [ErasedCopy EXCEPT !.crc = env_new,
                                          !.flags = ACTIVE_FLAG]
    BY <2>1 DEF ImageInv
  <2>3. media'[Spare] = [media[Spare] EXCEPT !.data = env_new]
    BY <2>1, <1>t
  <2>4. media'[Spare] = GoodCopy(env_new, ACTIVE_FLAG)
    BY Zenon, <2>2, <2>3 DEF ErasedCopy, GoodCopy
  <2> QED
    BY <2>1, <2>4 DEF ImageInv, Saving, FwSaving, Spare
<1>7. CASE NorMarkObsolete
  BY <1>7, <1>t DEF NorMarkObsolete, MediaStep, ImageInv, Saving, FwSaving,
                    Spare, env_t
<1>8. CASE SfNext
  BY <1>1, <1>2, <1>3, <1>4, <1>5, <1>6, <1>8
  DEF SfNext, Boot, env_relocate_spec, BootWithReadFault, ProbeFault,
      ExportFault, ProbeAndExport, SetEnv, PowerCut, MarkObsolete,
      ReturnSuccess, FlashFault, ReturnError, Saving, FwSaving
<1>9. CASE NorNext
  <2>1. CASE RepairOther \/ RepairCurrent \/ RepairFault
    BY <1>1, <2>1 DEF RepairOther, RepairCurrent, RepairFault, MediaStep,
                      Saving, FwSaving
  <2> QED
    BY <1>1, <1>3, <1>4, <1>5, <1>6, <1>7, <1>9, <2>1
    DEF NorNext, NorBoot, SetEnv, PowerCut, Finish, WriteFault, ReturnError,
        UnreportedFault, ReturnSuccess, Saving, FwSaving
<1>10. CASE FwNext
  BY <1>1, <1>3, <1>4, <1>5, <1>6, <1>10
  DEF FwNext, fw_env_open, fw_env_write, flash_flag_obsolete, FwFault,
      Saving, FwSaving
<1> QED
  BY <1>2, <1>8, <1>9, <1>10 DEF FlashNext, flashVars

(* What a step that writes the other copy must leave of it: nothing a boot  *)
(* would take, or what the save is writing.                                 *)
LEMMA SpareWritten ==
  ASSUME FTInv, FTInv', InUseInv, pc \notin {"off", "fwDone"},
         current' = current, committed' = committed, tried' = tried,
         media'[current].crc = media[current].crc,
         media'[current].data = media[current].data,
         \/ ~crc_ok(media', Spare)
         \/ media'[Spare].data \in tried
  PROVE  InUseInv'
<1>1. media' \in [Copies -> env_t] /\ current \in Copies
  BY DEF FTInv, TypeOK
<1>2. \/ SelectCopy(media', Copies) \in {0, current}
      \/ media'[Spare].data \in tried
  BY <1>1, SelectCases DEF Spare
<1>3. crc_ok(media', current) <=> crc_ok(media, current)
  BY DEF crc_ok
<1>4. crc_ok(media, current)' <=> crc_ok(media, current)
  BY <1>3 DEF crc_ok
<1>5. (\/ SelectCopy(media, Copies) \in {0, current}
       \/ media[Spare].data \in tried)'
  BY <1>2 DEF SelectCopy, Spare, crc_ok
<1> QED
  BY <1>4, <1>5 DEF InUseInv

(* A save that reports success leaves the copy it wrote to be loaded.       *)
LEMMA SuccessIsLoaded ==
  ASSUME FTInv, FTInv', ImageInv, pc \in {"mark", "fwMark"},
         media' = [media EXCEPT ![current].flags = OBSOLETE_FLAG]
  PROVE  /\ SelectCopy(media', Copies) = Spare
         /\ Loads(media') = env_new
         /\ crc_ok(media', Spare) /\ media'[Spare].data = env_new
<1>1. /\ media \in [Copies -> env_t] /\ media' \in [Copies -> env_t]
      /\ current \in Copies /\ env_new \in Envs
  BY DEF FTInv, TypeOK
<1>2. /\ media'[Spare] = GoodCopy(env_new, ACTIVE_FLAG)
      /\ media'[current].flags = OBSOLETE_FLAG
  <2>1. media[Spare] = GoodCopy(env_new, ACTIVE_FLAG)
    BY DEF ImageInv
  <2>2. Spare # current /\ Spare \in Copies
    BY <1>1, Others DEF Spare
  <2> QED
    BY <1>1, <2>1, <2>2 DEF env_t
<1>3. crc_ok(media', Spare) /\ media'[Spare].data = env_new
  BY <1>2 DEF crc_ok, GoodCopy
<1> QED
  BY Zenon, <1>1, <1>2, <1>3, MarkedIsTaken DEF Spare

(* Every step keeps the whole invariant.                                    *)
LEMMA FlashInvStep == FInv /\ [FlashNext]_flashVars => FInv'
<1> SUFFICES ASSUME FInv, [FlashNext]_flashVars PROVE FInv'
  OBVIOUS
<1>t. FTInv /\ FTInv' /\ ImageInv /\ ImageInv'
  BY FlashTypeStep, ImageStep DEF FInv
<1> DEFINE Loaded == Loads(media) \in {committed} \cup tried
<1> SUFFICES ASSUME ~Unreported'
             PROVE  /\ tried' = {} => Loads(media') = committed'
                    /\ RepairInv'
                    /\ readFaults' = 0 => Loaded' /\ InUseInv'
  <2>1. Unreported' => SettledInv' /\ RepairInv'
    BY DEF SettledInv, RepairInv
  <2>2. (tried' = {} => Loads(media') = committed') => SettledInv'
    BY DEF SettledInv, Loads
  <2> QED
    BY <1>t, <2>1, <2>2 DEF FInv, AlwaysLoadable
<1>u. ~Unreported /\ medium' = medium /\ (readFaults' = 0 => readFaults = 0)
  BY <1>t, FaultsStay
<1>i. /\ tried = {} => Loads(media) = committed
      /\ RepairInv
      /\ readFaults = 0 => Loaded /\ InUseInv
  BY <1>u DEF FInv, SettledInv, AlwaysLoadable
<1>m. /\ media \in [Copies -> env_t] /\ media' \in [Copies -> env_t]
      /\ current \in Copies /\ Spare \in Copies /\ Spare # current
      /\ Other(current) = Spare /\ dev_target = Spare
      /\ readFaults \in Nat /\ writeFaults \in Nat /\ env_new \in Envs
      /\ (IF current = 2 THEN 1 ELSE 2) = Spare
  BY <1>t, Others DEF FTInv, TypeOK, Spare, dev_target
<1>s. /\ SelectCopy(media, Copies) \in {0, 1, 2}
      /\ SelectCopy(media, Copies) = 0 => ~crc_ok(media, 1)
  BY <1>m, SelectCases
(* A step that leaves copies, histories and the copy in use as they are.    *)
<1>k. ASSUME UNCHANGED <<media, committed, tried>>, ~Repairing',
             \/ pc' \in {"off", "fwDone"}
             \/ current' = current /\ pc \notin {"off", "fwDone"}
      PROVE  /\ tried' = {} => Loads(media') = committed'
             /\ RepairInv'
             /\ readFaults' = 0 => Loaded' /\ InUseInv'
  BY <1>k, <1>i, <1>u DEF RepairInv, InUseInv, Loads, Spare, crc_ok
<1>1. CASE Boot \/ NorBoot \/ fw_env_open
  <2> DEFINE c == SelectCopy(media, Copies)
  <2>1. /\ media' = media /\ env' = Loads(media) /\ committed' = env'
        /\ tried' = {} /\ current' = IF c = 0 THEN 1 ELSE c
        /\ pc' \in {"idle", "fw", "repairOther"}
        /\ pc' = "repairOther" => c # 0
    <3>1. CASE Boot
      <4>1. env_relocate_spec(Copies) /\ committed' = env' /\ tried' = {}
        BY <3>1 DEF Boot
      <4> QED
        BY <4>1 DEF env_relocate_spec, Loads, Copies
    <3>2. CASE NorBoot
      BY <3>2 DEF NorBoot, Loads
    <3>3. CASE fw_env_open
      BY <3>3 DEF fw_env_open, Loads
    <3> QED
      BY <1>1, <3>1, <3>2, <3>3
  <2>2. InUseInv'
    <3>1. c = 0 => committed' = DefaultEnv /\ ~crc_ok(media', current')
      BY <1>s, <2>1 DEF Loads, crc_ok
    <3>2. c # 0 => c = current' /\ media'[current'].data = committed'
                   /\ crc_ok(media', current')
      BY <1>m, <2>1, SelectCases DEF Loads, crc_ok
    <3> QED
      BY <2>1, <3>1, <3>2 DEF InUseInv, crc_ok
  <2>3. RepairInv'
    BY <2>1 DEF RepairInv, Repairing
  <2> QED
    BY <2>1, <2>2, <2>3 DEF Loads
<1>2. CASE BootWithReadFault
  <2>1. /\ readFaults' # 0 /\ pc' = "idle"
        /\ UNCHANGED <<media, committed, tried>>
    BY <1>2, <1>m DEF BootWithReadFault, env_relocate_spec
  <2> QED
    BY <2>1, <1>i DEF RepairInv, Repairing, Loads
<1>3. CASE SetEnv \/ fw_env_write \/ ProbeFault \/ ExportFault
  <2>1. /\ UNCHANGED <<media, committed, tried, current, pc>>
        /\ pc \in {"idle", "fw"}
    BY <1>3 DEF SetEnv, fw_env_write, ProbeFault, ExportFault, vars
  <2> QED
    BY <2>1, <1>k DEF Repairing
<1>4. CASE PowerCut
  <2>1. UNCHANGED <<media, committed, tried>> /\ pc' = "off"
    BY <1>4 DEF PowerCut
  <2> QED
    BY <2>1, <1>k DEF Repairing
<1>5. CASE FlashFault \/ WriteFault \/ FwFault
  <2>1. /\ UNCHANGED <<media, committed, tried, current>>
        /\ pc' \in {"idle", "fwDone"} /\ pc \notin {"off", "fwDone"}
    BY <1>5 DEF FlashFault, WriteFault, ReturnError, FwFault
  <2> QED
    BY <2>1, <1>k DEF Repairing
<1>6. CASE Export \/ fw_env_close
  <2>1. /\ UNCHANGED <<media, committed, current>> /\ ~Repairing'
        /\ tried' # {} /\ tried \subseteq tried'
        /\ pc \notin {"off", "fwDone"}
    BY <1>6 DEF Export, fw_env_close, Repairing
  <2> QED
    BY <2>1, <1>i, <1>u DEF RepairInv, InUseInv, Loads, Spare, crc_ok
<1>7. CASE \/ Erase \/ FwErase \/ WriteHead \/ FwWriteHead
           \/ WriteBody \/ FwWriteBody \/ NorMarkObsolete
  <2>1. /\ Saving /\ Saving' /\ ~Repairing'
        /\ UNCHANGED <<committed, current, tried, env_new>>
        /\ pc \notin {"off", "fwDone"} /\ pc' \notin {"off", "fwDone"}
    BY <1>7 DEF Erase, FwErase, WriteHead, FwWriteHead, WriteBody, FwWriteBody,
                NorMarkObsolete, MediaStep, Saving, FwSaving, Repairing
  <2>2. tried # {} /\ env_new \in tried
    BY <2>1, <1>t DEF ImageInv
  <2>3. /\ media'[current].crc = media[current].crc
        /\ media'[current].data = media[current].data
    BY <1>7, <1>m DEF Erase, FwErase, WriteHead, FwWriteHead, WriteBody,
                      FwWriteBody, NorMarkObsolete, MediaStep, env_t
  <2>4. \/ ~crc_ok(media', Spare)
        \/ media'[Spare].data \in tried
    <3>1. Spare' = Spare
      BY <2>1 DEF Spare
    <3>2. CASE Erase \/ FwErase
      BY <3>1, <3>2, <1>t DEF Erase, FwErase, MediaStep, ImageInv, crc_ok,
                              ErasedCopy
    <3>3. CASE WriteHead \/ FwWriteHead
      BY <3>1, <3>3, <1>t, <1>m DEF WriteHead, FwWriteHead, MediaStep,
                                    ImageInv, crc_ok, ErasedCopy
    <3>4. CASE WriteBody \/ FwWriteBody \/ NorMarkObsolete
      BY <3>1, <3>4, <1>t, <2>1, <2>2
      DEF WriteBody, FwWriteBody, NorMarkObsolete, MediaStep, ImageInv, GoodCopy
    <3> QED
      BY <1>7, <3>2, <3>3, <3>4
  <2>5. readFaults' = 0 => InUseInv'
    BY <1>i, <1>t, <1>u, <2>1, <2>3, <2>4, SpareWritten
  <2>6. readFaults' = 0 => Loaded'
    BY <1>m, <2>1, <2>5, LoadsInUse DEF InUseInv, Spare
  <2> QED
    BY <2>1, <2>2, <2>5, <2>6 DEF RepairInv
<1>8. CASE MarkObsolete
  <2>1. /\ media' = [media EXCEPT ![current].flags = OBSOLETE_FLAG]
        /\ current' = Spare /\ committed' = env_new /\ tried' = {}
        /\ pc = "mark" /\ pc' = "idle"
    BY <1>8, <1>m DEF MarkObsolete, ReturnSuccess
  <2>2. /\ SelectCopy(media', Copies) = Spare /\ Loads(media') = env_new
        /\ crc_ok(media', Spare) /\ media'[Spare].data = env_new
    BY <1>t, <2>1, SuccessIsLoaded
  <2> QED
    BY <2>1, <2>2 DEF RepairInv, Repairing, InUseInv, crc_ok
<1>9. CASE flash_flag_obsolete(TRUE)
  <2>1. /\ media' = [media EXCEPT ![current].flags = OBSOLETE_FLAG]
        /\ committed' = env_new /\ tried' = {}
        /\ pc = "fwMark" /\ pc' = "fwDone"
    BY <1>9, <1>m DEF flash_flag_obsolete
  <2>2. Loads(media') = env_new
    BY <1>t, <2>1, SuccessIsLoaded
  <2> QED
    BY <2>1, <2>2 DEF RepairInv, Repairing, InUseInv
<1>10. CASE Finish
  <2>1. /\ media' = media /\ pc = "rest" /\ pc' = "idle"
        /\ current' = Spare /\ committed' = env_new /\ tried' = {}
    BY <1>10, <1>m DEF Finish, ReturnSuccess
  <2>2. /\ media[Spare] = GoodCopy(env_new, ACTIVE_FLAG)
        /\ media[current].flags = OBSOLETE_FLAG
    BY <2>1, <1>t DEF ImageInv
  <2>3. SelectCopy(media, Copies) = Spare /\ Loads(media) = env_new
    BY <1>m, <2>2, MarkedIsTaken DEF Spare
  <2>4. crc_ok(media, Spare) /\ media[Spare].data = env_new
    BY <2>2 DEF crc_ok, GoodCopy
  <2> QED
    BY <2>1, <2>3, <2>4 DEF RepairInv, Repairing, InUseInv, crc_ok
<1>11. CASE medium = "nor" /\ (RepairFault \/ UnreportedFault)
  <2>1. writeFaults' > 0
    BY <1>11, <1>m DEF RepairFault, UnreportedFault
  <2> QED
    BY <1>11, <1>u, <2>1 DEF Unreported
<1>12. CASE RepairOther \/ RepairCurrent
  <2>1. /\ Repairing /\ pc' \in {"repairCurrent", "idle"}
        /\ UNCHANGED <<current, committed, tried>>
    BY <1>12 DEF RepairOther, RepairCurrent, MediaStep, Repairing
  <2>2. /\ tried = {} /\ SelectCopy(media, Copies) = current
        /\ Loads(media) = committed
        /\ pc = "repairCurrent" /\ crc_ok(media, Spare) =>
             media[Spare].flags = OBSOLETE_FLAG
    BY <2>1, <1>i, <1>u DEF RepairInv
  <2>3. /\ \A c \in Copies : media'[c].crc = media[c].crc
                             /\ media'[c].data = media[c].data
        /\ \/ media'[current].flags = media[current].flags
           \/ media'[current].flags = ACTIVE_FLAG
        /\ crc_ok(media, Spare) => media'[Spare].flags = OBSOLETE_FLAG
    <3>1. CASE RepairOther
      BY <3>1, <1>m DEF RepairOther, MediaStep, env_t, crc_ok
    <3>2. CASE RepairCurrent
      BY <3>2, <1>m, <2>2 DEF RepairCurrent, MediaStep, env_t, crc_ok
    <3> QED
      BY <1>12, <3>1, <3>2
  <2>4. \A c \in Copies : crc_ok(media', c) <=> crc_ok(media, c)
    BY <2>3 DEF crc_ok
  <2>5. SelectCopy(media', Copies) = current
    BY <1>m, <2>2, <2>3, <2>4, RepairsKeepChoice DEF Copies
  <2>6. Loads(media') = media[current].data /\ Loads(media) = media[current].data
    BY <1>m, <2>2, <2>3, <2>5 DEF Loads, Copies
  <2>7. crc_ok(media', current)
    BY <1>m, <2>5, SelectCases DEF Copies
  <2>8. InUseInv'
    BY <2>1, <2>2, <2>3, <2>5, <2>6, <2>7, <1>m DEF InUseInv, crc_ok
  <2>9. RepairInv'
    BY <2>1, <2>2, <2>3, <2>4, <2>5, <1>m DEF RepairInv, Spare, crc_ok
  <2> QED
    BY <2>1, <2>2, <2>6, <2>8, <2>9 DEF Loads
<1>13. CASE flash_flag_obsolete(FALSE)
  BY <1>13, Zenon DEF flash_flag_obsolete, Unreported
<1>14. CASE UNCHANGED flashVars
  <2>1. UNCHANGED <<media, committed, tried, current, pc, readFaults>>
    BY <1>14 DEF flashVars, vars
  <2> QED
    BY <2>1, <1>i, <1>u DEF RepairInv, Repairing, InUseInv, Loads, Spare, crc_ok
<1>15. CASE SfNext
  BY <1>15, <1>1, <1>2, <1>3, <1>4, <1>5, <1>6, <1>7, <1>8, Zenon
  DEF SfNext, ProbeAndExport
<1>16. CASE medium = "nor" /\ NorNext
  BY <1>16, <1>1, <1>3, <1>4, <1>5, <1>6, <1>7, <1>10, <1>11, <1>12, Zenon
  DEF NorNext
<1>17. CASE FwNext
  BY <1>17, <1>1, <1>3, <1>5, <1>6, <1>7, <1>9, <1>13, Zenon DEF FwNext
<1> QED
  BY <1>14, <1>15, <1>16, <1>17, Zenon DEF FlashNext

-----------------------------------------------------------------------------
(* The types the theorems and the runs name.                                *)
LEMMA FlashTypesHold == FTInv => FlashTypeOK
<1> SUFFICES ASSUME FTInv PROVE FlashTypeOK
  OBVIOUS
<1>1. TypeOK /\ env_flash \in BOOLEAN /\ (pc = "off" <=> env = Off)
  BY DEF FTInv
<1>2. CASE pc \in FwPcs
  BY <1>1, <1>2 DEF FlashTypeOK, FwPcs
<1>3. CASE pc \notin FwPcs /\ medium = "sf"
  BY <1>1, <1>3, Zenon DEF FTInv, Saving, FwSaving, Repairing, FlashTypeOK,
                           FwPcs, SfTypeOK
<1>4. CASE pc \notin FwPcs /\ medium = "nor"
  BY <1>1, <1>4 DEF FTInv, Saving, FwSaving, Repairing, FlashTypeOK, FwPcs,
                    NorTypeOK
<1> QED
  BY <1>2, <1>3, <1>4 DEF FTInv

(* What the invariant says of a board that loses power, and of a save that  *)
(* has succeeded.                                                           *)
LEMMA FlashCrashHolds == FInv => AlwaysLoadable /\ SavedIsLoaded
  BY DEF FInv, AlwaysLoadable, SettledInv, SavedIsLoaded

(* The variables of both drivers and of fw_setenv keep their types,         *)
(* whatever fails.                                                          *)
THEOREM FlashTypes == FlashSpec => []FlashTypeOK
<1>1. FlashInit => FTInv
  BY FlashInitInv DEF FInv
<1> QED
  BY <1>1, FlashTypeStep, FlashTypesHold, PTL DEF FlashSpec

(* Wherever saveenv() of env_sf.c or env_flash.c, a boot that repairs the   *)
(* flags, or fw_setenv is cut off or fails, a reset loads the environment   *)
(* of the last successful save or one that was being written since.         *)
THEOREM FlashCrashSafety == FlashSpec => []AlwaysLoadable
  BY FlashInitInv, FlashInvStep, FlashCrashHolds, PTL DEF FlashSpec

(* What a save of either program reported as done is what the next boot     *)
(* loads, after any number of failed reads, erases and writes.              *)
THEOREM FlashSaveIsDurable == FlashSpec => []SavedIsLoaded
  BY FlashInitInv, FlashInvStep, FlashCrashHolds, PTL DEF FlashSpec

(* A step costs the good copy in use only its flag.                         *)
LEMMA InUseStep == FTInv /\ [FlashNext]_flashVars => KeepsInUse
<1> SUFFICES ASSUME FTInv, [FlashNext]_flashVars, crc_ok(media, current)
             PROVE  crc_ok(media', current)
  BY DEF KeepsInUse, HasGood, FTInv, TypeOK
<1>m. /\ media \in [Copies -> env_t] /\ current \in Copies
      /\ Other(current) \in Copies /\ Other(current) # current
      /\ dev_target = Other(current)
  BY Others DEF FTInv, TypeOK, dev_target
<1> SUFFICES /\ media'[current].crc = media[current].crc
             /\ media'[current].data = media[current].data
  BY DEF crc_ok
<1>1. CASE media' = media
  BY <1>1
<1>2. CASE \/ Erase \/ WriteHead \/ WriteBody \/ RepairOther
           \/ FwErase \/ FwWriteHead \/ FwWriteBody
  BY <1>2, <1>m DEF Erase, WriteHead, WriteBody, RepairOther, FwErase,
                    FwWriteHead, FwWriteBody, MediaStep
<1>3. CASE \/ MarkObsolete \/ NorMarkObsolete \/ RepairCurrent
           \/ flash_flag_obsolete(TRUE)
  <2>1. \/ media' = media
        \/ \E f \in Flags : media' = [media EXCEPT ![current].flags = f]
    BY <1>3 DEF MarkObsolete, NorMarkObsolete, RepairCurrent,
                flash_flag_obsolete, MediaStep, Flags
  <2> QED
    BY <1>m, <2>1 DEF env_t
<1>4. CASE UNCHANGED flashVars
  BY <1>1, <1>4 DEF flashVars, vars
<1>5. CASE SfNext
  BY Zenon, <1>1, <1>2, <1>3, <1>5
  DEF SfNext, Boot, env_relocate_spec, BootWithReadFault, ProbeFault,
      ExportFault, vars, ProbeAndExport, Export, SetEnv, PowerCut,
      FlashFault, ReturnError
<1>6. CASE NorNext
  BY Zenon, <1>1, <1>2, <1>3, <1>6
  DEF NorNext, NorBoot, RepairFault, Export, SetEnv, PowerCut, Finish,
      WriteFault, ReturnError, UnreportedFault
<1>7. CASE FwNext
  BY <1>1, <1>2, <1>3, <1>7
  DEF FwNext, fw_env_open, fw_env_write, fw_env_close, flash_flag_obsolete,
      FwFault
<1> QED
  BY <1>4, <1>5, <1>6, <1>7 DEF FlashNext

(* Each step of either program is one of the durable environment, or is     *)
(* invisible there.                                                         *)
LEMMA StoreStep ==
  FInv /\ [FlashNext]_flashVars => [StepsAsStore]_<<env, committed, tried>>
<1> SUFFICES ASSUME FInv, [FlashNext]_flashVars
             PROVE  [StepsAsStore]_<<env, committed, tried>>
  OBVIOUS
<1>t. FTInv /\ FTInv' /\ ImageInv
  BY FlashTypeStep DEF FInv
<1>r. readFaults' \in Nat
  BY <1>t DEF FTInv, TypeOK
<1> SUFFICES ASSUME ~Unreported', readFaults' = 0
             PROVE  [Store!StoreNext]_<<env, committed, tried>>
  BY <1>r DEF StepsAsStore
<1>u. ~Unreported /\ medium' = medium /\ readFaults = 0
  BY <1>t, FaultsStay
<1>l. Loads(media) \in {committed} \cup tried
  BY <1>u DEF FInv, AlwaysLoadable
<1>e. /\ pc = "off" <=> env = Off
      /\ env \in Envs \cup {Off} /\ committed \in Envs
      /\ writeFaults \in Nat
      /\ Saving => env_new = env /\ env \in tried /\ env # Off
  BY <1>t DEF FTInv, TypeOK, ImageInv, Saving, FwSaving
<1>1. CASE Boot \/ NorBoot \/ fw_env_open
  <2>1. env' = Loads(media) /\ committed' = env' /\ tried' = {} /\ pc = "off"
    <3>1. CASE Boot
      BY <3>1 DEF Boot, env_relocate_spec, Loads, Copies
    <3>2. CASE NorBoot \/ fw_env_open
      BY <3>2 DEF NorBoot, fw_env_open, Loads
    <3> QED
      BY <1>1, <3>1, <3>2
  <2>2. Store!Boot
    BY <2>1, <1>e, <1>l DEF Store!Boot
  <2> QED
    BY <2>2 DEF Store!StoreNext
<1>2. CASE BootWithReadFault
  BY <1>2, <1>u DEF BootWithReadFault
<1>3. CASE SetEnv \/ fw_env_write \/ ProbeFault
  <2>1. Store!Edit
    BY <1>3, <1>e DEF SetEnv, fw_env_write, ProbeFault, Store!Edit
  <2> QED
    BY <2>1 DEF Store!StoreNext
<1>4. CASE PowerCut
  <2>1. Store!Cut
    BY <1>4, <1>e DEF PowerCut, Store!Cut
  <2> QED
    BY <2>1 DEF Store!StoreNext
<1>5. CASE Export \/ fw_env_close
  <2>1. Store!Attempt
    BY <1>5, <1>e DEF Export, fw_env_close, Store!Attempt
  <2> QED
    BY <2>1 DEF Store!StoreNext
<1>6. CASE MarkObsolete \/ Finish \/ flash_flag_obsolete(TRUE)
  <2>1. Saving /\ env' = env /\ committed' = env_new /\ tried' = {}
    BY <1>6 DEF MarkObsolete, Finish, ReturnSuccess, flash_flag_obsolete,
                Saving, FwSaving
  <2>2. Store!Commit
    BY <1>e, <2>1 DEF Store!Commit
  <2> QED
    BY <2>2 DEF Store!StoreNext
<1>7. CASE medium = "nor" /\ (RepairFault \/ UnreportedFault)
  <2>1. writeFaults' > 0
    BY <1>7, <1>e DEF RepairFault, UnreportedFault
  <2> QED
    BY <1>7, <1>u, <2>1 DEF Unreported
<1>8. CASE flash_flag_obsolete(FALSE)
  BY <1>8, Zenon DEF flash_flag_obsolete, Unreported
<1>9. CASE UNCHANGED <<env, committed, tried>>
  BY <1>9
<1>10. CASE UNCHANGED flashVars
  BY <1>9, <1>10 DEF flashVars, vars
<1>11. CASE SfNext
  BY Zenon, <1>1, <1>2, <1>3, <1>4, <1>5, <1>6, <1>9, <1>11
  DEF SfNext, ExportFault, vars, ProbeAndExport, Erase, WriteHead, WriteBody,
      MediaStep, FlashFault, ReturnError
<1>12. CASE medium = "nor" /\ NorNext
  BY Zenon, <1>1, <1>3, <1>4, <1>5, <1>6, <1>7, <1>9, <1>12
  DEF NorNext, RepairOther, RepairCurrent, Erase, WriteHead, WriteBody,
      MediaStep, NorMarkObsolete, WriteFault, ReturnError
<1>13. CASE FwNext
  BY Zenon, <1>1, <1>3, <1>5, <1>6, <1>8, <1>9, <1>13
  DEF FwNext, FwErase, FwWriteHead, FwWriteBody, MediaStep, FwFault
<1> QED
  BY <1>10, <1>11, <1>12, <1>13 DEF FlashNext

(* Neither program ever costs the good copy in use while there is no other, *)
(* whatever power cut or failed call came before.                           *)
THEOREM FlashInUseKept == FlashSpec => [][KeepsInUse]_flashVars
<1>1. FlashInit => FTInv
  BY FlashInitInv DEF FInv
<1> QED
  BY <1>1, FlashTypeStep, InUseStep, PTL DEF FlashSpec

(* Two copies with flags, written by both programs in turns, are one        *)
(* durable environment in spite of power cuts and, in SPI flash, of failing *)
(* erases and writes.                                                       *)
THEOREM FlashRefinement ==
  FlashSpec => [][StepsAsStore]_<<env, committed, tried>>
  BY FlashInitInv, FlashInvStep, StoreStep, PTL DEF FlashSpec
=============================================================================
