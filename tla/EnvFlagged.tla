----------------------------- MODULE EnvFlagged -----------------------------
(* The environment kept in two copies with an active/obsolete flag: what    *)
(* common/env_sf.c and common/env_flash.c have in common.  EnvSf and EnvNor *)
(* add the steps of their saveenv() and of their boot.                      *)
(*                                                                          *)
(* The flag is outside the CRC and is cleared bit by bit: erased flash      *)
(* reads 0xFF, ACTIVE_FLAG is 1, OBSOLETE_FLAG is 0.                        *)
EXTENDS EnvConfig, FiniteSets

VARIABLES
  media,        \* the two copies on the medium
  env,          \* env_htab, the environment in RAM; Off when not running
  current,      \* the copy in use: gd->env_valid (SPI), flash_addr (NOR)
  env_new,      \* the environment saveenv() is writing
  pc,           \* where saveenv() or the boot is
  readFaults, writeFaults,
  committed,    \* history: what the last successful save or boot settled
  tried         \* history: what unfinished or failed saves since have written

vars == <<media, env, current, env_new, pc, readFaults, writeFaults,
          committed, tried>>

Copies == {1, 2}
Other(c) == 3 - c

ACTIVE_FLAG == 1
OBSOLETE_FLAG == 0
ERASED == 255
Flags == {ACTIVE_FLAG, OBSOLETE_FLAG, ERASED}

env_t == [crc : Envs \cup {NoCrc}, flags : Flags, data : Envs \cup {Blank}]

ErasedCopy == [crc |-> NoCrc, flags |-> ERASED, data |-> Blank]
GoodCopy(e, f) == [crc |-> e, flags |-> f, data |-> e]

crc_ok(m, c) == m[c].crc = m[c].data

(* The choice between two good copies.                                      *)
CheckFlags(f1, f2) ==
  IF f1 = ACTIVE_FLAG /\ f2 = OBSOLETE_FLAG THEN 1
  ELSE IF f1 = OBSOLETE_FLAG /\ f2 = ACTIVE_FLAG THEN 2
  ELSE IF f1 = f2 THEN 1
  ELSE IF f1 = ERASED THEN 1
  ELSE 2

(* The copy a boot takes, of those it can read; 0 for the default.          *)
SelectCopy(m, readable) ==
  LET ok(c) == c \in readable /\ crc_ok(m, c) IN
  IF ok(1) /\ ok(2) THEN CheckFlags(m[1].flags, m[2].flags)
  ELSE IF ok(1) THEN 1
  ELSE IF ok(2) THEN 2
  ELSE 0

Loads(m) ==
  LET c == SelectCopy(m, Copies) IN IF c = 0 THEN DefaultEnv ELSE m[c].data

(* No environment yet, one that was programmed without the flag, or what    *)
(* complete saves leave.                                                    *)
FirstMedia ==
  {<<ErasedCopy, ErasedCopy>>} \cup
  {<<GoodCopy(e, ERASED), ErasedCopy>> : e \in Envs} \cup
  {[c \in Copies |-> IF c = new THEN GoodCopy(e, ACTIVE_FLAG) ELSE old] :
     new \in Copies, e \in Envs,
     old \in {ErasedCopy} \cup {GoodCopy(x, OBSOLETE_FLAG) : x \in Envs}}

Init ==
  /\ media \in FirstMedia
  /\ env = Off
  /\ current = 1
  /\ env_new = DefaultEnv
  /\ pc = "off"
  /\ readFaults = 0
  /\ writeFaults = 0
  /\ committed = Loads(media)
  /\ tried = {}

SetEnv ==
  /\ pc = "idle"
  /\ env' \in Envs
  /\ UNCHANGED <<media, current, env_new, pc, readFaults, writeFaults,
                 committed, tried>>

PowerCut ==
  /\ pc # "off"
  /\ pc' = "off"
  /\ env' = Off
  /\ UNCHANGED <<media, current, env_new, readFaults, writeFaults,
                 committed, tried>>

(* env_export() of a saveenv() that has got this far.                       *)
Export ==
  /\ pc = "idle"
  /\ env_new' = env
  /\ tried' = tried \cup {env}
  /\ pc' = "erase"
  /\ UNCHANGED <<media, env, current, readFaults, writeFaults, committed>>

(* A step of saveenv() that succeeds and changes only the medium.           *)
MediaStep(from, to, m) ==
  /\ pc = from
  /\ pc' = to
  /\ media' = m
  /\ UNCHANGED <<env, current, env_new, readFaults, writeFaults, committed,
                 tried>>

Erase == MediaStep("erase", "head",
                   [media EXCEPT ![Other(current)] = ErasedCopy])

(* The write of env_new, CRC and flag first.                                *)
WriteHead == MediaStep("head", "body",
                       [media EXCEPT ![Other(current)].crc = env_new,
                                     ![Other(current)].flags = ACTIVE_FLAG])

(* The data, and the rest of a sector that is larger than the environment.  *)
WriteBody == MediaStep("body", "mark",
                       [media EXCEPT ![Other(current)].data = env_new])

(* saveenv() returns 0.                                                     *)
ReturnSuccess(newCurrent) ==
  /\ pc' = "idle"
  /\ current' = newCurrent
  /\ committed' = env_new
  /\ tried' = {}

(* A call on the flash fails and saveenv() returns an error.                *)
ReturnError ==
  /\ writeFaults < MaxWriteFaults
  /\ writeFaults' = writeFaults + 1
  /\ pc' = "idle"
  /\ UNCHANGED <<media, env, current, env_new, readFaults, committed, tried>>

-----------------------------------------------------------------------------
TypeOK ==
  /\ media \in [Copies -> env_t]
  /\ env \in Envs \cup {Off}
  /\ current \in Copies
  /\ env_new \in Envs
  /\ readFaults \in 0 .. MaxReadFaults
  /\ writeFaults \in 0 .. MaxWriteFaults
  /\ committed \in Envs
  /\ tried \subseteq Envs

HasGood(m) == \E c \in Copies : crc_ok(m, c)

Store == INSTANCE EnvStore WITH running <- env
=============================================================================
