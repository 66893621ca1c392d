------------------------------ MODULE EnvStore ------------------------------
(* What the persistent environment promises, whatever medium keeps it.      *)
(* The running environment can be changed and saved; a save that reports    *)
(* success is what every later boot loads; a save that did not finish       *)
(* (power cut, error return) may or may not have taken effect, and the      *)
(* first boot after it settles which.  The drivers are shown to implement   *)
(* this specification.                                                      *)
CONSTANTS Envs,        \* the contents an environment can have
          Off          \* the board is not running; not in Envs

VARIABLES running,     \* the environment in RAM, or Off
          committed,   \* last environment saved with success, or booted
          tried        \* environments of unfinished or failed saves since

storeVars == <<running, committed, tried>>

StoreInit ==
  /\ running = Off
  /\ committed \in Envs
  /\ tried = {}

(* The running environment is edited (setenv, env default, env import).     *)
Edit ==
  /\ running # Off
  /\ running' \in Envs
  /\ UNCHANGED <<committed, tried>>

(* A save begins: from here on it may take effect.                          *)
Attempt ==
  /\ running # Off
  /\ tried' = tried \cup {running}
  /\ UNCHANGED <<running, committed>>

(* The save reports success.                                                *)
Commit ==
  /\ running \in tried
  /\ committed' = running
  /\ tried' = {}
  /\ UNCHANGED running

(* The power is cut, at any moment, also in the middle of a save.           *)
Cut ==
  /\ running # Off
  /\ running' = Off
  /\ UNCHANGED <<committed, tried>>

(* A boot loads the committed environment or one that a save was writing.   *)
Boot ==
  /\ running = Off
  /\ running' \in {committed} \cup tried
  /\ committed' = running'
  /\ tried' = {}

StoreNext == Edit \/ Attempt \/ Commit \/ Cut \/ Boot

StoreSpec == StoreInit /\ [][StoreNext]_storeVars
=============================================================================
