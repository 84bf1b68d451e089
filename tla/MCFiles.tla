------------------------------ MODULE MCFiles ------------------------------
(***************************************************************************)
(* The two files that the processes of virt-who have in common, the PID    *)
(* file and run_data.json, for TLC.  The modules share no state, and no    *)
(* guard of one reads the other, so that each behaviour is one of one      *)
(* file.                                                                   *)
(***************************************************************************)
EXTENDS PidLock, MCRunData

CONSTANT FilesUsed \* of "pid", "run data"

VARIABLE used

FilesInit == used \in FilesUsed /\ PidInit /\ Init
PidFile   == used = "pid" /\ PidNext /\ UNCHANGED <<used, vars>>
DataFile  == used = "run data" /\ Next /\ UNCHANGED <<used, pidVars>>
FilesSpec == FilesInit /\ [][PidFile \/ DataFile]_<<used, pidVars, vars>>

=============================================================================
