----------------------------- MODULE MCRunData -----------------------------
(***************************************************************************)
(* Two processes for TLC: a daemon with two destination threads, and a     *)
(* second process (--status) with one, on two configurations, *)
(* of which the second process uses one.                                   *)
(***************************************************************************)
EXTENDS RunData

CONSTANTS daemon, helper, t1, t2, t3, k1, k2

MCProcesses == {daemon, helper}
MCThreads   == {t1, t2, t3}
MCProcessOf == [t \in MCThreads |-> IF t = t3 THEN helper ELSE daemon]
MCKeys      == {k1, k2}
MCKeysOf    == [p \in MCProcesses |-> IF p = helper THEN {k1} ELSE MCKeys]

=============================================================================
