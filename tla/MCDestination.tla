--------------------------- MODULE MCDestination ---------------------------
(***************************************************************************)
(* Small instances of Destination for TLC.  The sources of one kind, and   *)
(* the contents, are interchangeable; the symmetry is used by the runs     *)
(* that check safety only.                                                 *)
(***************************************************************************)
EXTENDS DestinationDelivers, TLC

Symmetry == Permutations(HgSources) \cup Permutations(Contents)

=============================================================================
