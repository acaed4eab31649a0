---------------------------- MODULE MCLifecycle ----------------------------
(***************************************************************************)
(* Small instances of Lifecycle for TLC.                                   *)
(***************************************************************************)
EXTENDS Lifecycle, TLC

\* All monitors ask for the same stream.
SameUrl == [m \in Monitors |-> "stream"]

\* Monitors are interchangeable, since they all do.
Interchangeable == Permutations(Monitors)
=============================================================================
