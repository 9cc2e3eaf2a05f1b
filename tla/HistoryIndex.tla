---------------------------- MODULE HistoryIndex ----------------------------
(***************************************************************************)
(* What the shared history index promises: one register per market that    *)
(* holds nothing, or exactly what the market logged up to one block.  It   *)
(* is dropped, or it grows along its own chain; it never forks, never goes *)
(* back and never mixes two branches.                                      *)
(***************************************************************************)
EXTENDS PriceHistory

CONSTANT NoCheckpoint

VARIABLES chain, stored

Drop == stored' = NoCheckpoint
Publish ==
    /\ stored' # NoCheckpoint /\ Exact(stored')
    /\ stored # NoCheckpoint => IsOn(stored'.through, stored.through)

IndexInit == stored = NoCheckpoint
IndexSpec == IndexInit /\ [][(Drop \/ Publish) /\ UNCHANGED chain]_stored
=============================================================================
