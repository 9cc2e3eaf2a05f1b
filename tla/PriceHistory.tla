---------------------------- MODULE PriceHistory ----------------------------
(***************************************************************************)
(* Reading the history of a market out of a chain that may reorganise      *)
(* while it is read (src/frontend/testnet/priceHistory.ts,                 *)
(* readChainPriceHistory).                                                 *)
(*                                                                         *)
(* A block is a record [fork, log]: which branch made it, and whether the  *)
(* market logged in it.  A hash commits to all the blocks below, so it is  *)
(* modelled by them: the hash of the block at height n of a chain is the   *)
(* chain's prefix of length n.  The market was created at height 1.        *)
(*                                                                         *)
(* A reading is a record [end, next, logs]: the head that was read first,  *)
(* the next height to scan and the logs found so far, each known by the    *)
(* hash of its block.  One block is one chunk of getLogs.                  *)
(***************************************************************************)
EXTENDS Naturals, Sequences

Hash(chain, n) == SubSeq(chain, 1, n)
IsOn(chain, hash) == Len(hash) <= Len(chain) /\ Hash(chain, Len(hash)) = hash

\* What the market really logged up to a block.
LogsOf(hash) == {Hash(hash, i) : i \in {j \in DOMAIN hash : hash[j].log}}
\* A checkpoint holds just the logs of the chain it ends.
Exact(checkpoint) == checkpoint.logs = LogsOf(checkpoint.through)

\* The prefix of the checkpoint is taken over, if its head is still on the chain.
Resume(end, checkpoint) ==
    [end |-> end, next |-> Len(checkpoint.through) + 1, logs |-> checkpoint.logs]
Restart(end) == [end |-> end, next |-> 1, logs |-> {}]

Scanned(reading) == reading.next > Len(reading.end)
\* getLogs of one chunk, as the chain is now; nothing when it has become shorter.
Chunk(chain, reading) ==
    [reading EXCEPT !.next = @ + 1,
                    !.logs = @ \cup IF reading.next \in DOMAIN chain /\ chain[reading.next].log
                                    THEN {Hash(chain, reading.next)} ELSE {}]
\* Every log is in the block its header names, and the head is still the head that
\* was read first.
Confirmed(chain, reading) == IsOn(chain, reading.end) /\ \A log \in reading.logs : IsOn(chain, log)
Checkpoint(reading) == [through |-> reading.end, logs |-> reading.logs]
=============================================================================
