---------------------------- MODULE ChainHistory ----------------------------
(***************************************************************************)
(* The indexer of market histories that the site's functions share         *)
(* (src/frontend/server/chain: http.ts schedules, indexer.ts synchronises, *)
(* store.ts leases the row of the market and saves in it).                 *)
(*                                                                         *)
(* Several function instances answer requests; each runs at most one       *)
(* synchronisation of the market, may be stopped at any await, and reads a *)
(* chain that grows and reorganises meanwhile.  A lease may run out under  *)
(* a holder that is still at work: the row may not rest on time.           *)
(*                                                                         *)
(* Abstracted: a lease's token is the instance that drew it, which holds   *)
(* one at a time; the cooldown after a synchronisation, which only paces   *)
(* them; the descriptor of the market, which no block changes; updated_at, *)
(* target_block, through_timestamp and last_error, which tell readers of   *)
(* freshness.  A block that was dropped never returns.                     *)
(* The supply check is of genesis trades, and may be passed by a history   *)
(* that lacks a formal one: it only fails.                                 *)
(***************************************************************************)
EXTENDS PriceHistory

CONSTANTS Instances, NoCheckpoint, Nobody,
          MaxBlocks,     \* blocks scanned by one synchronisation
          MaxHeight,     \* bound: height of the chain
          MaxFaults      \* bound: reorganisations, errors, crashes, late holders

ASSUME ChainHistoryAssumption ==
    /\ Nobody \notin Instances
    /\ MaxBlocks \in Nat \ {0} /\ {MaxHeight, MaxFaults} \subseteq Nat

VARIABLES
    chain,    \* the canonical chain, as the node knows it
    faults,   \* how many faults have happened
    row,      \* the market's row: checkpoint, origin and lease
    global,   \* the lease of the factory's row: one synchronisation at a time
    sync      \* sync[i]: what instance i is doing

vars == <<chain, faults, row, global, sync>>

Free == [holder |-> Nobody, live |-> FALSE]
Idle == [at |-> "idle"]

Fault == faults < MaxFaults /\ faults' = faults + 1

-----------------------------------------------------------------------------
\* The chain.

Mine ==
    /\ Len(chain) < MaxHeight
    /\ \E log \in BOOLEAN : chain' = Append(chain, [fork |-> faults, log |-> log])
    /\ UNCHANGED <<faults, row, global, sync>>

\* The blocks from height n on are replaced by another one.
Reorganise ==
    /\ Fault
    /\ \E n \in DOMAIN chain, log \in BOOLEAN :
        chain' = Append(Hash(chain, n - 1), [fork |-> faults', log |-> log])
    /\ UNCHANGED <<row, global, sync>>

-----------------------------------------------------------------------------
\* The store: claim, save and release, each one statement.

Claimed(i) == [holder |-> i, live |-> TRUE]
\* Mistake: only a lease that was released may be claimed.
Claimable_Released(lease) == lease.holder = Nobody
Claimable(lease) == ~lease.live
\* Mistake: a holder whose lease ran out may still save.
Holds_Ever(i) == TRUE
Holds(i) == row.lease.holder = i /\ row.lease.live
Released(lease, i) == IF lease.holder = i THEN Free ELSE lease

\* lease_until passes: in time, when its holder was stopped, or too early.
Late(lease) == IF sync[lease.holder].at = "idle" THEN UNCHANGED faults ELSE Fault
LeaseRunsOut ==
    /\ row.lease.live /\ Late(row.lease) /\ row' = [row EXCEPT !.lease.live = FALSE]
    /\ UNCHANGED <<chain, global, sync>>
GlobalRunsOut ==
    /\ global.live /\ Late(global) /\ global' = [global EXCEPT !.live = FALSE]
    /\ UNCHANGED <<chain, row, sync>>

-----------------------------------------------------------------------------
\* One synchronisation.

Goes(i, next) == sync' = [sync EXCEPT ![i] = next] /\ UNCHANGED <<chain, faults>>
Fails(i) == Goes(i, [at |-> "release"])

\* A request for the history: answered from the row, and the synchronisation is
\* scheduled when the row is empty, stale or behind, and none runs here.
Request(i) ==
    /\ sync[i].at = "idle" /\ Goes(i, [at |-> "global"]) /\ UNCHANGED <<row, global>>

ClaimGlobal(i) ==
    /\ sync[i].at = "global" /\ UNCHANGED row
    /\ IF Claimable(global)
       THEN global' = Claimed(i) /\ Goes(i, [at |-> "market"])
       ELSE Goes(i, Idle) /\ UNCHANGED global

ClaimMarket(i) ==
    /\ sync[i].at = "market" /\ UNCHANGED global
    /\ IF Claimable(row.lease)
       THEN /\ row' = [row EXCEPT !.lease = Claimed(i)]
            /\ Goes(i, [at |-> "head", base |-> row.checkpoint, origin |-> row.origin])
       ELSE Fails(i) /\ UNCHANGED row

ReadHead(i) ==
    /\ sync[i].at = "head" /\ UNCHANGED <<row, global>>
    /\ Goes(i, [at |-> "check", base |-> sync[i].base, origin |-> sync[i].origin, head |-> Len(chain)])

\* The stored checkpoint is on the chain, or it is dropped.
CheckBase(i) ==
    LET s == sync[i]
        canonical == s.base # NoCheckpoint => Len(s.base.through) <= s.head /\ IsOn(chain, s.base.through)
    IN  /\ s.at = "check" /\ UNCHANGED global
        /\ IF canonical
           THEN UNCHANGED row /\ Goes(i, [s EXCEPT !.at = IF s.base = NoCheckpoint THEN "origin" ELSE "end"])
           ELSE IF Holds(i)
                THEN /\ row' = [row EXCEPT !.checkpoint = NoCheckpoint]
                     /\ Goes(i, [s EXCEPT !.at = "origin", !.base = NoCheckpoint])
                ELSE UNCHANGED row /\ Fails(i)

\* The creation of the market: the stored origin if it is still on the chain, else
\* it is cleared, searched and saved.
FindOrigin(i) ==
    LET s == sync[i] IN
    /\ s.at = "origin" /\ UNCHANGED global
    /\ IF s.origin # NoCheckpoint /\ IsOn(chain, s.origin)
       THEN UNCHANGED row /\ Goes(i, [s EXCEPT !.at = "save_origin"])
       ELSE IF Holds(i)
            THEN /\ row' = [row EXCEPT !.origin = NoCheckpoint]
                 /\ Goes(i, [s EXCEPT !.at = "save_origin", !.origin = Hash(chain, 1)])
            ELSE UNCHANGED row /\ Fails(i)
SaveOrigin(i) ==
    /\ sync[i].at = "save_origin" /\ UNCHANGED global
    /\ IF Holds(i)
       THEN row' = [row EXCEPT !.origin = sync[i].origin] /\ Goes(i, [sync[i] EXCEPT !.at = "end"])
       ELSE UNCHANGED row /\ Fails(i)

\* The block to synchronise up to: at most MaxBlocks further, and not past the head.
ReadEnd(i) ==
    LET s == sync[i]
        from == IF s.base = NoCheckpoint THEN 0 ELSE Len(s.base.through)
        n == IF from + MaxBlocks < s.head THEN from + MaxBlocks ELSE s.head
    IN  /\ s.at = "end" /\ UNCHANGED <<row, global>>
        /\ IF n <= Len(chain)
           THEN Goes(i, [at |-> "anchor", base |-> s.base, end |-> Hash(chain, n)])
           ELSE Fails(i)

\* readChainPriceHistory checks the base again, now that the end is fixed; to start
\* over would exceed the bounds of the scan.
AnchorHolds_Before(base) == TRUE
AnchorHolds(base) == IsOn(chain, base.through)
Anchor(i) ==
    LET s == sync[i] IN
    /\ s.at = "anchor" /\ UNCHANGED <<row, global>>
    /\ IF s.base = NoCheckpoint THEN Goes(i, [at |-> "scan", reading |-> Restart(s.end)])
       ELSE IF AnchorHolds(s.base) THEN Goes(i, [at |-> "scan", reading |-> Resume(s.end, s.base)])
       ELSE Fails(i)

Scan(i) ==
    LET s == sync[i] IN
    /\ s.at = "scan" /\ ~Scanned(s.reading) /\ UNCHANGED <<row, global>>
    /\ Goes(i, [s EXCEPT !.reading = Chunk(chain, s.reading)])

\* The head of the scan is confirmed, and once more after the supply was compared.
Confirm(i) ==
    LET s == sync[i] IN
    /\ s.at = "scan" /\ Scanned(s.reading) /\ UNCHANGED <<row, global>>
    /\ IF Confirmed(chain, s.reading) THEN Goes(i, [s EXCEPT !.at = "supply"]) ELSE Fails(i)
CompareSupply(i) ==
    LET s == sync[i] IN
    /\ s.at = "supply" /\ UNCHANGED <<row, global>>
    /\ IF IsOn(chain, s.reading.end) THEN Goes(i, [s EXCEPT !.at = "save"]) ELSE Fails(i)

Save(i) ==
    LET reading == sync[i].reading IN
    /\ sync[i].at = "save" /\ UNCHANGED global
    /\ row' = IF Holds(i) THEN [row EXCEPT !.checkpoint = Checkpoint(reading),
                                           !.origin = Hash(reading.end, 1)]
              ELSE row
    /\ Fails(i)

\* finally: the market's lease, then the factory's, each only if it is still ours.
Release(i) ==
    /\ sync[i].at = "release" /\ UNCHANGED global
    /\ row' = [row EXCEPT !.lease = Released(@, i)] /\ Goes(i, [at |-> "release_global"])
ReleaseGlobal(i) ==
    /\ sync[i].at = "release_global" /\ UNCHANGED row
    /\ global' = Released(global, i) /\ Goes(i, Idle)

\* The node errs, or answers late (the budget of 20 seconds).
Gives(i) ==
    /\ sync[i].at \notin {"idle", "global", "release", "release_global"} /\ Fault
    /\ sync' = [sync EXCEPT ![i] = [at |-> "release"]] /\ UNCHANGED <<chain, row, global>>

\* The platform stops the instance: its leases stay until they run out.
Crash(i) ==
    /\ sync[i].at # "idle" /\ Fault
    /\ sync' = [sync EXCEPT ![i] = Idle] /\ UNCHANGED <<chain, row, global>>

-----------------------------------------------------------------------------
Init ==
    /\ chain = <<[fork |-> 0, log |-> FALSE]>> /\ faults = 0
    /\ row = [checkpoint |-> NoCheckpoint, origin |-> NoCheckpoint, lease |-> Free]
    /\ global = Free /\ sync = [i \in Instances |-> Idle]

Step(i) ==
    \/ ClaimGlobal(i) \/ ClaimMarket(i) \/ ReadHead(i) \/ CheckBase(i)
    \/ FindOrigin(i) \/ SaveOrigin(i) \/ ReadEnd(i) \/ Anchor(i) \/ Scan(i)
    \/ Confirm(i) \/ CompareSupply(i) \/ Save(i) \/ Release(i) \/ ReleaseGlobal(i)

Next ==
    \/ Mine \/ Reorganise \/ LeaseRunsOut \/ GlobalRunsOut
    \/ \E i \in Instances : Request(i) \/ Step(i) \/ Gives(i) \/ Crash(i)

Spec == Init /\ [][Next]_vars

-----------------------------------------------------------------------------
\* The row as readers see it is the index that HistoryIndex promises: whatever the
\* leases, the crashes and the reorganisations, it holds the exact history up to one
\* block, and only grows along its chain or is dropped.
Index == INSTANCE HistoryIndex WITH stored <- row.checkpoint
RefinesIndex == Index!IndexSpec

\* The row is at the head of the chain.
IsComplete == row.checkpoint # NoCheckpoint /\ row.checkpoint.through = chain
=============================================================================
