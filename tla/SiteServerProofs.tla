--------------------------- MODULE SiteServerProofs ---------------------------
(***************************************************************************)
(* Proofs about what the functions behind the site keep: for any           *)
(* instances, bounds of heights and faults, and chain, that the row of a   *)
(* market implements HistoryIndex; and for any players, amounts and times, *)
(* that the book of a market on the paper server adds up.                  *)
(*                                                                         *)
(* Of the index.  A block that replaces others is of a fork that no hash   *)
(* held before it has, so a hash that has left the chain has Diverged from *)
(* it for good.  A synchronisation may therefore read nonsense while its   *)
(* end is off the chain: then the end never is on it again, and Confirm    *)
(* refuses.  While the end is on the chain, what was read is of one        *)
(* branch. The lease ties the base of the holder to the row: nobody else   *)
(* may have replaced the checkpoint that the reading continues.            *)
(*                                                                         *)
(* Of the book.  A document is Good after n orders that round when its     *)
(* money is all there but for 3 * n units, its reserve lies on the         *)
(* parabola but for n, its cash on the curve exactly, its pools are the    *)
(* stakes, its fees are credited once for every outcome, and its budgets   *)
(* are what may still be claimed.  Every order, and every deadline that an *)
(* order finds to have passed, leaves a Good document behind; and a Good   *)
(* document passes the assertion as long as Eps covers the rounding.       *)
(***************************************************************************)
EXTENDS SiteServer, SumLemmas, SequenceTheorems, TLAPS

(* The index. *)

Block == [fork : Nat, log : BOOLEAN]
Hashes == Seq(Block)
Checkpoints == [through : Hashes, logs : SUBSET Hashes]
Bases == Checkpoints \cup {NoCheckpoint}
Origins == Hashes \cup {NoCheckpoint}
Readings == [end : Hashes, next : Nat \ {0}, logs : SUBSET Hashes]
Leases == [holder : Instances \cup {Nobody}, live : BOOLEAN]

(* What an instance may be doing. *)
Bare == [at : {"idle", "global", "market", "release", "release_global"}]
Starting == [at : {"head"}, base : Bases, origin : Origins]
Based == [at : {"check", "origin", "save_origin", "end"}, base : Bases, origin : Origins, head : Nat \ {0}]
Anchoring == [at : {"anchor"}, base : Bases, end : Hashes]
Reading == [at : {"scan", "supply", "save"}, reading : Readings]
Stages == Bare \cup Starting \cup Based \cup Anchoring \cup Reading

TypeOK ==
    /\ chain \in Hashes /\ Len(chain) > 0 /\ faults \in Nat
    /\ row \in [checkpoint : Bases, origin : Origins, lease : Leases]
    /\ global \in Leases
    /\ sync \in [Instances -> Stages]

(* A hash that has left the chain: some block of it is not the chain's. *)
Diverged(hash) == \E n \in 1..Len(hash) : n <= Len(chain) /\ hash[n] # chain[n]
(* A hash the node gave: of blocks made so far, on the chain or off it for good. *)
Known(hash) ==
    /\ Len(hash) > 0
    /\ \A n \in 1..Len(hash) : hash[n].fork <= faults
    /\ IsOn(chain, hash) \/ Diverged(hash)

(* The logs of a reading are each a block that logged, at a height it covers; and while *)
(* its end is on the chain, all of those that were scanned.                             *)
LogsAreBlocks(r) == \A log \in r.logs : Len(log) \in 1..Len(r.end) /\ log[Len(log)].log
NoneIsMissed(r) ==
    Diverged(r.end) \/ \A n \in 1..Len(r.end) : n < r.next /\ r.end[n].log => Hash(r.end, n) \in r.logs
(* A reading up to this end may replace the checkpoint of the row. *)
Continues(end) == row.checkpoint = NoCheckpoint \/ IsOn(end, row.checkpoint.through)

BaseIsExact(base) == base # NoCheckpoint => Exact(base)
BaseIsBelow(base, n) == base # NoCheckpoint => Len(base.through) <= n

(* What holds at each stage of a synchronisation; held: its lease of the row is live. *)
StageInv(s, held) ==
    /\ s.at \in {"head", "check", "origin", "save_origin", "end", "anchor"} =>
        BaseIsExact(s.base) /\ (held => s.base = row.checkpoint)
    /\ s.at \in {"origin", "save_origin", "end"} => BaseIsBelow(s.base, s.head)
    /\ s.at = "anchor" => Known(s.end) /\ BaseIsBelow(s.base, Len(s.end))
    /\ s.at = "scan" =>
        /\ Known(s.reading.end) /\ LogsAreBlocks(s.reading) /\ NoneIsMissed(s.reading)
        /\ held => Diverged(s.reading.end) \/ Continues(s.reading.end)
    /\ s.at \in {"supply", "save"} =>
        /\ Known(s.reading.end) /\ Exact(Checkpoint(s.reading))
        /\ held => Continues(s.reading.end)

HistoryInv ==
    /\ TypeOK
    /\ \A n \in 1..Len(chain) : chain[n].fork <= faults
    /\ BaseIsExact(row.checkpoint)
    /\ \A i \in Instances : StageInv(sync[i], Holds(i))

-----------------------------------------------------------------------------
(* Chains and hashes. *)

LEMMA ForksAreNumbers ==
    ASSUME NEW h \in Hashes, NEW n \in 1..Len(h)
    PROVE  h[n] \in Block /\ h[n].fork \in Nat
<1>1. h[n] \in Block  BY ElementOfSeq DEF Hashes
<1>. QED  BY <1>1 DEF Block

(* A hash is the chain up to its height. *)
LEMMA HashIsPrefix ==
    ASSUME NEW c \in Hashes, NEW n \in 0..Len(c)
    PROVE  Hash(c, n) \in Hashes /\ Len(Hash(c, n)) = n /\ \A m \in 1..n : Hash(c, n)[m] = c[m]
<1>1. \A m \in 1..n : c[m] \in Block  BY DEF Hashes
<1>. QED  BY <1>1, SubSeqProperties DEF Hash, Hashes

(* A block is on the chain when the chain agrees with it block by block. *)
LEMMA IsOnMeans ==
    ASSUME NEW c \in Hashes, NEW h \in Hashes
    PROVE  IsOn(c, h) <=> Len(h) <= Len(c) /\ \A n \in 1..Len(h) : c[n] = h[n]
<1>1. CASE Len(h) <= Len(c)
  <2>1. Len(h) \in 0..Len(c)  BY <1>1 DEF Hashes
  <2>2. /\ Hash(c, Len(h)) \in Hashes /\ Len(Hash(c, Len(h))) = Len(h)
        /\ \A n \in 1..Len(h) : Hash(c, Len(h))[n] = c[n]
    BY <2>1, HashIsPrefix
  <2>3. (\A n \in 1..Len(h) : c[n] = h[n]) => Hash(c, Len(h)) = h
    <3>. SUFFICES ASSUME \A n \in 1..Len(h) : c[n] = h[n]  PROVE Hash(c, Len(h)) = h  OBVIOUS
    <3>. QED  BY <2>2, SeqEqual DEF Hashes
  <2>. QED  BY <1>1, <2>2, <2>3 DEF IsOn
<1>. QED  BY <1>1 DEF IsOn

(* Up to a block that is on both, two chains have the same hashes. *)
LEMMA HashesAgree ==
    ASSUME NEW c \in Hashes, NEW h \in Hashes, IsOn(c, h), NEW n \in 0..Len(h)
    PROVE  Hash(c, n) = Hash(h, n)
<1>1. Len(h) <= Len(c) /\ \A m \in 1..Len(h) : c[m] = h[m]  BY IsOnMeans
<1>2. n \in 0..Len(c) /\ n \in 0..Len(h)  BY <1>1 DEF Hashes
<1>3. Hash(c, n) \in Hashes /\ Hash(h, n) \in Hashes /\ Len(Hash(c, n)) = n /\ Len(Hash(h, n)) = n  BY <1>2, HashIsPrefix
<1>4. \A m \in 1..n : Hash(c, n)[m] = Hash(h, n)[m]
  BY <1>1, <1>2, HashIsPrefix
<1>. QED  BY <1>3, <1>4, SeqEqual DEF Hashes

(* Of two blocks on a chain, the lower is on the chain of the higher. *)
LEMMA LowerIsOnHigher ==
    ASSUME NEW c \in Hashes, NEW g \in Hashes, NEW h \in Hashes,
           IsOn(c, g), IsOn(c, h), Len(g) <= Len(h)
    PROVE  IsOn(h, g)
BY IsOnMeans DEF Hashes

(* What left the chain is not on it, and the chain's own hashes are. *)
LEMMA HashIsKnown ==
    ASSUME TypeOK, \A n \in 1..Len(chain) : chain[n].fork <= faults, NEW n \in 1..Len(chain)
    PROVE  Known(Hash(chain, n)) /\ IsOn(chain, Hash(chain, n))
<1>. chain \in Hashes  BY DEF TypeOK
<1>1. /\ Hash(chain, n) \in Hashes /\ Len(Hash(chain, n)) = n
      /\ \A m \in 1..n : Hash(chain, n)[m] = chain[m]
  BY HashIsPrefix
<1>2. IsOn(chain, Hash(chain, n))  BY <1>1, IsOnMeans DEF Hashes
<1>. QED  BY <1>1, <1>2 DEF Known, Hashes

LEMMA DivergedIsOff ==
    ASSUME chain \in Hashes, NEW h \in Hashes, Diverged(h)
    PROVE  ~IsOn(chain, h)
BY IsOnMeans DEF Diverged, Hashes

-----------------------------------------------------------------------------
(* The chain grows and reorganises. *)

(* What is known stays known, and what has diverged has for good. *)
LEMMA MineKeepsHashes ==
    ASSUME HistoryInv, Mine
    PROVE  /\ chain' \in Hashes /\ Len(chain') > 0 /\ faults' \in Nat /\ faults <= faults'
           /\ \A n \in 1..Len(chain') : chain'[n].fork <= faults'
           /\ \A h \in Hashes : Known(h) => Known(h)' /\ (Diverged(h) => Diverged(h)')
<1>. USE DEF HistoryInv
<1>1. PICK log \in BOOLEAN : chain' = Append(chain, [fork |-> faults, log |-> log])  BY DEF Mine
<1>2. /\ chain' \in Hashes /\ Len(chain') = Len(chain) + 1 /\ Len(chain) \in Nat \ {0}
      /\ \A n \in 1..Len(chain) : chain'[n] = chain[n]
      /\ chain'[Len(chain) + 1].fork = faults
  BY <1>1 DEF TypeOK, Hashes, Block
<1>3. faults' = faults /\ faults \in Nat  BY DEF Mine, TypeOK
<1>4. \A n \in 1..Len(chain') : chain'[n].fork <= faults'  BY <1>2, <1>3
<1>5. ASSUME NEW h \in Hashes, Diverged(h)  PROVE Diverged(h)'
  BY <1>2, <1>5 DEF Diverged, Hashes
<1>6. ASSUME NEW h \in Hashes, IsOn(chain, h)  PROVE IsOn(chain', h)
  <2>1. Len(h) <= Len(chain) /\ \A n \in 1..Len(h) : chain[n] = h[n]  BY <1>6, IsOnMeans DEF TypeOK
  <2>. QED  BY <2>1, <1>2, IsOnMeans DEF Hashes
<1>. QED  BY <1>2, <1>3, <1>4, <1>5, <1>6 DEF Known

LEMMA ReorganiseKeepsHashes ==
    ASSUME HistoryInv, Reorganise
    PROVE  /\ chain' \in Hashes /\ Len(chain') > 0 /\ faults' \in Nat /\ faults <= faults'
           /\ \A n \in 1..Len(chain') : chain'[n].fork <= faults'
           /\ \A h \in Hashes : Known(h) => Known(h)' /\ (Diverged(h) => Diverged(h)')
<1>0. TypeOK /\ \A m \in 1..Len(chain) : chain[m].fork <= faults  BY DEF HistoryInv
<1>1. PICK n \in DOMAIN chain, log \in BOOLEAN :
        chain' = Append(Hash(chain, n - 1), [fork |-> faults', log |-> log])
  BY DEF Reorganise
<1>2. chain \in Hashes /\ n \in 1..Len(chain) /\ n - 1 \in 0..Len(chain)  BY <1>0, <1>1 DEF TypeOK, Hashes
<1>3. faults' = faults + 1 /\ faults \in Nat  BY <1>0 DEF Reorganise, Fault, TypeOK
<1>4. /\ Hash(chain, n - 1) \in Hashes /\ Len(Hash(chain, n - 1)) = n - 1
      /\ \A m \in 1..(n - 1) : Hash(chain, n - 1)[m] = chain[m]
  BY <1>2, HashIsPrefix
<1>5. chain' \in Hashes /\ Len(chain') = n /\ (\A m \in 1..(n - 1) : chain'[m] = chain[m]) /\ chain'[n].fork = faults'
  BY <1>1, <1>2, <1>3, <1>4 DEF Hashes, Block
<1>6. \A m \in 1..Len(chain') : chain'[m].fork <= faults'
  <2>1. \A m \in 1..(n - 1) : chain'[m].fork <= faults  BY <1>0, <1>2, <1>5
  <2>2. \A m \in 1..(n - 1) : chain'[m].fork \in Nat  BY <1>2, <1>5, ForksAreNumbers
  <2>3. \A m \in 1..(n - 1) : chain'[m].fork <= faults'  BY <1>3, <2>1, <2>2
  <2>4. chain'[n].fork <= faults'  BY <1>3, <1>5
  <2>5. \A m \in 1..Len(chain') : m = n \/ m \in 1..(n - 1)  BY <1>2, <1>5
  <2>. QED  BY <2>3, <2>4, <2>5
<1>7. ASSUME NEW h \in Hashes, Known(h), n <= Len(h)  PROVE Diverged(h)'
  <2>1. h[n].fork <= faults /\ h[n].fork \in Nat  BY <1>2, <1>7, ForksAreNumbers DEF Known
  <2>. QED  BY <1>2, <1>3, <1>5, <1>7, <2>1 DEF Diverged, Hashes
<1>8. ASSUME NEW h \in Hashes, Known(h), Len(h) < n, Diverged(h)  PROVE Diverged(h)'
  <2>1. PICK m \in 1..Len(h) : m <= Len(chain) /\ h[m] # chain[m]  BY <1>8 DEF Diverged
  <2>2. Len(h) \in Nat /\ n \in Int  BY <1>2, <1>8 DEF Hashes
  <2>3. m \in 1..(n - 1) /\ m <= n  BY <1>8, <2>1, <2>2
  <2>4. chain'[m] = chain[m] /\ Len(chain') = n  BY <1>5, <2>3
  <2>. QED  BY <2>1, <2>3, <2>4 DEF Diverged
<1>9. ASSUME NEW h \in Hashes, Known(h), Len(h) < n, IsOn(chain, h)  PROVE IsOn(chain', h)
  <2>1. \A m \in 1..Len(h) : chain[m] = h[m]  BY <1>2, <1>9, IsOnMeans
  <2>. QED  BY <1>2, <1>5, <1>9, <2>1, IsOnMeans DEF Hashes
<1>10. ASSUME NEW h \in Hashes, Known(h)  PROVE \A m \in 1..Len(h) : h[m].fork <= faults'
  <2>1. \A m \in 1..Len(h) : h[m].fork <= faults /\ h[m].fork \in Nat  BY <1>10, ForksAreNumbers DEF Known
  <2>. QED  BY <2>1, <1>3
<1>11. ASSUME NEW h \in Hashes, Known(h)
       PROVE  Known(h)' /\ (Diverged(h) => Diverged(h)')
  <2>1. CASE n <= Len(h)  BY <1>7, <1>10, <1>11, <2>1 DEF Known
  <2>2. CASE Len(h) < n  BY <1>8, <1>9, <1>10, <1>11, <2>2 DEF Known
  <2>. QED  BY <1>2, <2>1, <2>2 DEF Hashes
<1>. QED  BY <1>2, <1>3, <1>5, <1>6, <1>11

(* So a change of the chain disturbs no synchronisation. *)
LEMMA ChainStep ==
    ASSUME HistoryInv, UNCHANGED <<row, global, sync>>,
           chain' \in Hashes, Len(chain') > 0, faults' \in Nat,
           \A n \in 1..Len(chain') : chain'[n].fork <= faults',
           \A h \in Hashes : Known(h) => Known(h)' /\ (Diverged(h) => Diverged(h)')
    PROVE  HistoryInv'
<1>. USE DEF HistoryInv
<1>1. TypeOK'  BY DEF TypeOK, Bases, Checkpoints, Origins, Leases, Stages, Bare, Starting, Based, Anchoring, Reading, Readings
<1>2. BaseIsExact(row.checkpoint)'  BY DEF BaseIsExact
<1>3. ASSUME NEW i \in Instances  PROVE StageInv(sync[i], Holds(i))'
  <2>1. StageInv(sync[i], Holds(i)) /\ Holds(i)' = Holds(i) /\ sync[i]' = sync[i] /\ row' = row /\ sync[i] \in Stages
    BY <1>3 DEF Holds, TypeOK
  <2>2. CASE sync[i].at \in {"head", "check", "origin", "save_origin", "end"}
    BY <2>1, <2>2 DEF StageInv, BaseIsExact, BaseIsBelow
  <2>3. CASE sync[i].at = "anchor"
    <3>1. sync[i].end \in Hashes  BY <2>1, <2>3 DEF Stages, Bare, Starting, Based, Anchoring, Reading
    <3>. QED  BY <2>1, <2>3, <3>1 DEF StageInv, BaseIsExact, BaseIsBelow
  <2>4. CASE sync[i].at \in {"scan", "supply", "save"}
    <3>1. sync[i].reading.end \in Hashes  BY <2>1, <2>4 DEF Stages, Bare, Starting, Based, Anchoring, Reading, Readings
    <3>2. Continues(sync[i].reading.end)' = Continues(sync[i].reading.end)  BY <2>1 DEF Continues
    <3>3. Known(sync[i].reading.end)'  BY <2>1, <2>4, <3>1 DEF StageInv
    <3>4. Diverged(sync[i].reading.end) => Diverged(sync[i].reading.end)'  BY <2>1, <2>4, <3>1 DEF StageInv
    <3>. QED  BY <2>1, <2>4, <3>2, <3>3, <3>4 DEF StageInv, NoneIsMissed, LogsAreBlocks
  <2>5. CASE sync[i].at \in {"idle", "global", "market", "release", "release_global"}
    BY <2>1, <2>5 DEF StageInv
  <2>. QED  BY <2>1, <2>2, <2>3, <2>4, <2>5 DEF Stages, Bare, Starting, Based, Anchoring, Reading
<1>. QED  BY <1>1, <1>2, <1>3

-----------------------------------------------------------------------------
(* One instance steps. *)

LEMMA KnownStays ==
    ASSUME UNCHANGED chain, faults \in Nat, faults' \in Nat, faults <= faults',
           NEW h \in Hashes, Known(h)
    PROVE  Known(h)'
<1>1. \A n \in 1..Len(h) : h[n].fork <= faults /\ h[n].fork \in Nat  BY ForksAreNumbers DEF Known
<1>. QED  BY <1>1 DEF Known, Diverged

(* A stage stays as it was, unless its instance holds the lease while the checkpoint is *)
(* replaced.                                                                             *)
LEMMA StageStays ==
    ASSUME HistoryInv, NEW j \in Instances,
           UNCHANGED chain, faults' \in Nat, faults <= faults', sync'[j] = sync[j],
           Holds(j)' => Holds(j) /\ row'.checkpoint = row.checkpoint
    PROVE  StageInv(sync[j], Holds(j))'
<1>1. /\ StageInv(sync[j], Holds(j)) /\ sync'[j] = sync[j] /\ sync[j] \in Stages
      /\ Holds(j)' => Holds(j) /\ row'.checkpoint = row.checkpoint
  BY DEF HistoryInv, TypeOK
<1>2. CASE sync[j].at \in {"head", "check", "origin", "save_origin", "end"}
  BY <1>1, <1>2 DEF StageInv, BaseIsExact, BaseIsBelow
<1>3. CASE sync[j].at = "anchor"
  <2>1. sync[j].end \in Hashes  BY <1>1, <1>3 DEF Stages, Bare, Starting, Based, Anchoring, Reading
  <2>2. Known(sync[j].end)  BY <1>1, <1>3 DEF StageInv
  <2>3. \A h \in Hashes : Known(h) => Known(h)'  BY KnownStays DEF HistoryInv, TypeOK
  <2>. QED  BY <1>1, <1>3, <2>1, <2>2, <2>3 DEF StageInv, BaseIsExact, BaseIsBelow
<1>4. CASE sync[j].at \in {"scan", "supply", "save"}
  <2>. DEFINE r == sync[j].reading
  <2>1. r.end \in Hashes  BY <1>1, <1>4 DEF Stages, Bare, Starting, Based, Anchoring, Reading, Readings
  <2>2. \A h \in Hashes : Known(h) => Known(h)'  BY KnownStays DEF HistoryInv, TypeOK
  <2>3. Known(r.end)'  BY <1>1, <1>4, <2>1, <2>2 DEF StageInv
  <2>4. Diverged(r.end)' = Diverged(r.end)  BY <1>1 DEF Diverged
  <2>5. Holds(j)' /\ Continues(r.end) => Continues(r.end)'  BY <1>1 DEF Continues
  <2>. HIDE DEF r
  <2>6. CASE sync[j].at = "scan"
    <3>1. LogsAreBlocks(r)' /\ NoneIsMissed(r)'
      BY <1>1, <2>4, <2>6 DEF StageInv, LogsAreBlocks, NoneIsMissed, r
    <3>. QED  BY <1>1, <2>3, <2>4, <2>5, <2>6, <3>1 DEF StageInv, r
  <2>7. CASE sync[j].at \in {"supply", "save"}
    BY <1>1, <2>3, <2>5, <2>7 DEF StageInv, r
  <2>. QED  BY <1>4, <2>6, <2>7
<1>5. CASE sync[j].at \in {"idle", "global", "market", "release", "release_global"}
  BY <1>1, <1>5 DEF StageInv
<1>. QED  BY <1>1, <1>2, <1>3, <1>4, <1>5 DEF Stages, Bare, Starting, Based, Anchoring, Reading

LEMMA ForksStay ==
    ASSUME HistoryInv, faults' \in Nat, faults <= faults'
    PROVE  \A n \in 1..Len(chain) : chain[n].fork <= faults'
<1>1. \A n \in 1..Len(chain) : chain[n].fork <= faults /\ chain[n].fork \in Nat
  BY ForksAreNumbers DEF HistoryInv, TypeOK
<1>. QED  BY <1>1 DEF HistoryInv, TypeOK

(* So of a step of an instance only its own stage is to be shown. *)
LEMMA InstanceStep ==
    ASSUME HistoryInv, NEW i \in Instances,
           UNCHANGED chain, faults' \in Nat, faults <= faults',
           row' \in [checkpoint : Bases, origin : Origins, lease : Leases], global' \in Leases,
           sync' \in [Instances -> Stages], \A j \in Instances \ {i} : sync'[j] = sync[j],
           \A j \in Instances \ {i} : Holds(j)' => Holds(j) /\ row'.checkpoint = row.checkpoint,
           BaseIsExact(row'.checkpoint), StageInv(sync[i], Holds(i))'
    PROVE  HistoryInv'
<1>1. TypeOK'  BY DEF HistoryInv, TypeOK
<1>2. (\A n \in 1..Len(chain) : chain[n].fork <= faults)'  BY ForksStay
<1>3. \A j \in Instances \ {i} : StageInv(sync[j], Holds(j))'  BY StageStays
<1>. QED  BY <1>1, <1>2, <1>3 DEF HistoryInv

(* What every instance step but the row's is about. *)
LEMMA SyncOf ==
    ASSUME TypeOK, NEW i \in Instances
    PROVE  /\ sync[i] \in Stages
           /\ sync[i].at = "head" => sync[i] \in Starting
           /\ sync[i].at \in {"check", "origin", "save_origin", "end"} => sync[i] \in Based
           /\ sync[i].at = "anchor" => sync[i] \in Anchoring
           /\ sync[i].at \in {"scan", "supply", "save"} => sync[i] \in Reading
BY DEF TypeOK, Stages, Bare, Starting, Based, Anchoring, Reading

LEMMA RowOf ==
    ASSUME TypeOK
    PROVE  /\ row.checkpoint \in Bases /\ row.origin \in Origins /\ row.lease \in Leases
           /\ row.lease.live \in BOOLEAN /\ row.lease.holder \in Instances \cup {Nobody}
BY DEF TypeOK, Leases

(* An instance that only reads leaves the row, so only its own stage is to be shown. *)
LEMMA ReadingStep ==
    ASSUME HistoryInv, NEW i \in Instances, NEW next,
           sync' = [sync EXCEPT ![i] = next], next \in Stages, UNCHANGED <<chain, faults, row>>,
           global' \in Leases, StageInv(sync[i], Holds(i))'
    PROVE  HistoryInv'
<1>1. sync' \in [Instances -> Stages] /\ \A j \in Instances \ {i} : sync'[j] = sync[j]
  BY DEF HistoryInv, TypeOK
<1>2. \A j \in Instances \ {i} : Holds(j)' => Holds(j) /\ row'.checkpoint = row.checkpoint  BY DEF Holds
<1>3. faults' \in Nat /\ faults <= faults' /\ BaseIsExact(row'.checkpoint)
      /\ row' \in [checkpoint : Bases, origin : Origins, lease : Leases]
  BY DEF HistoryInv, TypeOK, BaseIsExact
<1>. QED  BY <1>1, <1>2, <1>3, InstanceStep

(* An instance that gives up, waits or claims nothing yet has nothing to show. *)
LEMMA BareStep ==
    ASSUME HistoryInv, NEW i \in Instances, NEW next \in Bare,
           sync' = [sync EXCEPT ![i] = next], UNCHANGED <<chain, faults, row>>, global' \in Leases
    PROVE  HistoryInv'
<1>1. sync'[i] = next /\ next \in Stages  BY DEF HistoryInv, TypeOK, Stages
<1>2. StageInv(sync[i], Holds(i))'  BY <1>1 DEF StageInv, Bare
<1>. QED  BY <1>1, <1>2, ReadingStep

LEMMA RequestKeeps == ASSUME HistoryInv, NEW i \in Instances, Request(i)  PROVE HistoryInv'
<1>1. [at |-> "global"] \in Bare /\ global' \in Leases  BY DEF HistoryInv, TypeOK, Bare, Request
<1>. QED  BY <1>1, BareStep DEF Request, Goes

LEMMA ClaimGlobalKeeps == ASSUME HistoryInv, NEW i \in Instances, ClaimGlobal(i)  PROVE HistoryInv'
<1>1. [at |-> "market"] \in Bare /\ Idle \in Bare  BY DEF Bare, Idle
<1>2. global' \in Leases
  <2>1. Claimed(i) \in Leases /\ global \in Leases  BY DEF HistoryInv, TypeOK, Claimed, Leases
  <2>. QED  BY <2>1 DEF ClaimGlobal
<1>3. PICK next \in Bare : sync' = [sync EXCEPT ![i] = next]  BY <1>1 DEF ClaimGlobal, Goes
<1>4. UNCHANGED <<chain, faults, row>>  BY DEF ClaimGlobal, Goes
<1>. QED  BY <1>2, <1>3, <1>4, BareStep

LEMMA ReleaseGlobalKeeps == ASSUME HistoryInv, NEW i \in Instances, ReleaseGlobal(i)  PROVE HistoryInv'
<1>1. Idle \in Bare  BY DEF Bare, Idle
<1>2. global' \in Leases  BY DEF HistoryInv, TypeOK, ReleaseGlobal, Released, Free, Leases
<1>. QED  BY <1>1, <1>2, BareStep DEF ReleaseGlobal, Goes

LEMMA FailsKeeps ==
    ASSUME HistoryInv, NEW i \in Instances, Fails(i), UNCHANGED <<row, global>>  PROVE HistoryInv'
<1>1. [at |-> "release"] \in Bare /\ global' \in Leases  BY DEF HistoryInv, TypeOK, Bare
<1>. QED  BY <1>1, BareStep DEF Fails, Goes

LEMMA GivesKeeps == ASSUME HistoryInv, NEW i \in Instances, Gives(i) \/ Crash(i)  PROVE HistoryInv'
<1>1. PICK next \in Bare : sync' = [sync EXCEPT ![i] = next]  BY DEF Gives, Crash, Bare, Idle
<1>2. /\ sync' \in [Instances -> Stages] /\ sync'[i] = next
      /\ \A j \in Instances \ {i} : sync'[j] = sync[j]
  BY <1>1 DEF HistoryInv, TypeOK, Stages
<1>3. UNCHANGED <<chain, row, global>> /\ faults' \in Nat /\ faults <= faults'
  BY DEF HistoryInv, TypeOK, Gives, Crash, Fault
<1>4. StageInv(sync[i], Holds(i))'  BY <1>2 DEF StageInv, Bare
<1>5. \A j \in Instances \ {i} : Holds(j)' => Holds(j) /\ row'.checkpoint = row.checkpoint  BY <1>3 DEF Holds
<1>6. /\ BaseIsExact(row'.checkpoint) /\ global' \in Leases
      /\ row' \in [checkpoint : Bases, origin : Origins, lease : Leases]
  BY <1>3 DEF HistoryInv, TypeOK
<1>. QED  BY <1>2, <1>3, <1>4, <1>5, <1>6, InstanceStep

(* A claim takes the checkpoint that is in the row for its base. *)
LEMMA ClaimMarketKeeps == ASSUME HistoryInv, NEW i \in Instances, ClaimMarket(i)  PROVE HistoryInv'
<1>. USE DEF HistoryInv
<1>1. CASE ~Claimable(row.lease)  BY <1>1, FailsKeeps DEF ClaimMarket
<1>2. CASE Claimable(row.lease)
  <2>1. /\ row' = [row EXCEPT !.lease = Claimed(i)] /\ UNCHANGED <<chain, faults, global>>
        /\ sync' = [sync EXCEPT ![i] = [at |-> "head", base |-> row.checkpoint, origin |-> row.origin]]
    BY <1>2 DEF ClaimMarket, Goes
  <2>2. /\ row' \in [checkpoint : Bases, origin : Origins, lease : Leases]
        /\ row'.checkpoint = row.checkpoint /\ row'.lease = Claimed(i)
    BY <2>1 DEF TypeOK, Claimed, Leases
  <2>3. [at |-> "head", base |-> row.checkpoint, origin |-> row.origin] \in Stages
    BY DEF TypeOK, Stages, Starting
  <2>4. sync' \in [Instances -> Stages] /\ (\A j \in Instances \ {i} : sync'[j] = sync[j])
        /\ sync'[i] = [at |-> "head", base |-> row.checkpoint, origin |-> row.origin]
    BY <2>1, <2>3 DEF TypeOK
  <2>5. StageInv(sync[i], Holds(i))'  BY <2>2, <2>4 DEF StageInv, BaseIsExact
  <2>6. \A j \in Instances \ {i} : ~Holds(j)'  BY <2>2 DEF Holds, Claimed
  <2>7. BaseIsExact(row'.checkpoint) /\ global' \in Leases /\ faults' \in Nat /\ faults <= faults'
    BY <2>1, <2>2 DEF TypeOK
  <2>. QED  BY <2>1, <2>2, <2>4, <2>5, <2>6, <2>7, InstanceStep
<1>. QED  BY <1>1, <1>2

LEMMA ReadHeadKeeps == ASSUME HistoryInv, NEW i \in Instances, ReadHead(i)  PROVE HistoryInv'
<1>. USE DEF HistoryInv
<1>. DEFINE next == [at |-> "check", base |-> sync[i].base, origin |-> sync[i].origin, head |-> Len(chain)]
<1>1. sync[i] \in Starting /\ sync[i].at = "head"  BY SyncOf DEF ReadHead
<1>2. next \in Stages  BY <1>1 DEF TypeOK, Hashes, Stages, Starting, Based
<1>3. sync' = [sync EXCEPT ![i] = next] /\ UNCHANGED <<chain, faults, row, global>>  BY DEF ReadHead, Goes
<1>4. StageInv(sync[i], Holds(i))'
  <2>1. sync'[i] = next /\ row' = row /\ Holds(i)' = Holds(i)  BY <1>3 DEF TypeOK, Holds
  <2>2. StageInv(sync[i], Holds(i))  OBVIOUS
  <2>. QED  BY <1>1, <2>1, <2>2 DEF StageInv, BaseIsExact
<1>5. global' \in Leases  BY <1>3 DEF TypeOK
<1>. HIDE DEF next
<1>. QED  BY <1>2, <1>3, <1>4, <1>5, ReadingStep

(* A base that left the chain is dropped, by the holder of the lease only. *)
LEMMA CheckBaseKeeps == ASSUME HistoryInv, NEW i \in Instances, CheckBase(i)  PROVE HistoryInv'
<1>. USE DEF HistoryInv
<1>. DEFINE s == sync[i]
            canonical == s.base # NoCheckpoint => Len(s.base.through) <= s.head /\ IsOn(chain, s.base.through)
<1>1. s \in Based /\ s.at = "check" /\ StageInv(s, Holds(i))  BY SyncOf DEF CheckBase
<1>2. UNCHANGED <<chain, faults, global>> /\ global' \in Leases  BY DEF CheckBase, Goes, Fails, TypeOK
<1>3. CASE canonical
  <2>. DEFINE next == [s EXCEPT !.at = IF s.base = NoCheckpoint THEN "origin" ELSE "end"]
  <2>1. sync' = [sync EXCEPT ![i] = next] /\ UNCHANGED row  BY <1>3 DEF CheckBase, Goes
  <2>2. next \in Based /\ next \in Stages /\ next.base = s.base /\ next.head = s.head
        /\ next.at \in {"origin", "end"}
    BY <1>1 DEF Based, Stages
  <2>. HIDE DEF next
  <2>3. sync'[i] = next /\ Holds(i)' = Holds(i)  BY <2>1 DEF TypeOK, Holds
  <2>4. StageInv(sync[i], Holds(i))'
    BY <1>1, <1>3, <2>1, <2>2, <2>3 DEF StageInv, BaseIsExact, BaseIsBelow
  <2>. QED  BY <1>2, <2>1, <2>2, <2>4, ReadingStep
<1>4. CASE ~canonical /\ ~Holds(i)  BY <1>4, FailsKeeps DEF CheckBase
<1>5. CASE ~canonical /\ Holds(i)
  <2>. DEFINE next == [s EXCEPT !.at = "origin", !.base = NoCheckpoint]
  <2>1. sync' = [sync EXCEPT ![i] = next] /\ row' = [row EXCEPT !.checkpoint = NoCheckpoint]
    BY <1>5 DEF CheckBase, Goes
  <2>2. next \in Based /\ next \in Stages /\ next.base = NoCheckpoint /\ next.at = "origin"
    BY <1>1 DEF Based, Stages, Bases
  <2>. HIDE DEF next
  <2>3. /\ sync' \in [Instances -> Stages] /\ sync'[i] = next
        /\ \A j \in Instances \ {i} : sync'[j] = sync[j]
    BY <2>1, <2>2 DEF TypeOK
  <2>4. /\ row' \in [checkpoint : Bases, origin : Origins, lease : Leases]
        /\ row'.checkpoint = NoCheckpoint /\ row'.lease = row.lease
    BY <2>1 DEF TypeOK, Bases
  <2>5. StageInv(sync[i], Holds(i))'
    BY <2>2, <2>3, <2>4 DEF StageInv, BaseIsExact, BaseIsBelow
  <2>6. \A j \in Instances \ {i} : ~Holds(j)'  BY <1>5, <2>4 DEF Holds
  <2>7. BaseIsExact(row'.checkpoint) /\ faults' \in Nat /\ faults <= faults'
    BY <1>2, <2>4 DEF BaseIsExact, TypeOK
  <2>. QED  BY <1>2, <2>3, <2>4, <2>5, <2>6, <2>7, InstanceStep
<1>. QED  BY <1>3, <1>4, <1>5

(* The origin is not read by what is to be shown. *)
LEMMA OriginStep ==
    ASSUME HistoryInv, NEW i \in Instances, NEW next \in Based, NEW origin \in Origins,
           UNCHANGED <<chain, faults, global>>, sync' = [sync EXCEPT ![i] = next],
           sync[i].at \in {"origin", "save_origin"}, next.at \in {"save_origin", "end"},
           next.base = sync[i].base, next.head = sync[i].head,
           row' = [row EXCEPT !.origin = origin]
    PROVE  HistoryInv'
<1>. USE DEF HistoryInv
<1>1. /\ sync' \in [Instances -> Stages] /\ sync'[i] = next
      /\ \A j \in Instances \ {i} : sync'[j] = sync[j]
  BY DEF TypeOK, Stages
<1>2. /\ row' \in [checkpoint : Bases, origin : Origins, lease : Leases]
      /\ row'.checkpoint = row.checkpoint /\ row'.lease = row.lease
  BY DEF TypeOK
<1>3. \A j \in Instances : Holds(j)' = Holds(j)  BY <1>2 DEF Holds
<1>4. StageInv(sync[i], Holds(i))  OBVIOUS
<1>5. StageInv(sync[i], Holds(i))'
  BY <1>1, <1>2, <1>3, <1>4 DEF StageInv, BaseIsExact, BaseIsBelow
<1>6. BaseIsExact(row'.checkpoint) /\ faults' \in Nat /\ faults <= faults' /\ global' \in Leases
  BY <1>2 DEF TypeOK, BaseIsExact
<1>. QED  BY <1>1, <1>2, <1>3, <1>5, <1>6, InstanceStep

LEMMA FindOriginKeeps == ASSUME HistoryInv, NEW i \in Instances, FindOrigin(i)  PROVE HistoryInv'
<1>. USE DEF HistoryInv
<1>. DEFINE s == sync[i]
            stored == s.origin # NoCheckpoint /\ IsOn(chain, s.origin)
<1>1. s \in Based /\ s.at = "origin"  BY SyncOf DEF FindOrigin
<1>2. CASE stored
  <2>. DEFINE next == [s EXCEPT !.at = "save_origin"]
  <2>1. sync' = [sync EXCEPT ![i] = next] /\ UNCHANGED <<chain, faults, row, global>>
    BY <1>2 DEF FindOrigin, Goes
  <2>2. next \in Based /\ next.at = "save_origin" /\ next.base = s.base /\ next.head = s.head
    BY <1>1 DEF Based
  <2>3. row' = [row EXCEPT !.origin = row.origin] /\ row.origin \in Origins  BY <2>1 DEF TypeOK
  <2>. HIDE DEF next
  <2>. QED  BY <1>1, <2>1, <2>2, <2>3, OriginStep
<1>3. CASE ~stored /\ ~Holds(i)  BY <1>3, FailsKeeps DEF FindOrigin
<1>4. CASE ~stored /\ Holds(i)
  <2>. DEFINE next == [s EXCEPT !.at = "save_origin", !.origin = Hash(chain, 1)]
  <2>1. /\ sync' = [sync EXCEPT ![i] = next] /\ UNCHANGED <<chain, faults, global>>
        /\ row' = [row EXCEPT !.origin = NoCheckpoint]
    BY <1>4 DEF FindOrigin, Goes
  <2>2. Hash(chain, 1) \in Origins /\ NoCheckpoint \in Origins
    <3>1. 1 \in 0..Len(chain)  BY DEF TypeOK, Hashes
    <3>. QED  BY <3>1, HashIsPrefix DEF TypeOK, Origins
  <2>3. next \in Based /\ next.at = "save_origin" /\ next.base = s.base /\ next.head = s.head
    BY <1>1, <2>2 DEF Based
  <2>. HIDE DEF next
  <2>. QED  BY <1>1, <2>1, <2>2, <2>3, OriginStep
<1>. QED  BY <1>2, <1>3, <1>4

LEMMA SaveOriginKeeps == ASSUME HistoryInv, NEW i \in Instances, SaveOrigin(i)  PROVE HistoryInv'
<1>. USE DEF HistoryInv
<1>. DEFINE s == sync[i]
            next == [s EXCEPT !.at = "end"]
<1>1. s \in Based /\ s.at = "save_origin" /\ s.origin \in Origins  BY SyncOf DEF SaveOrigin, Based
<1>2. CASE ~Holds(i)  BY <1>2, FailsKeeps DEF SaveOrigin
<1>3. CASE Holds(i)
  <2>1. /\ sync' = [sync EXCEPT ![i] = next] /\ UNCHANGED <<chain, faults, global>>
        /\ row' = [row EXCEPT !.origin = s.origin]
    BY <1>3 DEF SaveOrigin, Goes
  <2>2. next \in Based /\ next.at = "end" /\ next.base = s.base /\ next.head = s.head  BY <1>1 DEF Based
  <2>. HIDE DEF next
  <2>. QED  BY <1>1, <2>1, <2>2, OriginStep
<1>. QED  BY <1>2, <1>3

(* The end is not below the base, for the head was not; and the node knows it. *)
LEMMA ReadEndKeeps == ASSUME HistoryInv, NEW i \in Instances, ReadEnd(i)  PROVE HistoryInv'
<1>. USE DEF HistoryInv
<1>. DEFINE s == sync[i]
            from == IF s.base = NoCheckpoint THEN 0 ELSE Len(s.base.through)
            n == IF from + MaxBlocks < s.head THEN from + MaxBlocks ELSE s.head
            next == [at |-> "anchor", base |-> s.base, end |-> Hash(chain, n)]
<1>1. s \in Based /\ s.at = "end" /\ StageInv(s, Holds(i))  BY SyncOf DEF ReadEnd
<1>2. UNCHANGED <<chain, faults, row, global>> /\ global' \in Leases  BY DEF ReadEnd, Goes, Fails, TypeOK
<1>3. CASE n > Len(chain)
  <2>1. ~(n <= Len(chain))  BY <1>1, <1>3, ChainHistoryAssumption DEF TypeOK, Hashes, Based, Bases, Checkpoints
  <2>. QED  BY <1>2, <2>1, FailsKeeps DEF ReadEnd
<1>4. CASE n <= Len(chain)
  <2>1. sync' = [sync EXCEPT ![i] = next]  BY <1>4 DEF ReadEnd, Goes
  <2>2. /\ from \in Nat /\ from <= s.head /\ s.head \in Nat \ {0}
        /\ s.base # NoCheckpoint => from = Len(s.base.through)
    <3>1. /\ s.head \in Nat \ {0} /\ s.base \in Bases
          /\ s.base # NoCheckpoint => Len(s.base.through) <= s.head
      BY <1>1 DEF StageInv, BaseIsBelow, Based
    <3>2. CASE s.base = NoCheckpoint
      BY <3>1, <3>2
    <3>3. CASE s.base # NoCheckpoint
      <4>1. Len(s.base.through) \in Nat
        BY <3>1, <3>3 DEF Bases, Checkpoints, Hashes
      <4>2. QED
        BY <3>1, <3>3, <4>1
    <3>4. QED
      BY <3>2, <3>3
  <2>3. n \in 1..Len(chain) /\ from <= n
    BY <1>4, <2>2, ChainHistoryAssumption DEF TypeOK, Hashes
  <2>. HIDE DEF n, from
  <2>4. Hash(chain, n) \in Hashes /\ Len(Hash(chain, n)) = n  BY <2>3, HashIsPrefix DEF TypeOK
  <2>5. Known(Hash(chain, n))  BY <2>3, HashIsKnown
  <2>6. next \in Stages  BY <1>1, <2>4 DEF Stages, Anchoring, Based
  <2>7. sync'[i] = next /\ Holds(i)' = Holds(i)  BY <1>2, <2>1 DEF TypeOK, Holds
  <2>8. Known(sync[i].end)'  BY <1>2, <2>5, <2>7 DEF Known, Diverged
  <2>9. StageInv(sync[i], Holds(i))'
    BY <1>1, <1>2, <2>2, <2>3, <2>4, <2>7, <2>8 DEF StageInv, BaseIsExact, BaseIsBelow
  <2>. HIDE DEF next
  <2>. QED  BY <1>2, <2>1, <2>6, <2>9, ReadingStep
<1>5. n \in Int /\ Len(chain) \in Int
  BY <1>1, ChainHistoryAssumption DEF TypeOK, Hashes, Based, Bases, Checkpoints
<1>. QED  BY <1>3, <1>4, <1>5

-----------------------------------------------------------------------------
(* Readings. *)

(* What a checkpoint holds may be continued: up to its block, it is what there is, unless *)
(* the new end has left the chain already.                                                *)
LEMMA ResumeHolds ==
    ASSUME chain \in Hashes, NEW end \in Hashes, NEW base \in Checkpoints,
           Known(end), Exact(base), IsOn(chain, base.through), Len(base.through) <= Len(end)
    PROVE  /\ Resume(end, base) \in Readings
           /\ LogsAreBlocks(Resume(end, base)) /\ NoneIsMissed(Resume(end, base))
           /\ Diverged(end) \/ IsOn(end, base.through)
<1>. DEFINE t == base.through
            r == Resume(end, base)
<1>1. t \in Hashes /\ base.logs \in SUBSET Hashes /\ Len(t) \in Nat /\ Len(end) \in Nat
  BY DEF Checkpoints, Hashes
<1>2. r = [end |-> end, next |-> Len(t) + 1, logs |-> base.logs]  BY DEF Resume
<1>3. base.logs = {Hash(t, m) : m \in {n \in DOMAIN t : t[n].log}} /\ DOMAIN t = 1..Len(t)
  BY <1>1 DEF Exact, LogsOf, Hashes
<1>4. r \in Readings  BY <1>1, <1>2 DEF Readings
<1>5. LogsAreBlocks(r)
  <2>. SUFFICES ASSUME NEW log \in base.logs  PROVE Len(log) \in 1..Len(end) /\ log[Len(log)].log
    BY <1>2 DEF LogsAreBlocks
  <2>1. PICK m \in 1..Len(t) : t[m].log /\ log = Hash(t, m)  BY <1>3
  <2>2. Len(log) = m /\ log[m] = t[m]  BY <1>1, <2>1, HashIsPrefix
  <2>. QED  BY <1>1, <2>1, <2>2
<1>6. Diverged(end) \/ IsOn(end, t)  BY <1>1, LowerIsOnHigher DEF Known
<1>7. NoneIsMissed(r)
  <2>. SUFFICES ASSUME IsOn(end, t), NEW n \in 1..Len(end), n < Len(t) + 1, end[n].log
                PROVE  Hash(end, n) \in base.logs
    BY <1>2, <1>6 DEF NoneIsMissed
  <2>1. n \in 1..Len(t) /\ n \in 0..Len(t)  BY <1>1
  <2>2. end[n] = t[n]  BY <1>1, <2>1, IsOnMeans
  <2>3. Hash(end, n) = Hash(t, n)  BY <1>1, <2>1, HashesAgree
  <2>. QED  BY <1>3, <2>1, <2>2, <2>3
<1>. QED  BY <1>4, <1>5, <1>6, <1>7

LEMMA RestartHolds ==
    ASSUME NEW end \in Hashes
    PROVE  Restart(end) \in Readings /\ LogsAreBlocks(Restart(end)) /\ NoneIsMissed(Restart(end))
BY DEF Restart, Readings, LogsAreBlocks, NoneIsMissed, Hashes

(* One chunk more: of the chain as it is now, which is the end's chain or for ever another. *)
LEMMA ChunkHolds ==
    ASSUME chain \in Hashes, NEW r \in Readings, ~Scanned(r), Known(r.end),
           LogsAreBlocks(r), NoneIsMissed(r)
    PROVE  /\ Chunk(chain, r) \in Readings /\ Chunk(chain, r).end = r.end
           /\ LogsAreBlocks(Chunk(chain, r)) /\ NoneIsMissed(Chunk(chain, r))
<1>. DEFINE logged == r.next \in DOMAIN chain /\ chain[r.next].log
            more == IF logged THEN {Hash(chain, r.next)} ELSE {}
            q == Chunk(chain, r)
<1>1. /\ r.end \in Hashes /\ r.next \in Nat \ {0} /\ r.logs \in SUBSET Hashes
      /\ Len(r.end) \in Nat /\ r.next <= Len(r.end) /\ Len(chain) \in Nat /\ DOMAIN chain = 1..Len(chain)
  BY DEF Readings, Hashes, Scanned
<1>2. q \in [end : {r.end}, next : {r.next + 1}, logs : {r.logs \cup more}]  BY DEF Chunk, Readings
<1>3. q.end = r.end /\ q.next = r.next + 1 /\ q.logs = r.logs \cup more  BY <1>2
<1>4. logged => /\ Hash(chain, r.next) \in Hashes /\ Len(Hash(chain, r.next)) = r.next
                /\ Hash(chain, r.next)[r.next] = chain[r.next]
  BY <1>1, HashIsPrefix
<1>5. q \in Readings  BY <1>1, <1>2, <1>4 DEF Readings
<1>6. LogsAreBlocks(q)  BY <1>1, <1>3, <1>4 DEF LogsAreBlocks
<1>7. NoneIsMissed(q)
  <2>. SUFFICES ASSUME ~Diverged(r.end), NEW n \in 1..Len(r.end), n < r.next + 1, r.end[n].log
                PROVE  Hash(r.end, n) \in r.logs \cup more
    BY <1>3 DEF NoneIsMissed, Diverged
  <2>1. CASE n < r.next  BY <2>1 DEF NoneIsMissed
  <2>2. CASE n = r.next
    <3>1. IsOn(chain, r.end)  BY DEF Known
    <3>2. Len(r.end) <= Len(chain) /\ chain[n] = r.end[n]  BY <1>1, <3>1, IsOnMeans
    <3>3. Hash(chain, n) = Hash(r.end, n)  BY <1>1, <3>1, HashesAgree
    <3>. QED  BY <1>1, <2>2, <3>2, <3>3
  <2>. QED  BY <1>1, <2>1, <2>2
<1>. HIDE DEF q
<1>. QED  BY <1>3, <1>5, <1>6, <1>7 DEF q

(* A reading that is confirmed is exact. *)
LEMMA ConfirmedIsExact ==
    ASSUME chain \in Hashes, NEW r \in Readings, Scanned(r), Confirmed(chain, r),
           LogsAreBlocks(r), NoneIsMissed(r)
    PROVE  Exact(Checkpoint(r))
<1>1. /\ r.end \in Hashes /\ r.next \in Nat /\ r.logs \in SUBSET Hashes
      /\ Len(r.end) \in Nat /\ r.next > Len(r.end) /\ DOMAIN r.end = 1..Len(r.end)
  BY DEF Readings, Hashes, Scanned
<1>2. IsOn(chain, r.end) /\ \A log \in r.logs : IsOn(chain, log)  BY DEF Confirmed
<1>3. ASSUME NEW log \in r.logs  PROVE log \in LogsOf(r.end)
  <2>1. Len(log) \in 1..Len(r.end) /\ log[Len(log)].log /\ log \in Hashes  BY <1>1 DEF LogsAreBlocks
  <2>2. IsOn(r.end, log)  BY <1>1, <1>2, <2>1, LowerIsOnHigher
  <2>3. Hash(r.end, Len(log)) = log  BY <2>2 DEF IsOn
  <2>4. r.end[Len(log)] = log[Len(log)]  BY <1>1, <2>1, <2>2, IsOnMeans
  <2>. QED  BY <1>1, <2>1, <2>3, <2>4 DEF LogsOf
<1>4. ASSUME NEW log \in LogsOf(r.end)  PROVE log \in r.logs
  <2>1. PICK n \in 1..Len(r.end) : r.end[n].log /\ log = Hash(r.end, n)  BY <1>1 DEF LogsOf
  <2>2. ~Diverged(r.end)  BY <1>1, <1>2, DivergedIsOff
  <2>. QED  BY <1>1, <2>1, <2>2 DEF NoneIsMissed
<1>. QED  BY <1>3, <1>4 DEF Exact, Checkpoint

(* A reading that is begun, or gone on with, so far without a mistake. *)
LEMMA ScanStep ==
    ASSUME HistoryInv, NEW i \in Instances, NEW r \in Readings,
           UNCHANGED <<chain, faults, row, global>>,
           sync' = [sync EXCEPT ![i] = [at |-> "scan", reading |-> r]],
           Known(r.end), LogsAreBlocks(r), NoneIsMissed(r),
           Holds(i) => Diverged(r.end) \/ Continues(r.end)
    PROVE  HistoryInv'
<1>. DEFINE next == [at |-> "scan", reading |-> r]
<1>1. next \in Stages  BY DEF Stages, Reading
<1>2. sync'[i] = next  BY DEF HistoryInv, TypeOK
<1>3. Known(r.end)' /\ LogsAreBlocks(r)' /\ NoneIsMissed(r)'
  BY DEF Known, Diverged, LogsAreBlocks, NoneIsMissed
<1>4. Diverged(r.end)' = Diverged(r.end) /\ Continues(r.end)' = Continues(r.end) /\ Holds(i)' = Holds(i)
  BY DEF Diverged, Continues, Holds
<1>5. StageInv(sync[i], Holds(i))'  BY <1>2, <1>3, <1>4 DEF StageInv
<1>6. global' \in Leases  BY DEF HistoryInv, TypeOK
<1>. HIDE DEF next
<1>. QED  BY <1>1, <1>5, <1>6, ReadingStep DEF next

LEMMA AnchorKeeps == ASSUME HistoryInv, NEW i \in Instances, Anchor(i)  PROVE HistoryInv'
<1>. USE DEF HistoryInv
<1>. DEFINE s == sync[i]
<1>1. /\ s \in Anchoring /\ s.at = "anchor" /\ StageInv(s, Holds(i))
      /\ s.base \in Bases /\ s.end \in Hashes
  BY SyncOf DEF Anchor, Anchoring
<1>2. /\ UNCHANGED <<chain, faults, row, global>> /\ global' \in Leases /\ Holds(i)' = Holds(i)
      /\ chain \in Hashes
  BY DEF Anchor, Goes, Fails, TypeOK, Holds
<1>3. Known(s.end) /\ BaseIsExact(s.base) /\ BaseIsBelow(s.base, Len(s.end))
      /\ (Holds(i) => s.base = row.checkpoint)
  BY <1>1 DEF StageInv
<1>4. ASSUME NEW r \in Readings, r.end = s.end, LogsAreBlocks(r), NoneIsMissed(r),
             s.base # NoCheckpoint => Diverged(s.end) \/ IsOn(s.end, s.base.through),
             sync' = [sync EXCEPT ![i] = [at |-> "scan", reading |-> r]]
      PROVE  HistoryInv'
  <2>1. Holds(i) => Diverged(r.end) \/ Continues(r.end)  BY <1>3, <1>4 DEF Continues
  <2>. QED  BY <1>2, <1>3, <1>4, <2>1, ScanStep
<1>5. CASE s.base = NoCheckpoint
  <2>1. sync' = [sync EXCEPT ![i] = [at |-> "scan", reading |-> Restart(s.end)]]
    BY <1>5 DEF Anchor, Goes
  <2>2. Restart(s.end).end = s.end  BY DEF Restart
  <2>. QED  BY <1>1, <1>4, <1>5, <2>1, <2>2, RestartHolds
<1>6. CASE s.base # NoCheckpoint /\ AnchorHolds(s.base)
  <2>1. sync' = [sync EXCEPT ![i] = [at |-> "scan", reading |-> Resume(s.end, s.base)]]
    BY <1>6 DEF Anchor, Goes
  <2>2. s.base \in Checkpoints /\ Exact(s.base) /\ Len(s.base.through) <= Len(s.end)
    BY <1>1, <1>3, <1>6 DEF Bases, BaseIsExact, BaseIsBelow
  <2>3. /\ Resume(s.end, s.base) \in Readings
        /\ LogsAreBlocks(Resume(s.end, s.base)) /\ NoneIsMissed(Resume(s.end, s.base))
        /\ Diverged(s.end) \/ IsOn(s.end, s.base.through)
    BY <1>1, <1>2, <1>3, <1>6, <2>2, ResumeHolds DEF AnchorHolds
  <2>4. Resume(s.end, s.base).end = s.end  BY DEF Resume
  <2>. QED  BY <1>4, <2>1, <2>3, <2>4
<1>7. CASE s.base # NoCheckpoint /\ ~AnchorHolds(s.base)
  BY <1>2, <1>7, FailsKeeps DEF Anchor
<1>. QED  BY <1>5, <1>6, <1>7

(* What an instance that scans, compares or saves has to go on from. *)
LEMMA ReadingOf ==
    ASSUME HistoryInv, NEW i \in Instances, sync[i].at \in {"scan", "supply", "save"}
    PROVE  /\ sync[i] \in Reading /\ sync[i].reading \in Readings /\ sync[i].reading.end \in Hashes
           /\ chain \in Hashes /\ global \in Leases /\ StageInv(sync[i], Holds(i))
BY SyncOf DEF HistoryInv, TypeOK, Reading, Readings

LEMMA ScanKeeps == ASSUME HistoryInv, NEW i \in Instances, Scan(i)  PROVE HistoryInv'
<1>. DEFINE s == sync[i]
            r == s.reading
            q == Chunk(chain, r)
<1>1. /\ s \in Reading /\ r \in Readings /\ chain \in Hashes /\ s.at = "scan" /\ StageInv(s, Holds(i))
      /\ ~Scanned(r) /\ UNCHANGED <<chain, faults, row, global>>
  BY ReadingOf DEF Scan, Goes
<1>2. q \in Readings /\ q.end = r.end /\ LogsAreBlocks(q) /\ NoneIsMissed(q)
  BY <1>1, ChunkHolds DEF StageInv
<1>3. [s EXCEPT !.reading = q] = [at |-> "scan", reading |-> q]  BY <1>1 DEF Reading
<1>4. sync' = [sync EXCEPT ![i] = [at |-> "scan", reading |-> q]]  BY <1>3 DEF Scan, Goes
<1>5. Known(q.end) /\ (Holds(i) => Diverged(q.end) \/ Continues(q.end))  BY <1>1, <1>2 DEF StageInv
<1>. HIDE DEF q
<1>. QED  BY <1>1, <1>2, <1>4, <1>5, ScanStep

(* A reading that was confirmed, and still to be saved, continues what the holder found. *)
LEMMA ConfirmedStep ==
    ASSUME HistoryInv, NEW i \in Instances, NEW r \in Readings, NEW at \in {"supply", "save"},
           UNCHANGED <<chain, faults, row, global>>,
           sync' = [sync EXCEPT ![i] = [at |-> at, reading |-> r]],
           Known(r.end), Exact(Checkpoint(r)), Holds(i) => Continues(r.end)
    PROVE  HistoryInv'
<1>. DEFINE next == [at |-> at, reading |-> r]
<1>1. next \in Stages  BY DEF Stages, Reading
<1>2. sync'[i] = next  BY DEF HistoryInv, TypeOK
<1>3. Known(r.end)' /\ Continues(r.end)' = Continues(r.end) /\ Holds(i)' = Holds(i)
  BY DEF Known, Diverged, Continues, Holds
<1>4. StageInv(sync[i], Holds(i))'  BY <1>2, <1>3 DEF StageInv
<1>5. global' \in Leases  BY DEF HistoryInv, TypeOK
<1>. HIDE DEF next
<1>. QED  BY <1>1, <1>4, <1>5, ReadingStep DEF next

LEMMA ConfirmKeeps == ASSUME HistoryInv, NEW i \in Instances, Confirm(i)  PROVE HistoryInv'
<1>. DEFINE s == sync[i]
            r == s.reading
<1>1. /\ s \in Reading /\ r \in Readings /\ r.end \in Hashes /\ chain \in Hashes
      /\ s.at = "scan" /\ StageInv(s, Holds(i)) /\ Scanned(r) /\ UNCHANGED <<row, global>>
  BY ReadingOf DEF Confirm
<1>2. CASE Confirmed(chain, r)
  <2>1. Exact(Checkpoint(r))  BY <1>1, <1>2, ConfirmedIsExact DEF StageInv
  <2>2. ~Diverged(r.end)  BY <1>1, <1>2, DivergedIsOff DEF Confirmed
  <2>3. Known(r.end) /\ (Holds(i) => Continues(r.end))  BY <1>1, <2>2 DEF StageInv
  <2>4. [s EXCEPT !.at = "supply"] = [at |-> "supply", reading |-> r]  BY <1>1 DEF Reading
  <2>5. sync' = [sync EXCEPT ![i] = [at |-> "supply", reading |-> r]] /\ UNCHANGED <<chain, faults>>
    BY <1>2, <2>4 DEF Confirm, Goes
  <2>. QED  BY <1>1, <2>1, <2>3, <2>5, ConfirmedStep
<1>3. CASE ~Confirmed(chain, r)  BY <1>1, <1>3, FailsKeeps DEF Confirm
<1>. QED  BY <1>2, <1>3

LEMMA CompareSupplyKeeps == ASSUME HistoryInv, NEW i \in Instances, CompareSupply(i)  PROVE HistoryInv'
<1>. DEFINE s == sync[i]
            r == s.reading
<1>1. /\ s \in Reading /\ r \in Readings /\ s.at = "supply" /\ StageInv(s, Holds(i))
      /\ UNCHANGED <<row, global>>
  BY ReadingOf DEF CompareSupply
<1>2. CASE IsOn(chain, r.end)
  <2>1. [s EXCEPT !.at = "save"] = [at |-> "save", reading |-> r]  BY <1>1 DEF Reading
  <2>2. sync' = [sync EXCEPT ![i] = [at |-> "save", reading |-> r]] /\ UNCHANGED <<chain, faults>>
    BY <1>2, <2>1 DEF CompareSupply, Goes
  <2>. QED  BY <1>1, <2>2, ConfirmedStep DEF StageInv
<1>3. CASE ~IsOn(chain, r.end)  BY <1>1, <1>3, FailsKeeps DEF CompareSupply
<1>. QED  BY <1>2, <1>3

(* The save of the holder publishes; that of a late one writes nothing. *)
LEMMA SavePublishes ==
    ASSUME HistoryInv, NEW i \in Instances, Save(i), Holds(i)
    PROVE  /\ sync[i].reading \in Readings
           /\ row'.checkpoint = Checkpoint(sync[i].reading) /\ row'.lease = row.lease
           /\ row' \in [checkpoint : Bases, origin : Origins, lease : Leases]
           /\ Exact(row'.checkpoint) /\ Continues(row'.checkpoint.through)
<1>. DEFINE r == sync[i].reading
<1>1. /\ r \in Readings /\ r.end \in Hashes /\ StageInv(sync[i], Holds(i)) /\ sync[i].at = "save"
  BY ReadingOf DEF Save
<1>2. row' = [row EXCEPT !.checkpoint = Checkpoint(r), !.origin = Hash(r.end, 1)]  BY DEF Save
<1>3. Checkpoint(r) \in Bases /\ Checkpoint(r).through = r.end
  BY <1>1 DEF Checkpoint, Bases, Checkpoints, Readings
<1>4. Hash(r.end, 1) \in Hashes
  <2>1. 1 \in 0..Len(r.end)  BY <1>1 DEF StageInv, Known, Hashes
  <2>. QED  BY <1>1, <2>1, HashIsPrefix
<1>5. /\ row' \in [checkpoint : Bases, origin : Origins, lease : Leases]
      /\ row'.checkpoint = Checkpoint(r) /\ row'.lease = row.lease
  BY <1>2, <1>3, <1>4 DEF HistoryInv, TypeOK, Origins
<1>. QED  BY <1>1, <1>3, <1>5 DEF StageInv

LEMMA SaveKeeps == ASSUME HistoryInv, NEW i \in Instances, Save(i)  PROVE HistoryInv'
<1>1. CASE ~Holds(i)  BY <1>1, FailsKeeps DEF Save
<1>2. CASE Holds(i)
  <2>. DEFINE next == [at |-> "release"]
  <2>1. /\ sync' = [sync EXCEPT ![i] = next] /\ UNCHANGED <<chain, faults, global>>
        /\ next \in Bare /\ next \in Stages
    BY DEF Save, Fails, Goes, Bare, Stages
  <2>2. /\ row' \in [checkpoint : Bases, origin : Origins, lease : Leases]
        /\ row'.lease = row.lease /\ BaseIsExact(row'.checkpoint)
    BY <1>2, SavePublishes DEF BaseIsExact
  <2>3. /\ sync' \in [Instances -> Stages] /\ sync'[i] = next
        /\ \A j \in Instances \ {i} : sync'[j] = sync[j]
    BY <2>1 DEF HistoryInv, TypeOK
  <2>4. StageInv(sync[i], Holds(i))'  BY <2>1, <2>3 DEF StageInv, Bare
  <2>5. \A j \in Instances \ {i} : ~Holds(j)'  BY <1>2, <2>2 DEF Holds
  <2>6. faults' \in Nat /\ faults <= faults' /\ global' \in Leases  BY <2>1 DEF HistoryInv, TypeOK
  <2>. QED  BY <2>1, <2>2, <2>3, <2>4, <2>5, <2>6, InstanceStep
<1>. QED  BY <1>1, <1>2

LEMMA ReleaseKeeps == ASSUME HistoryInv, NEW i \in Instances, Release(i)  PROVE HistoryInv'
<1>. DEFINE next == [at |-> "release_global"]
<1>1. /\ sync' = [sync EXCEPT ![i] = next] /\ UNCHANGED <<chain, faults, global>>
      /\ row' = [row EXCEPT !.lease = Released(row.lease, i)] /\ next \in Stages
  BY DEF Release, Goes, Bare, Stages
<1>2. Released(row.lease, i) \in Leases /\ (Released(row.lease, i).live => Released(row.lease, i) = row.lease)
  BY RowOf DEF HistoryInv, Released, Free, Leases
<1>3. /\ row' \in [checkpoint : Bases, origin : Origins, lease : Leases]
      /\ row'.checkpoint = row.checkpoint /\ row'.lease = Released(row.lease, i)
  BY <1>1, <1>2 DEF HistoryInv, TypeOK
<1>4. /\ sync' \in [Instances -> Stages] /\ sync'[i] = next
      /\ \A j \in Instances \ {i} : sync'[j] = sync[j]
  BY <1>1 DEF HistoryInv, TypeOK
<1>5. StageInv(sync[i], Holds(i))'  BY <1>4 DEF StageInv
<1>6. \A j \in Instances \ {i} : Holds(j)' => Holds(j) /\ row'.checkpoint = row.checkpoint
  BY <1>2, <1>3 DEF Holds
<1>7. /\ faults' \in Nat /\ faults <= faults' /\ global' \in Leases /\ BaseIsExact(row'.checkpoint)
  BY <1>1, <1>3 DEF HistoryInv, TypeOK
<1>. QED  BY <1>1, <1>3, <1>4, <1>5, <1>6, <1>7, InstanceStep

-----------------------------------------------------------------------------
(* All the steps. *)

LeaseSteps == LeaseRunsOut \/ GlobalRunsOut

(* A lease that runs out ties nobody. *)
LEMMA LeaseStepsKeep == ASSUME HistoryInv, LeaseSteps  PROVE HistoryInv'
<1>. USE DEF HistoryInv
<1>1. UNCHANGED <<chain, sync>> /\ faults' \in Nat /\ faults <= faults'
  BY DEF LeaseSteps, LeaseRunsOut, GlobalRunsOut, Late, Fault, TypeOK
<1>2. /\ row' \in [checkpoint : Bases, origin : Origins, lease : Leases] /\ global' \in Leases
      /\ row'.checkpoint = row.checkpoint /\ row'.lease.holder = row.lease.holder
      /\ row'.lease.live => row.lease.live
  <2>1. CASE LeaseRunsOut  BY <2>1 DEF LeaseRunsOut, TypeOK, Leases
  <2>2. CASE GlobalRunsOut  BY <2>2 DEF GlobalRunsOut, TypeOK, Leases
  <2>. QED  BY <2>1, <2>2 DEF LeaseSteps
<1>3. \A j \in Instances : Holds(j)' => Holds(j)  BY <1>2 DEF Holds
<1>4. TypeOK' /\ BaseIsExact(row.checkpoint)'  BY <1>1, <1>2 DEF BaseIsExact, TypeOK
<1>5. \A j \in Instances : StageInv(sync[j], Holds(j))'  BY <1>1, <1>2, <1>3, StageStays
<1>6. (\A n \in 1..Len(chain) : chain[n].fork <= faults)'  BY <1>1, ForksStay
<1>. QED  BY <1>4, <1>5, <1>6

LEMMA InitHolds == Init => HistoryInv
<1>. SUFFICES ASSUME Init  PROVE HistoryInv  OBVIOUS
<1>1. chain \in Hashes /\ Len(chain) = 1 /\ chain[1].fork = 0  BY DEF Init, Hashes, Block
<1>2. /\ row \in [checkpoint : Bases, origin : Origins, lease : Leases] /\ global \in Leases
      /\ row.checkpoint = NoCheckpoint
  BY DEF Init, Bases, Origins, Leases, Free
<1>3. sync \in [Instances -> Stages] /\ \A i \in Instances : sync[i] = Idle
  BY DEF Init, Stages, Bare, Idle
<1>. QED  BY <1>1, <1>2, <1>3 DEF Init, HistoryInv, TypeOK, BaseIsExact, StageInv, Idle

LEMMA NextKeeps == ASSUME HistoryInv, [Next]_vars  PROVE HistoryInv'
<1>1. CASE Mine
  <2>1. UNCHANGED <<row, global, sync>>  BY <1>1 DEF Mine
  <2>. QED  BY <1>1, <2>1, MineKeepsHashes, ChainStep
<1>2. CASE Reorganise
  <2>1. UNCHANGED <<row, global, sync>>  BY <1>2 DEF Reorganise
  <2>. QED  BY <1>2, <2>1, ReorganiseKeepsHashes, ChainStep
<1>3. CASE LeaseSteps  BY <1>3, LeaseStepsKeep
<1>4. ASSUME NEW i \in Instances, Step(i)  PROVE HistoryInv'
  BY <1>4, ClaimGlobalKeeps, ClaimMarketKeeps, ReadHeadKeeps, CheckBaseKeeps, FindOriginKeeps,
     SaveOriginKeeps, ReadEndKeeps, AnchorKeeps, ScanKeeps, ConfirmKeeps, CompareSupplyKeeps,
     SaveKeeps, ReleaseKeeps, ReleaseGlobalKeeps
  DEF Step
<1>5. ASSUME NEW i \in Instances, Request(i) \/ Gives(i) \/ Crash(i)  PROVE HistoryInv'
  BY <1>5, RequestKeeps, GivesKeeps
<1>6. CASE UNCHANGED vars
  <2>1. UNCHANGED <<chain, faults, row, global, sync>>  BY <1>6 DEF vars
  <2>. QED
    BY <2>1 DEF HistoryInv, TypeOK, BaseIsExact, Exact, StageInv, Holds, BaseIsBelow, Known, Diverged,
                LogsAreBlocks, NoneIsMissed, Continues
<1>. QED  BY <1>1, <1>2, <1>3, <1>4, <1>5, <1>6 DEF Next, LeaseSteps

-----------------------------------------------------------------------------
(* What readers see. *)

(* A step that changes the checkpoint is a save of the holder, or drops it. *)
LEMMA StepImplements ==
    ASSUME HistoryInv, [Next]_vars, row'.checkpoint # row.checkpoint
    PROVE  (Index!Drop \/ Index!Publish) /\ UNCHANGED chain
<1>1. PICK i \in Instances : CheckBase(i) \/ Save(i)
  BY ZenonT(40)
     DEF Next, vars, Step, Mine, Reorganise, LeaseRunsOut, GlobalRunsOut, Request, ClaimGlobal, ClaimMarket,
     ReadHead, FindOrigin, SaveOrigin, ReadEnd, Anchor, Scan, Confirm, CompareSupply,
     Release, ReleaseGlobal, Gives, Crash, HistoryInv, TypeOK
<1>2. CASE CheckBase(i)
  <2>1. row' = [row EXCEPT !.checkpoint = NoCheckpoint] /\ UNCHANGED chain
    BY <1>2 DEF CheckBase, Goes, Fails
  <2>. QED  BY <2>1 DEF Index!Drop, HistoryInv, TypeOK
<1>3. CASE Save(i)
  <2>1. Holds(i) /\ UNCHANGED chain  BY <1>3 DEF Save, Fails, Goes
  <2>2. Exact(row'.checkpoint) /\ Continues(row'.checkpoint.through)  BY <1>3, <2>1, SavePublishes
  <2>. QED
    BY SMTT(20), <2>1, <2>2
    DEF Index!Drop, Index!Publish, Index!Exact, Index!LogsOf, Index!IsOn, Index!Hash,
        Exact, LogsOf, IsOn, Hash, Continues
<1>. QED  BY <1>1, <1>2, <1>3

(* What the synchronisation relies on while it works holds always. *)
THEOREM HistoryInvariant == Spec => []HistoryInv
<1>1. HistoryInv /\ [Next]_vars => HistoryInv'  BY NextKeeps
<1>. QED  BY <1>1, InitHolds, PTL DEF Spec

(* The shared index implements what HistoryIndex promises: the row is empty, or holds what *)
(* the market logged up to one block of one chain, however the instances, the leases and   *)
(* the chain interleave, and only grows along that chain or is dropped.                    *)
THEOREM Refinement == Spec => RefinesIndex
<1>1. HistoryInv /\ [Next]_vars => HistoryInv'  BY NextKeeps
<1>2. Init => Index!IndexInit  BY DEF Init, Index!IndexInit
<1>3. HistoryInv /\ [Next]_vars => [(Index!Drop \/ Index!Publish) /\ UNCHANGED chain]_(row.checkpoint)
  BY StepImplements
<1>. QED  BY <1>1, <1>2, <1>3, InitHolds, PTL DEF Spec, RefinesIndex, Index!IndexSpec

(* The book of the paper market. *)

\* Its finite sets and their sizes are those of FiniteSets.
LEMMA CountingIs == \A S : Paper!IsFiniteSet(S) = IsFiniteSet(S) /\ Paper!Cardinality(S) = Cardinality(S)
  BY DEF Paper!IsFiniteSet, Paper!Cardinality, IsFiniteSet, Cardinality

\* The sums of the paper server's market are those of SumLemmas.
LEMMA SumFunctionIs == \A f : Paper!SumFunction(f) = SumFunctionOnSet(f, DOMAIN f)
  BY DEF Paper!SumFunction, Paper!SumFunctionOnSet, Paper!FoldFunctionOnSet, Paper!MapThenFoldSet,
         SumFunctionOnSet, FoldFunctionOnSet, MapThenFoldSet

Total(f) == SumFunctionOnSet(f, Accounts)
Players == Cardinality(Accounts)

LEMMA UsersFinite == IsFiniteSet(Accounts) /\ Players \in Nat /\ Accounts # {}
  BY PaperAssumption, CountingIs, FS_CardinalityType DEF Paper!PaperMarketAssumption, Players

LEMMA TotalIs == \A f : DOMAIN f = Accounts => Paper!SumFunction(f) = Total(f)
  BY SumFunctionIs DEF Total

\* Rounded parts of an amount: nothing too much, and less than a unit lost for each.
LEMMA PartType ==
    ASSUME NEW A \in Nat, NEW p \in Nat, NEW D \in Nat
    PROVE  /\ Paper!Part(A, p, D) \in Nat
           /\ D > 0 => Paper!Part(A, p, D) * D <= A * p /\ A * p <= Paper!Part(A, p, D) * D + D - 1
           /\ D = 0 => Paper!Part(A, p, D) = 0
           /\ p = 0 => Paper!Part(A, p, D) = 0
  <1>1. A * p \in Nat
    OBVIOUS
  <1>2. CASE D = 0
    BY <1>2 DEF Paper!Part
  <1>3. CASE D > 0
    <2>1. PICK x \in Nat : x = A * p
      BY <1>1
    <2>2. /\ x \div D \in Nat /\ (x \div D) * D <= x /\ x <= (x \div D) * D + D - 1
      BY <1>3
    <2>3. Paper!Part(A, p, D) = x \div D
      BY <2>1, <1>3 DEF Paper!Part
    <2>4. p = 0 => x = 0
      BY <2>1
    <2>5. x = 0 => x \div D = 0
      BY <1>3
    <2>6. QED
      BY <2>1, <2>2, <2>3, <2>4, <2>5, <1>3
  <1>4. QED
    BY <1>2, <1>3

LEMMA OnesAdd == Total([u \in Accounts |-> 1]) = Players
  <1> DEFINE one == [u \in Accounts |-> 1]
             Counted == {T \in SUBSET Accounts : SumFunctionOnSet(one, T) = Cardinality(T)}
  <1>1. ASSUME NEW T \in SUBSET Accounts, \A U \in SUBSET T : U # T => U \in Counted
        PROVE  T \in Counted
    <2>0. IsFiniteSet(T) /\ \A x \in T : one[x] \in Int /\ one[x] = 1
      BY UsersFinite, FS_Subset
    <2>1. CASE T = {}
      BY <2>1, SumEmpty, FS_EmptySet
    <2>2. CASE T # {}
      <3>1. PICK x \in T : TRUE
        BY <2>2
      <3>2. PICK U : U = T \ {x}
        OBVIOUS
      <3>3. U \in SUBSET T /\ U # T /\ U \in SUBSET Accounts
        BY <3>1, <3>2
      <3>4. SumFunctionOnSet(one, U) = Cardinality(U)
        BY <1>1, <3>3
      <3>5. SumFunctionOnSet(one, T) = one[x] + SumFunctionOnSet(one, U)
        <4> HIDE DEF one
        <4> QED BY <2>0, <3>1, <3>2, SumRemove
      <3>6. Cardinality(U) = Cardinality(T) - 1 /\ Cardinality(T) \in Nat
        BY <2>0, <3>1, <3>2, FS_RemoveElement, FS_CardinalityType
      <3>7. QED
        BY <2>0, <3>1, <3>4, <3>5, <3>6
    <2>3. QED
      BY <2>1, <2>2
  <1> HIDE DEF Counted, one
  <1>2. \A T \in SUBSET Accounts : T \in Counted
    BY <1>1, UsersFinite, SubsetInduction
  <1>3. Accounts \in Counted
    BY <1>2
  <1>4. QED
    BY <1>3 DEF Counted, one, Total, Players

LEMMA TotalType == ASSUME NEW f, \A u \in Accounts : f[u] \in Nat PROVE Total(f) \in Nat
  BY UsersFinite, SumType DEF Total

LEMMA TotalAgrees == ASSUME NEW f, NEW g, \A u \in Accounts : f[u] = g[u] PROVE Total(f) = Total(g)
  BY UsersFinite, SumAgrees DEF Total

LEMMA TotalMoves ==
    ASSUME NEW f, NEW g, NEW u \in Accounts, \A v \in Accounts : f[v] \in Nat /\ g[v] \in Nat,
           \A v \in Accounts : v # u => f[v] = g[v]
    PROVE  Total(g) + f[u] = Total(f) + g[u]
  <1>1. \A v \in Accounts : f[v] \in Int /\ g[v] \in Int
    OBVIOUS
  <1>2. \A v \in Accounts \ {u} : f[v] = g[v]
    OBVIOUS
  <1>3. QED
    BY <1>1, <1>2, UsersFinite, SumUpdate DEF Total

LEMMA TotalTerm == ASSUME NEW f, \A v \in Accounts : f[v] \in Nat, NEW u \in Accounts PROVE f[u] <= Total(f)
  BY UsersFinite, TermAtMostSum DEF Total

LEMMA TotalAdds ==
    ASSUME NEW f, NEW g, NEW h, \A u \in Accounts : f[u] \in Nat /\ g[u] \in Nat /\ h[u] = f[u] + g[u]
    PROVE  Total(h) = Total(f) + Total(g)
  BY UsersFinite, SumAdds DEF Total

LEMMA TotalZero == ASSUME NEW f, \A u \in Accounts : f[u] = 0 PROVE Total(f) = 0
  BY UsersFinite, SumOfZeros DEF Total

LEMMA TotalAtMost ==
    ASSUME NEW f, NEW g, \A u \in Accounts : f[u] \in Nat /\ g[u] \in Nat /\ f[u] <= g[u]
    PROVE  Total(f) <= Total(g)
  BY UsersFinite, SumAtMost DEF Total

LEMMA TotalConstant ==
    ASSUME NEW c \in Nat
    PROVE  Total([u \in Accounts |-> c]) = c * Players
  <1> DEFINE one == [u \in Accounts |-> 1]
             f == [u \in Accounts |-> c]
  <1>1. \A u \in Accounts : one[u] \in Nat /\ f[u] = c * one[u]
    OBVIOUS
  <1> HIDE DEF one, f
  <1>2. SumFunctionOnSet(f, Accounts) = c * SumFunctionOnSet(one, Accounts)
    BY <1>1, UsersFinite, SumScales
  <1>3. QED
    BY <1>2, OnesAdd DEF Total, one, f

\* If whoever shares has the part of A that is his p of D, all that is lost is less than a unit each.
LEMMA PartsAdd ==
    ASSUME NEW p, NEW q, NEW A \in Nat, NEW D \in Nat,
           \A u \in Accounts : p[u] \in Nat /\ q[u] = Paper!Part(A, p[u], D),
           Total(p) = D
    PROVE  /\ \A u \in Accounts : q[u] \in Nat
           /\ Total(q) \in Nat
           /\ D > 0 => Total(q) <= A /\ A <= Total(q) + Players
           /\ D = 0 => Total(q) = 0
  <1>1. ASSUME NEW u \in Accounts PROVE q[u] \in Nat
    <2>1. p[u] \in Nat /\ q[u] = Paper!Part(A, p[u], D)
      OBVIOUS
    <2>2. Paper!Part(A, p[u], D) \in Nat
      BY <2>1, PartType
    <2>3. QED
      BY <2>1, <2>2
  <1>2. Total(q) \in Nat
    BY <1>1, TotalType
  <1>3. CASE D = 0
    <2>1. \A u \in Accounts : q[u] = 0
      BY <1>3, PartType
    <2>2. QED
      BY <1>1, <1>2, <1>3, <2>1, TotalZero
  <1>4. CASE D > 0
    <2>1. \A u \in Accounts : p[u] \in Nat /\ q[u] \in Nat /\ q[u] * D <= A * p[u]
      BY <1>1, <1>4, PartType
    <2>2. SumFunctionOnSet(p, Accounts) <= D
      BY DEF Total
    <2>3. Total(q) <= A
      BY <1>4, <2>1, <2>2, UsersFinite, SumProRata DEF Total
    <2> DEFINE ap == [u \in Accounts |-> A * p[u]]
               dq == [u \in Accounts |-> D * q[u]]
               d == [u \in Accounts |-> D]
               r == [u \in Accounts |-> dq[u] + d[u]]
    <2>4. \A u \in Accounts : /\ ap[u] = A * p[u] /\ dq[u] = D * q[u] /\ d[u] = D /\ r[u] = dq[u] + d[u]
                           /\ ap[u] \in Nat /\ dq[u] \in Nat /\ d[u] \in Nat /\ r[u] \in Nat
      <3> SUFFICES ASSUME NEW u \in Accounts PROVE D * q[u] \in Nat /\ A * p[u] \in Nat
        OBVIOUS
      <3>1. QED
        BY <1>1
    <2>5. \A u \in Accounts : ap[u] <= r[u]
      <3> SUFFICES ASSUME NEW u \in Accounts PROVE A * p[u] <= D * q[u] + D
        OBVIOUS
      <3>1. A * p[u] <= q[u] * D + D - 1 /\ q[u] \in Nat
        BY <1>1, <1>4, PartType
      <3>2. q[u] * D = D * q[u] /\ D * q[u] \in Nat /\ A * p[u] \in Nat
        BY <3>1
      <3>3. QED
        BY <3>1, <3>2
    <2>5a. d = [u \in Accounts |-> D]
      OBVIOUS
    <2> HIDE DEF ap, dq, d, r
    <2>6. Total(ap) <= Total(r)
      BY <2>4, <2>5, TotalAtMost
    <2>7. Total(r) = Total(dq) + Total(d)
      BY <2>4, TotalAdds
    <2>8. Total(ap) = A * Total(p)
      <3>1. \A u \in Accounts : p[u] \in Nat /\ ap[u] = A * p[u]
        BY <2>4
      <3>2. QED
        BY <3>1, UsersFinite, SumScales DEF Total
    <2>9. Total(dq) = D * Total(q)
      <3>1. \A u \in Accounts : q[u] \in Nat /\ dq[u] = D * q[u]
        BY <2>1, <2>4
      <3>2. QED
        BY <3>1, UsersFinite, SumScales DEF Total
    <2>10. Total(d) = D * Players
      BY <2>5a, TotalConstant
    <2>11. A * D <= D * Total(q) + D * Players
      BY <2>6, <2>7, <2>8, <2>9, <2>10
    <2>12. A <= Total(q) + Players
      <3>1. PICK x \in Nat, n \in Nat : x = Total(q) /\ n = Players
        BY <1>2, UsersFinite
      <3>2. A * D <= D * x + D * n
        BY <2>11, <3>1
      <3>3. SUFFICES ASSUME A >= x + n + 1 PROVE FALSE
        BY <3>1
      <3>4. A * D >= (x + n + 1) * D
        BY <3>3
      <3>5. (x + n + 1) * D = D * x + D * n + D
        OBVIOUS
      <3>6. D * x \in Nat /\ D * n \in Nat /\ A * D \in Nat
        OBVIOUS
      <3>7. QED
        BY <1>4, <3>2, <3>4, <3>5, <3>6
    <2>13. QED
      BY <1>1, <1>2, <1>4, <2>3, <2>12
  <1>5. QED
    BY <1>3, <1>4

-----------------------------------------------------------------------------
(* The shape of a market. *)
Books == [Paper!Outcome -> Nat]
AccountRecords ==
    [wallet : Nat, g : Nat, lp : Nat, held : [Paper!Side -> Nat], refund : Nat,
          side : Paper!Outcome \cup {Nobody},
     stake : Nat, reward : Books, claimed : BOOLEAN]
Proposals == [proposer : Accounts, side : Paper!Side, after : Int]
Cores == [open : BOOLEAN, pool : Books, cash : Nat, fees : Nat, official : Books]
Earlies == [pending : Proposals \cup {Nobody}, penalty : Nat, failed : Nat, forfeited : Books]
BudgetBooks == [lp : Nat, outcomes : Nat, failed : Nat, core : Nat, official : Nat]
Shape ==
    [phase |-> {"GENESIS", "FORMAL", "WAIT_CORE", "SETTLED", "FAILED"}, now |-> Nat, R |-> Nat, S |-> Int,
     b |-> Nat, M0 |-> Nat, cash |-> Nat, lpFees |-> Nat, creatorFees |-> Nat, protocolFees |-> Nat,
     lpSupply |-> Int, result |-> Paper!Outcome \cup {Nobody}, accounts |-> [Accounts -> AccountRecords],
           core |-> Cores,
     early |-> Earlies, budget |-> BudgetBooks, initial |-> [lp : Nat, supply : Nat],
           payouts |-> [Accounts -> Nat]]
Fields == DOMAIN Shape
WellTyped(m) == Fields \subseteq DOMAIN m /\ \A f \in Fields : m[f] \in Shape[f]

LEMMA FieldsAre ==
    Fields = {"phase", "now", "R", "S", "b", "M0", "cash", "lpFees", "creatorFees", "protocolFees", "lpSupply",
              "result", "accounts", "core", "early", "budget", "initial", "payouts"}
  BY DEF Fields, Shape

LEMMA TypedIs ==
    ASSUME NEW m, WellTyped(m)
    PROVE  /\ Fields \subseteq DOMAIN m
           /\ m.phase \in {"GENESIS", "FORMAL", "WAIT_CORE", "SETTLED", "FAILED"}
           /\ m.now \in Nat /\ m.R \in Nat /\ m.S \in Int /\ m.b \in Nat /\ m.M0 \in Nat /\ m.cash \in Nat
           /\ m.lpFees \in Nat /\ m.creatorFees \in Nat /\ m.protocolFees \in Nat /\ m.lpSupply \in Int
           /\ m.result \in Paper!Outcome \cup {Nobody}
           /\ m.accounts \in [Accounts -> AccountRecords]
           /\ m.core \in Cores /\ m.early \in Earlies /\ m.budget \in BudgetBooks
           /\ m.initial \in [lp : Nat, supply : Nat] /\ m.payouts \in [Accounts -> Nat]
  <1>1. \A f \in Fields : m[f] \in Shape[f]
    BY DEF WellTyped
  <1>2. m.phase \in Shape.phase /\ m.now \in Shape.now /\ m.R \in Shape.R /\ m.S \in Shape.S /\ m.b \in Shape.b
    BY <1>1, FieldsAre
  <1>3. m.M0 \in Shape.M0 /\ m.cash \in Shape.cash /\ m.lpFees \in Shape.lpFees
    BY <1>1, FieldsAre
  <1>4. m.creatorFees \in Shape.creatorFees /\ m.protocolFees \in Shape.protocolFees
        /\ m.lpSupply \in Shape.lpSupply
    BY <1>1, FieldsAre
  <1>5. m.result \in Shape.result /\ m.accounts \in Shape.accounts /\ m.core \in Shape.core
        /\ m.early \in Shape.early
    BY <1>1, FieldsAre
  <1>6. m.budget \in Shape.budget /\ m.initial \in Shape.initial /\ m.payouts \in Shape.payouts
    BY <1>1, FieldsAre
  <1>7. QED
    BY <1>2, <1>3, <1>4, <1>5, <1>6 DEF Shape, WellTyped

\* r is m but for some fields.
Same(m, r, but) == Fields \subseteq DOMAIN r /\ \A f \in Fields \ but : r[f] = m[f]
Own == {"wallet", "g", "lp", "held", "refund", "side", "stake", "reward", "claimed"}
\* The accounts of r are those of m but for some fields of that of u.
SameAccount(m, r, u, but) ==
    /\ r.accounts \in [Accounts -> AccountRecords]
    /\ \A v \in Accounts : v # u => r.accounts[v] = m.accounts[v]
    /\ \A f \in Own \ but : r.accounts[u][f] = m.accounts[u][f]

LEMMA TypedKept ==
    ASSUME NEW m, WellTyped(m), NEW r, NEW but, Same(m, r, but), \A f \in but : r[f] \in Shape[f]
    PROVE  WellTyped(r)
  BY DEF WellTyped, Same

LEMMA AccountIs ==
    ASSUME NEW m, WellTyped(m), NEW u \in Accounts
    PROVE  LET a == m.accounts[u]
           IN  /\ a \in AccountRecords /\ Own = DOMAIN a
               /\ a.wallet \in Nat /\ a.g \in Nat /\ a.lp \in Nat /\ a.held \in [Paper!Side -> Nat]
                  /\ a.refund \in Nat
               /\ a.side \in Paper!Outcome \cup {Nobody} /\ a.stake \in Nat /\ a.reward \in Books
                  /\ a.claimed \in BOOLEAN
  <1>1. m.accounts[u] \in AccountRecords
    BY TypedIs
  <1>2. QED
    BY <1>1 DEF AccountRecords, Own

Rewritten(m, r, u, a) ==
    /\ Same(m, r, {"accounts"}) /\ WellTyped(r)
    /\ r.accounts \in [Accounts -> AccountRecords] /\ r.accounts[u] = a
    /\ \A v \in Accounts : v # u => r.accounts[v] = m.accounts[v]
LEMMA NewAccount ==
    ASSUME NEW m, WellTyped(m), NEW u \in Accounts, NEW a \in AccountRecords, NEW r,
           r = [m EXCEPT !.accounts[u] = a]
    PROVE  Rewritten(m, r, u, a)
  <1>1. PICK as : as = [m.accounts EXCEPT ![u] = a]
    OBVIOUS
  <1>2. m.accounts \in [Accounts -> AccountRecords] /\ Fields \subseteq DOMAIN m
    BY TypedIs
  <1>3. as \in [Accounts -> AccountRecords] /\ as[u] = a /\ \A v \in Accounts : v # u => as[v] = m.accounts[v]
    BY <1>1, <1>2
  <1>4. r = [m EXCEPT !.accounts = as]
    BY <1>1
  <1>5. r.accounts = as /\ Same(m, r, {"accounts"})
    BY <1>2, <1>4, FieldsAre DEF Same
  <1>6. WellTyped(r)
    <2>1. r["accounts"] \in Shape["accounts"]
      BY <1>3, <1>5 DEF Shape
    <2>2. \A f \in {"accounts"} : r[f] \in Shape[f]
      BY <2>1
    <2>3. QED
      BY <1>5, <2>2, TypedKept
  <1>7. QED
    BY <1>3, <1>5, <1>6 DEF Rewritten

LEMMA PayGives ==
    ASSUME NEW m, WellTyped(m), NEW u \in Accounts, NEW x \in Nat, x <= m.accounts[u].wallet, NEW r,
           r = Paper!Pay(m, u, x)
    PROVE  /\ Same(m, r, {"accounts"}) /\ SameAccount(m, r, u, {"wallet"}) /\ WellTyped(r)
           /\ r.accounts[u].wallet = m.accounts[u].wallet - x
  <1>1. PICK a : a = [m.accounts[u] EXCEPT !.wallet = @ - x]
    OBVIOUS
  <1>2. r = [m EXCEPT !.accounts[u] = a]
    BY <1>1, TypedIs, FieldsAre DEF Paper!Pay
  <1>3. a \in AccountRecords /\ a.wallet = m.accounts[u].wallet - x
        /\ \A f \in Own \ {"wallet"} : a[f] = m.accounts[u][f]
    BY <1>1, AccountIs DEF AccountRecords, Own
  <1>4. Rewritten(m, r, u, a)
    BY <1>2, <1>3, NewAccount
  <1>5. QED
    BY <1>3, <1>4 DEF SameAccount, Rewritten

LEMMA ReceiveGives ==
    ASSUME NEW m, WellTyped(m), NEW u \in Accounts, NEW x \in Nat, NEW r, r = Paper!Receive(m, u, x)
    PROVE  /\ Same(m, r, {"accounts"}) /\ SameAccount(m, r, u, {"wallet"}) /\ WellTyped(r)
           /\ r.accounts[u].wallet = m.accounts[u].wallet + x
  <1>1. PICK a : a = [m.accounts[u] EXCEPT !.wallet = @ + x]
    OBVIOUS
  <1>2. r = [m EXCEPT !.accounts[u] = a]
    BY <1>1, TypedIs, FieldsAre DEF Paper!Receive
  <1>3. a \in AccountRecords /\ a.wallet = m.accounts[u].wallet + x
        /\ \A f \in Own \ {"wallet"} : a[f] = m.accounts[u][f]
    BY <1>1, AccountIs DEF AccountRecords, Own
  <1>4. Rewritten(m, r, u, a)
    BY <1>2, <1>3, NewAccount
  <1>5. QED
    BY <1>3, <1>4 DEF SameAccount, Rewritten

-----------------------------------------------------------------------------
(* Sums over the players. *)
Col(as, f) == Total([u \in Accounts |-> as[u][f]])
HeldOf(as, s) == Total([u \in Accounts |-> as[u].held[s]])
RewardOf(as, i) == Total([u \in Accounts |-> as[u].reward[i]])
StakeOf(as, s) == Total([u \in Accounts |-> IF as[u].side = s THEN as[u].stake ELSE 0])
Sums == {"wallet", "g", "lp", "refund", "stake"}

LEMMA ColMoves ==
    ASSUME NEW as \in [Accounts -> AccountRecords], NEW bs \in [Accounts -> AccountRecords], NEW u \in Accounts,
           \A v \in Accounts : v # u => bs[v] = as[v], NEW f \in Sums
    PROVE  Col(bs, f) + as[u][f] = Col(as, f) + bs[u][f]
  <1> DEFINE x == [v \in Accounts |-> as[v][f]]
             y == [v \in Accounts |-> bs[v][f]]
  <1>1. \A v \in Accounts : x[v] = as[v][f] /\ y[v] = bs[v][f]
    OBVIOUS
  <1>2. \A a \in AccountRecords : a[f] \in Nat
    BY DEF AccountRecords, Sums
  <1>3. \A v \in Accounts : x[v] \in Nat /\ y[v] \in Nat
    BY <1>1, <1>2
  <1>4. \A v \in Accounts : v # u => x[v] = y[v]
    BY <1>1
  <1>4a. Total(x) = Col(as, f) /\ Total(y) = Col(bs, f)
    BY DEF Col
  <1> HIDE DEF x, y
  <1>5. Total(y) + x[u] = Total(x) + y[u]
    BY <1>3, <1>4, TotalMoves
  <1>6. QED
    BY <1>1, <1>4a, <1>5

LEMMA HeldMoves ==
    ASSUME NEW as \in [Accounts -> AccountRecords], NEW bs \in [Accounts -> AccountRecords], NEW u \in Accounts,
           \A v \in Accounts : v # u => bs[v] = as[v], NEW s \in Paper!Side
    PROVE  HeldOf(bs, s) + as[u].held[s] = HeldOf(as, s) + bs[u].held[s]
  <1> DEFINE x == [v \in Accounts |-> as[v].held[s]]
             y == [v \in Accounts |-> bs[v].held[s]]
  <1>1. \A v \in Accounts : x[v] = as[v].held[s] /\ y[v] = bs[v].held[s]
    OBVIOUS
  <1>2. \A a \in AccountRecords : a.held[s] \in Nat
    BY DEF AccountRecords
  <1>3. \A v \in Accounts : x[v] \in Nat /\ y[v] \in Nat
    BY <1>1, <1>2
  <1>4. \A v \in Accounts : v # u => x[v] = y[v]
    BY <1>1
  <1>4a. Total(x) = HeldOf(as, s) /\ Total(y) = HeldOf(bs, s)
    BY DEF HeldOf
  <1> HIDE DEF x, y
  <1>5. Total(y) + x[u] = Total(x) + y[u]
    BY <1>3, <1>4, TotalMoves
  <1>6. QED
    BY <1>1, <1>4a, <1>5

LEMMA RewardMoves ==
    ASSUME NEW as \in [Accounts -> AccountRecords], NEW bs \in [Accounts -> AccountRecords], NEW u \in Accounts,
           \A v \in Accounts : v # u => bs[v] = as[v], NEW i \in Paper!Outcome
    PROVE  RewardOf(bs, i) + as[u].reward[i] = RewardOf(as, i) + bs[u].reward[i]
  <1> DEFINE x == [v \in Accounts |-> as[v].reward[i]]
             y == [v \in Accounts |-> bs[v].reward[i]]
  <1>1. \A v \in Accounts : x[v] = as[v].reward[i] /\ y[v] = bs[v].reward[i]
    OBVIOUS
  <1>2. \A a \in AccountRecords : a.reward[i] \in Nat
    BY DEF AccountRecords, Books
  <1>3. \A v \in Accounts : x[v] \in Nat /\ y[v] \in Nat
    BY <1>1, <1>2
  <1>4. \A v \in Accounts : v # u => x[v] = y[v]
    BY <1>1
  <1>4a. Total(x) = RewardOf(as, i) /\ Total(y) = RewardOf(bs, i)
    BY DEF RewardOf
  <1> HIDE DEF x, y
  <1>5. Total(y) + x[u] = Total(x) + y[u]
    BY <1>3, <1>4, TotalMoves
  <1>6. QED
    BY <1>1, <1>4a, <1>5

On(a, s) == IF a.side = s THEN a.stake ELSE 0
LEMMA StakeMoves ==
    ASSUME NEW as \in [Accounts -> AccountRecords], NEW bs \in [Accounts -> AccountRecords], NEW u \in Accounts,
           \A v \in Accounts : v # u => bs[v] = as[v], NEW s \in Paper!Outcome
    PROVE  StakeOf(bs, s) + On(as[u], s) = StakeOf(as, s) + On(bs[u], s)
  <1> DEFINE x == [v \in Accounts |-> IF as[v].side = s THEN as[v].stake ELSE 0]
             y == [v \in Accounts |-> IF bs[v].side = s THEN bs[v].stake ELSE 0]
  <1>1. \A v \in Accounts : x[v] = On(as[v], s) /\ y[v] = On(bs[v], s)
    BY DEF On
  <1>2. \A a \in AccountRecords : On(a, s) \in Nat
    BY DEF AccountRecords, On
  <1>3. \A v \in Accounts : x[v] \in Nat /\ y[v] \in Nat
    BY <1>1, <1>2
  <1>4. \A v \in Accounts : v # u => x[v] = y[v]
    BY <1>1
  <1>4a. Total(x) = StakeOf(as, s) /\ Total(y) = StakeOf(bs, s)
    BY DEF StakeOf
  <1> HIDE DEF x, y
  <1>5. Total(y) + x[u] = Total(x) + y[u]
    BY <1>3, <1>4, TotalMoves
  <1>6. QED
    BY <1>1, <1>4a, <1>5

LEMMA SumsAreNaturals ==
    ASSUME NEW as \in [Accounts -> AccountRecords]
    PROVE  /\ \A f \in Sums : Col(as, f) \in Nat /\ \A u \in Accounts : as[u][f] \in Nat /\ as[u][f] <= Col(as, f)
           /\ \A s \in Paper!Side : HeldOf(as, s) \in Nat /\ \A u \in Accounts : as[u].held[s] \in Nat
              /\ as[u].held[s] <= HeldOf(as, s)
           /\ \A i \in Paper!Outcome : RewardOf(as, i) \in Nat /\ \A u \in Accounts : as[u].reward[i] \in Nat
              /\ as[u].reward[i] <= RewardOf(as, i)
           /\ \A s \in Paper!Outcome : StakeOf(as, s) \in Nat /\ \A u \in Accounts : On(as[u], s) \in Nat
              /\ On(as[u], s) <= StakeOf(as, s)
  <1>1. ASSUME NEW f \in Sums PROVE Col(as, f) \in Nat /\ \A u \in Accounts : as[u][f] \in Nat
        /\ as[u][f] <= Col(as, f)
    <2> DEFINE x == [u \in Accounts |-> as[u][f]]
    <2>1. \A a \in AccountRecords : a[f] \in Nat
      BY DEF AccountRecords, Sums
    <2>2. \A u \in Accounts : x[u] = as[u][f] /\ x[u] \in Nat
      BY <2>1
    <2>3. Total(x) = Col(as, f)
      BY DEF Col
    <2> HIDE DEF x
    <2>4. Total(x) \in Nat /\ \A u \in Accounts : x[u] <= Total(x)
      BY <2>2, TotalType, TotalTerm
    <2>5. QED
      BY <2>2, <2>3, <2>4
  <1>2. ASSUME NEW s \in Paper!Side
        PROVE  HeldOf(as, s) \in Nat /\ \A u \in Accounts : as[u].held[s] \in Nat
               /\ as[u].held[s] <= HeldOf(as, s)
    <2> DEFINE x == [u \in Accounts |-> as[u].held[s]]
    <2>1. \A a \in AccountRecords : a.held[s] \in Nat
      BY DEF AccountRecords
    <2>2. \A u \in Accounts : x[u] = as[u].held[s] /\ x[u] \in Nat
      BY <2>1
    <2>3. Total(x) = HeldOf(as, s)
      BY DEF HeldOf
    <2> HIDE DEF x
    <2>4. Total(x) \in Nat /\ \A u \in Accounts : x[u] <= Total(x)
      BY <2>2, TotalType, TotalTerm
    <2>5. QED
      BY <2>2, <2>3, <2>4
  <1>3. ASSUME NEW i \in Paper!Outcome
        PROVE  RewardOf(as, i) \in Nat /\ \A u \in Accounts : as[u].reward[i] \in Nat
               /\ as[u].reward[i] <= RewardOf(as, i)
    <2> DEFINE x == [u \in Accounts |-> as[u].reward[i]]
    <2>1. \A a \in AccountRecords : a.reward[i] \in Nat
      BY DEF AccountRecords, Books
    <2>2. \A u \in Accounts : x[u] = as[u].reward[i] /\ x[u] \in Nat
      BY <2>1
    <2>3. Total(x) = RewardOf(as, i)
      BY DEF RewardOf
    <2> HIDE DEF x
    <2>4. Total(x) \in Nat /\ \A u \in Accounts : x[u] <= Total(x)
      BY <2>2, TotalType, TotalTerm
    <2>5. QED
      BY <2>2, <2>3, <2>4
  <1>4. ASSUME NEW s \in Paper!Outcome
        PROVE  StakeOf(as, s) \in Nat /\ \A u \in Accounts : On(as[u], s) \in Nat
               /\ On(as[u], s) <= StakeOf(as, s)
    <2> DEFINE x == [u \in Accounts |-> IF as[u].side = s THEN as[u].stake ELSE 0]
    <2>1. \A a \in AccountRecords : On(a, s) \in Nat
      BY DEF AccountRecords, On
    <2>2. \A u \in Accounts : x[u] = On(as[u], s) /\ x[u] \in Nat
      BY <2>1 DEF On
    <2>3. Total(x) = StakeOf(as, s)
      BY DEF StakeOf
    <2> HIDE DEF x
    <2>4. Total(x) \in Nat /\ \A u \in Accounts : x[u] <= Total(x)
      BY <2>2, TotalType, TotalTerm
    <2>5. QED
      BY <2>2, <2>3, <2>4
  <1>5. QED
    BY <1>1, <1>2, <1>3, <1>4

\* Columns depend on their fields only.
LEMMA SumsAgree ==
    ASSUME NEW as, NEW bs
    PROVE  /\ \A f : (\A u \in Accounts : bs[u][f] = as[u][f]) => Col(bs, f) = Col(as, f)
           /\ (\A u \in Accounts : bs[u].held = as[u].held) => \A s \in Paper!Side : HeldOf(bs, s) = HeldOf(as, s)
           /\ (\A u \in Accounts : bs[u].reward = as[u].reward)
              => \A i \in Paper!Outcome : RewardOf(bs, i) = RewardOf(as, i)
           /\ (\A u \in Accounts : bs[u].side = as[u].side /\ bs[u].stake = as[u].stake)
              => \A s \in Paper!Outcome : StakeOf(bs, s) = StakeOf(as, s)
  <1>1. ASSUME NEW f, \A u \in Accounts : bs[u][f] = as[u][f] PROVE Col(bs, f) = Col(as, f)
    <2>1. [u \in Accounts |-> bs[u][f]] = [u \in Accounts |-> as[u][f]]
      BY <1>1
    <2>2. QED
      BY <2>1 DEF Col
  <1>2. ASSUME \A u \in Accounts : bs[u].held = as[u].held, NEW s \in Paper!Side
        PROVE HeldOf(bs, s) = HeldOf(as, s)
    <2>1. [u \in Accounts |-> bs[u].held[s]] = [u \in Accounts |-> as[u].held[s]]
      BY <1>2
    <2>2. QED
      BY <2>1 DEF HeldOf
  <1>3. ASSUME \A u \in Accounts : bs[u].reward = as[u].reward, NEW i \in Paper!Outcome
        PROVE RewardOf(bs, i) = RewardOf(as, i)
    <2>1. [u \in Accounts |-> bs[u].reward[i]] = [u \in Accounts |-> as[u].reward[i]]
      BY <1>3
    <2>2. QED
      BY <2>1 DEF RewardOf
  <1>4. ASSUME \A u \in Accounts : bs[u].side = as[u].side /\ bs[u].stake = as[u].stake, NEW s \in Paper!Outcome
        PROVE  StakeOf(bs, s) = StakeOf(as, s)
    <2>1. [u \in Accounts |-> IF bs[u].side = s THEN bs[u].stake ELSE 0]
          = [u \in Accounts |-> IF as[u].side = s THEN as[u].stake ELSE 0]
      BY <1>4
    <2>2. QED
      BY <2>1 DEF StakeOf
  <1>5. QED
    BY <1>1, <1>2, <1>3, <1>4

PursesSame(as, bs) == Col(bs, "wallet") = Col(as, "wallet") /\ Col(bs, "refund") = Col(as, "refund")
LEMMA PursesAgree ==
    ASSUME NEW as, NEW bs, \A u \in Accounts : bs[u]["wallet"] = as[u]["wallet"]
           /\ bs[u]["refund"] = as[u]["refund"]
    PROVE  PursesSame(as, bs)
  <1>1. Col(bs, "wallet") = Col(as, "wallet")
    BY SumsAgree
  <1>2. Col(bs, "refund") = Col(as, "refund")
    BY SumsAgree
  <1>3. QED
    BY <1>1, <1>2 DEF PursesSame

LEMMA SumOfThree ==
    ASSUME NEW f \in [Paper!Outcome -> Int]
    PROVE  Paper!SumFunction(f) = f["YES"] + f["NO"] + f["INVALID"]
  <1>1. Paper!Outcome = {"YES", "NO", "INVALID"} /\ IsFiniteSet(Paper!Outcome) /\ DOMAIN f = Paper!Outcome
    <2>1. Paper!Outcome = {"YES", "NO", "INVALID"}
      BY DEF Paper!Outcome, Paper!Side
    <2>2. IsFiniteSet({"YES"}) /\ IsFiniteSet({"YES"} \cup {"NO"})
          /\ IsFiniteSet(({"YES"} \cup {"NO"}) \cup {"INVALID"})
      BY FS_Singleton, FS_AddElement
    <2>3. ({"YES"} \cup {"NO"}) \cup {"INVALID"} = Paper!Outcome
      BY <2>1
    <2>4. QED
      BY <2>1, <2>2, <2>3
  <1>2. PICK A : A = Paper!Outcome \ {"YES"}
    OBVIOUS
  <1>3. PICK B : B = A \ {"NO"}
    OBVIOUS
  <1>4. PICK C : C = B \ {"INVALID"}
    OBVIOUS
  <1>5. IsFiniteSet(A) /\ IsFiniteSet(B) /\ C = {}
    <2>1. A \in SUBSET Paper!Outcome /\ B \in SUBSET Paper!Outcome
      BY <1>2, <1>3
    <2>2. QED
      BY <2>1, <1>1, <1>2, <1>3, <1>4, FS_Subset
  <1>6. /\ "YES" \in Paper!Outcome /\ "NO" \in A /\ "INVALID" \in B
        /\ \A x \in Paper!Outcome : f[x] \in Int
    BY <1>1, <1>2, <1>3
  <1>7. A \subseteq Paper!Outcome /\ B \subseteq Paper!Outcome
    BY <1>2, <1>3
  <1>8. SumFunctionOnSet(f, Paper!Outcome) = f["YES"] + SumFunctionOnSet(f, A)
    BY <1>1, <1>2, <1>6, SumRemove
  <1>9. SumFunctionOnSet(f, A) = f["NO"] + SumFunctionOnSet(f, B)
    BY <1>3, <1>5, <1>6, <1>7, SumRemove
  <1>10. SumFunctionOnSet(f, B) = f["INVALID"] + SumFunctionOnSet(f, C)
    BY <1>4, <1>5, <1>6, <1>7, SumRemove
  <1>11. SumFunctionOnSet(f, C) = 0
    BY <1>5, SumEmpty
  <1>12. Paper!SumFunction(f) = SumFunctionOnSet(f, Paper!Outcome)
    BY <1>1, SumFunctionIs
  <1>13. f["YES"] \in Int /\ f["NO"] \in Int /\ f["INVALID"] \in Int
    BY <1>1
  <1>14. QED
    BY <1>8, <1>9, <1>10, <1>11, <1>12, <1>13

LEMMA SumOfBudget ==
    ASSUME NEW f \in BudgetBooks
    PROVE  Paper!SumFunction(f) = f.lp + f.outcomes + f.failed + f.core + f.official
  <1> DEFINE K1 == {"outcomes", "failed", "core", "official"}
             K2 == {"failed", "core", "official"}
             K3 == {"core", "official"}
             K4 == {"official"}
  <1>0. DOMAIN f = {"lp", "outcomes", "failed", "core", "official"}
    BY DEF BudgetBooks
  <1>1. IsFiniteSet({}) /\ IsFiniteSet(K4) /\ IsFiniteSet(K3) /\ IsFiniteSet(K2) /\ IsFiniteSet(K1)
        /\ IsFiniteSet(DOMAIN f)
    <2>1. IsFiniteSet(K4)
      BY FS_Singleton
    <2>2. IsFiniteSet(K3)
      <3>1. K3 = K4 \cup {"core"}
        OBVIOUS
      <3>2. QED
        BY <2>1, <3>1, FS_AddElement
    <2>3. IsFiniteSet(K2)
      <3>1. K2 = K3 \cup {"failed"}
        OBVIOUS
      <3>2. QED
        BY <2>2, <3>1, FS_AddElement
    <2>4. IsFiniteSet(K1)
      <3>1. K1 = K2 \cup {"outcomes"}
        OBVIOUS
      <3>2. QED
        BY <2>3, <3>1, FS_AddElement
    <2>5. IsFiniteSet(DOMAIN f)
      <3>1. DOMAIN f = K1 \cup {"lp"}
        BY <1>0
      <3>2. QED
        BY <2>4, <3>1, FS_AddElement
    <2>6. QED
      BY <2>1, <2>2, <2>3, <2>4, <2>5, FS_EmptySet
  <1>2. f["lp"] \in Int /\ f["outcomes"] \in Int /\ f["failed"] \in Int /\ f["core"] \in Int
        /\ f["official"] \in Int
    BY DEF BudgetBooks
  <1>3. \A x \in DOMAIN f : f[x] \in Int
    BY <1>0, <1>2
  <1>4. SumFunctionOnSet(f, DOMAIN f) = f["lp"] + SumFunctionOnSet(f, K1)
    <2>1. K1 = (DOMAIN f) \ {"lp"} /\ "lp" \in DOMAIN f
      BY <1>0
    <2> HIDE DEF K1
    <2>2. QED
      BY <1>1, <1>3, <2>1, SumRemove
  <1>5. SumFunctionOnSet(f, K1) = f["outcomes"] + SumFunctionOnSet(f, K2)
    <2>1. K2 = K1 \ {"outcomes"} /\ "outcomes" \in K1 /\ \A x \in K1 : f[x] \in Int
      BY <1>2
    <2> HIDE DEF K1, K2
    <2>2. QED
      BY <1>1, <2>1, SumRemove
  <1>6. SumFunctionOnSet(f, K2) = f["failed"] + SumFunctionOnSet(f, K3)
    <2>1. K3 = K2 \ {"failed"} /\ "failed" \in K2 /\ \A x \in K2 : f[x] \in Int
      BY <1>2
    <2> HIDE DEF K2, K3
    <2>2. QED
      BY <1>1, <2>1, SumRemove
  <1>7. SumFunctionOnSet(f, K3) = f["core"] + SumFunctionOnSet(f, K4)
    <2>1. K4 = K3 \ {"core"} /\ "core" \in K3 /\ \A x \in K3 : f[x] \in Int
      BY <1>2
    <2> HIDE DEF K3, K4
    <2>2. QED
      BY <1>1, <2>1, SumRemove
  <1>8. SumFunctionOnSet(f, K4) = f["official"] + SumFunctionOnSet(f, {})
    <2>1. {} = K4 \ {"official"} /\ "official" \in K4 /\ \A x \in K4 : f[x] \in Int
      BY <1>2
    <2> HIDE DEF K4
    <2>2. QED
      BY <1>1, <2>1, SumRemove
  <1>9. SumFunctionOnSet(f, {}) = 0
    BY SumEmpty
  <1> HIDE DEF K1, K2, K3, K4
  <1>10. QED
    BY <1>2, <1>4, <1>5, <1>6, <1>7, <1>8, <1>9, SumFunctionIs

-----------------------------------------------------------------------------
(* The money of a document. *)
Pending(m) == IF m.early.pending = Nobody THEN 0 ELSE Bond
Debts(m) == m.budget.lp + m.budget.outcomes + m.budget.failed + m.budget.core + m.budget.official
Purses(m) == Col(m.accounts, "wallet") + Col(m.accounts, "refund")
Escrow(m) == Pending(m) + m.early.penalty + m.early.failed
Traded(m) == m.R + m.cash + m.lpFees + m.creatorFees + m.protocolFees
Vaulted(m) == m.core.cash + m.core.fees
Money(m) == Purses(m) + Escrow(m) + Traded(m) + Vaulted(m) + Debts(m)

LEMMA SumsAre ==
    ASSUME NEW m, WellTyped(m)
    PROVE  /\ Col(m.accounts, "wallet") \in Nat /\ Col(m.accounts, "refund") \in Nat
              /\ Col(m.accounts, "g") \in Nat
           /\ Col(m.accounts, "lp") \in Nat /\ Col(m.accounts, "stake") \in Nat
           /\ \A s \in Paper!Side : HeldOf(m.accounts, s) \in Nat
           /\ \A i \in Paper!Outcome : RewardOf(m.accounts, i) \in Nat /\ StakeOf(m.accounts, i) \in Nat
           /\ Pending(m) \in Nat /\ m.early.penalty \in Nat /\ m.early.failed \in Nat
           /\ m.core.cash \in Nat /\ m.core.fees \in Nat /\ Debts(m) \in Nat
           /\ m.core.pool \in Books /\ m.core.official \in Books /\ m.early.forfeited \in Books
           /\ m.core.open \in BOOLEAN /\ m.early.pending \in Proposals \cup {Nobody}
           /\ m.budget.lp \in Nat /\ m.budget.outcomes \in Nat /\ m.budget.failed \in Nat
           /\ m.budget.core \in Nat /\ m.budget.official \in Nat
           /\ m.initial.lp \in Nat /\ m.initial.supply \in Nat
           /\ \A u \in Accounts : m.payouts[u] \in Nat
  <1>1. m.accounts \in [Accounts -> AccountRecords] /\ m.core \in Cores /\ m.early \in Earlies
        /\ m.budget \in BudgetBooks
        /\ m.initial \in [lp : Nat, supply : Nat] /\ m.payouts \in [Accounts -> Nat]
    BY TypedIs
  <1>2. Bond \in Nat
    BY PaperAssumption, CountingIs DEF Paper!PaperMarketAssumption
  <1>3. m.early.penalty \in Nat /\ m.early.failed \in Nat /\ m.early.forfeited \in Books
        /\ m.early.pending \in Proposals \cup {Nobody}
    BY <1>1 DEF Earlies
  <1>4. m.core.cash \in Nat /\ m.core.fees \in Nat /\ m.core.pool \in Books /\ m.core.official \in Books
        /\ m.core.open \in BOOLEAN
    BY <1>1 DEF Cores
  <1>5. m.budget.lp \in Nat /\ m.budget.outcomes \in Nat /\ m.budget.failed \in Nat
           /\ m.budget.core \in Nat /\ m.budget.official \in Nat
    BY <1>1 DEF BudgetBooks
  <1>6. Debts(m) \in Nat /\ Pending(m) \in Nat
    BY <1>2, <1>5 DEF Debts, Pending
  <1>7. \A f \in Sums : Col(m.accounts, f) \in Nat
    BY <1>1, SumsAreNaturals
  <1>8. \A s \in Paper!Side : HeldOf(m.accounts, s) \in Nat
    BY <1>1, SumsAreNaturals
  <1>9. \A i \in Paper!Outcome : RewardOf(m.accounts, i) \in Nat /\ StakeOf(m.accounts, i) \in Nat
    BY <1>1, SumsAreNaturals
  <1>10. QED
    BY <1>1, <1>3, <1>4, <1>5, <1>6, <1>7, <1>8, <1>9 DEF Sums

LEMMA MoneyType ==
    ASSUME NEW m, WellTyped(m)
    PROVE  /\ Purses(m) \in Nat /\ Escrow(m) \in Nat /\ Traded(m) \in Nat /\ Vaulted(m) \in Nat
              /\ Debts(m) \in Nat
           /\ Money(m) \in Nat
  <1>1. Traded(m) \in Nat
    <2>1. m.R \in Nat /\ m.cash \in Nat /\ m.lpFees \in Nat /\ m.creatorFees \in Nat /\ m.protocolFees \in Nat
      BY TypedIs
    <2>2. QED
      BY <2>1 DEF Traded
  <1>2. Purses(m) \in Nat /\ Escrow(m) \in Nat /\ Vaulted(m) \in Nat /\ Debts(m) \in Nat
    <2>1. /\ Col(m.accounts, "wallet") \in Nat /\ Col(m.accounts, "refund") \in Nat /\ Pending(m) \in Nat
          /\ m.early.penalty \in Nat /\ m.early.failed \in Nat /\ m.core.cash \in Nat /\ m.core.fees \in Nat
          /\ Debts(m) \in Nat
      BY SumsAre
    <2>2. QED
      BY <2>1 DEF Purses, Escrow, Vaulted
  <1>3. QED
    BY <1>1, <1>2 DEF Money

LEMMA MoneyIs ==
    ASSUME NEW m, WellTyped(m)
    PROVE  Paper!Wallets(m) + Paper!Reserves(m) = Money(m)
  <1>1. m.accounts \in [Accounts -> AccountRecords] /\ m.budget \in BudgetBooks
    BY TypedIs
  <1>2. Paper!Wallets(m) = Col(m.accounts, "wallet")
    BY TotalIs DEF Paper!Wallets, Col
  <1>3. Paper!SumFunction([u \in Accounts |-> m.accounts[u].refund]) = Col(m.accounts, "refund")
    BY TotalIs DEF Col
  <1>4. Paper!SumFunction(m.budget) = Debts(m)
    BY <1>1, SumOfBudget DEF Debts
  <1>5. Paper!EarlyFunds(m) = Pending(m) + m.early.penalty + m.early.failed + Col(m.accounts, "refund")
    BY <1>3 DEF Paper!EarlyFunds, Pending
  <1>6. m.R \in Nat /\ m.cash \in Nat /\ m.lpFees \in Nat /\ m.creatorFees \in Nat /\ m.protocolFees \in Nat
    BY TypedIs
  <1>7. /\ Col(m.accounts, "wallet") \in Nat /\ Col(m.accounts, "refund") \in Nat /\ Pending(m) \in Nat
        /\ m.early.penalty \in Nat /\ m.early.failed \in Nat /\ m.core.cash \in Nat /\ m.core.fees \in Nat
        /\ Debts(m) \in Nat
    BY SumsAre
  <1>8. Paper!Reserves(m) = (Pending(m) + m.early.penalty + m.early.failed + Col(m.accounts, "refund"))
                      + m.R + m.cash + m.lpFees + m.creatorFees + m.protocolFees + m.core.cash + m.core.fees
                            + Debts(m)
    BY <1>4, <1>5, Zenon DEF Paper!Reserves
  <1>9. Money(m) = Paper!Wallets(m) + Paper!Reserves(m)
    BY <1>2, <1>6, <1>7, <1>8 DEF Money, Purses, Escrow, Traded, Vaulted
  <1>10. QED
    BY <1>9

LEMMA CoordinatesAre == \A m : Paper!Coordinates(m) = [s \in Paper!Side |-> HeldOf(m.accounts, s)]
  BY TotalIs DEF Paper!Coordinates, HeldOf

-----------------------------------------------------------------------------
(* The inductive invariant of a document, after n orders that round. *)
Before == {"GENESIS", "FORMAL", "WAIT_CORE"}
Live == {"FORMAL", "WAIT_CORE"}
Quantities(m) == [s \in Paper!Side |-> HeldOf(m.accounts, s)]
Drift(m, n) == IF m.phase = "SETTLED" THEN (3 + Players) * n + 2 * Players ELSE 3 * n
MoneyIsKept(m, n) == Money(m) <= Grant * Players /\ Grant * Players <= Money(m) + Drift(m, n)
\* The reserve lies on the parabola; nobody holds an outcome yet.
OnParabola(m, n) ==
    m.phase = "GENESIS" =>
        /\ m.S \in Nat /\ Col(m.accounts, "g") = m.S /\ m.cash = 0
        /\ m.R <= K * m.S * m.S /\ K * m.S * m.S <= m.R + n
        /\ \A s \in Paper!Side : HeldOf(m.accounts, s) = 0
\* Cash is exactly what the market maker asks to hold.
OnCurve(m) ==
    m.phase \in Live =>
        /\ m.R = 0 /\ m.b # 0 /\ m.M0 = m.b
        /\ m.cash = m.b + Paper!Cost(Quantities(m), m.b) - Slack(0, m.b)
        /\ Col(m.accounts, "lp") = m.lpSupply /\ m.lpSupply # 0
\* Pools are the stakes; a fee is credited once for every outcome.
FeesOf(m, i) == RewardOf(m.accounts, i) + m.early.forfeited[i] + m.core.official[i]
VaultAdds(m, n) ==
    m.phase \in Before =>
        /\ \A s \in Paper!Outcome : m.core.pool[s] = StakeOf(m.accounts, s)
        /\ m.core.cash = m.core.pool["YES"] + m.core.pool["NO"] + m.core.pool["INVALID"]
        /\ \A u \in Accounts : m.accounts[u].side = Nobody => m.accounts[u].stake = 0
        /\ \A i \in Paper!Outcome : FeesOf(m, i) <= m.core.fees /\ m.core.fees <= FeesOf(m, i) + Players * n
NothingOwed(m) ==
    m.phase \in Before =>
        /\ Debts(m) = 0
        /\ \A u \in Accounts : m.payouts[u] = 0 /\ ~m.accounts[u].claimed
\* A budget is what is still to be claimed, and less than a unit of dust for each player.
OwedLp(m) == Total([u \in Accounts |-> Paper!ClaimPreview(m, u).lp])
OwedOutcomes(m) == Total([u \in Accounts |-> Paper!ClaimPreview(m, u).outcomes])
OwedFailed(m) == Total([u \in Accounts |-> Paper!ClaimPreview(m, u).failed])
OwedCore(m) == Total([u \in Accounts |-> IF m.accounts[u].claimed THEN 0 ELSE m.payouts[u]])
Covers(x, y) == y <= x /\ x <= y + Players
OwedIsKept(m) ==
    m.phase \in {"SETTLED", "FAILED"} =>
        /\ m.phase = "SETTLED" => m.result \in Paper!Outcome
        /\ Covers(m.budget.lp, OwedLp(m)) /\ Covers(m.budget.outcomes, OwedOutcomes(m))
        /\ Covers(m.budget.failed, OwedFailed(m)) /\ m.budget.core = OwedCore(m)
Parts(m, n) == OnParabola(m, n) /\ OnCurve(m) /\ VaultAdds(m, n) /\ NothingOwed(m) /\ OwedIsKept(m)
Good(m, n) == WellTyped(m) /\ MoneyIsKept(m, n) /\ Parts(m, n)

LEMMA Constants ==
    /\ Grant \in Nat \ {0} /\ K \in Nat \ {0} /\ RTarget \in Nat \ {0} /\ Bond \in Nat \ {0}
    /\ Shares \subseteq Nat \ {0} /\ Lots \subseteq Nat \ {0} /\ Budgets \subseteq Nat \ {0}
       /\ Stakes \subseteq Nat \ {0}
    /\ MaxOrders \in Nat /\ K >= MaxOrders + 4 /\ Eps \in Nat /\ TC \in Nat
    /\ Eps >= (3 + Players) * (MaxOrders + 4) + 2 * Players
    /\ Creator \in Accounts /\ Nobody \notin Paper!Outcome /\ Nobody \notin Proposals
  BY PaperAssumption, CountingIs DEF Paper!PaperMarketAssumption, Players, Paper!Outcome, Paper!Side, Proposals

LEMMA GoodGrows == ASSUME NEW m, NEW n \in Nat, Good(m, n) PROVE Good(m, n + 1)
  <1>1. Players \in Nat
    BY UsersFinite
  <1>2. WellTyped(m)
    BY DEF Good
  <1>3. Players * (n + 1) = Players * n + Players /\ Players * n \in Nat /\ (3 + Players) * n \in Nat
        /\ (3 + Players) * (n + 1) = (3 + Players) * n + (3 + Players)
    BY <1>1
  <1>4. MoneyIsKept(m, n + 1)
    <2>1. Drift(m, n) <= Drift(m, n + 1) /\ Drift(m, n) \in Nat /\ Drift(m, n + 1) \in Nat
      BY <1>1, <1>3 DEF Drift
    <2>2. Money(m) \in Nat
      BY <1>2, MoneyType
    <2>3. MoneyIsKept(m, n)
      BY DEF Good
    <2>4. Grant * Players \in Nat
      BY <1>1, Constants
    <2>5. QED
      BY <2>1, <2>2, <2>3, <2>4 DEF MoneyIsKept
  <1>5. OnParabola(m, n + 1)
    <2>1. OnParabola(m, n) /\ m.R \in Nat
      BY <1>2, TypedIs DEF Good, Parts
    <2>2. \A S \in Nat : K * S * S \in Nat
      BY Constants
    <2>3. QED
      BY <2>1, <2>2 DEF OnParabola
  <1>6. VaultAdds(m, n + 1)
    <2>1. VaultAdds(m, n) /\ m.core.fees \in Nat
      BY <1>2, SumsAre DEF Good, Parts
    <2>2. ASSUME NEW i \in Paper!Outcome PROVE FeesOf(m, i) \in Nat
      <3>1. RewardOf(m.accounts, i) \in Nat /\ m.early.forfeited \in Books /\ m.core.official \in Books
        BY <1>2, SumsAre
      <3>2. QED
        BY <3>1 DEF FeesOf, Books
    <2>3. QED
      BY <1>1, <1>3, <2>1, <2>2 DEF VaultAdds
  <1>7. QED
    BY <1>2, <1>4, <1>5, <1>6 DEF Good, Parts

-----------------------------------------------------------------------------
(* What a change of one account does to the sums, and what leaves each part alone. *)
LEMMA AccountMoves ==
    ASSUME NEW m, NEW r, WellTyped(m), WellTyped(r), NEW u \in Accounts, NEW but, SameAccount(m, r, u, but)
    PROVE  /\ \A f \in Sums : Col(r.accounts, f) + m.accounts[u][f] = Col(m.accounts, f) + r.accounts[u][f]
           /\ \A f \in Sums \ but : Col(r.accounts, f) = Col(m.accounts, f)
           /\ \A s \in Paper!Side : HeldOf(r.accounts, s) + m.accounts[u].held[s]
              = HeldOf(m.accounts, s) + r.accounts[u].held[s]
           /\ "held" \notin but => Quantities(r) = Quantities(m)
              /\ \A s \in Paper!Side : HeldOf(r.accounts, s) = HeldOf(m.accounts, s)
           /\ \A i \in Paper!Outcome : RewardOf(r.accounts, i) + m.accounts[u].reward[i]
              = RewardOf(m.accounts, i) + r.accounts[u].reward[i]
           /\ "reward" \notin but => \A i \in Paper!Outcome : RewardOf(r.accounts, i) = RewardOf(m.accounts, i)
           /\ \A s \in Paper!Outcome : StakeOf(r.accounts, s) + On(m.accounts[u], s)
              = StakeOf(m.accounts, s) + On(r.accounts[u], s)
           /\ "side" \notin but /\ "stake" \notin but
              => \A s \in Paper!Outcome : StakeOf(r.accounts, s) = StakeOf(m.accounts, s)
  <1>1. /\ m.accounts \in [Accounts -> AccountRecords] /\ r.accounts \in [Accounts -> AccountRecords]
        /\ \A v \in Accounts : v # u => r.accounts[v] = m.accounts[v]
        /\ \A f \in Own \ but : r.accounts[u][f] = m.accounts[u][f]
    BY TypedIs DEF SameAccount
  <1>2. ASSUME NEW f \in Sums PROVE Col(r.accounts, f) + m.accounts[u][f] = Col(m.accounts, f) + r.accounts[u][f]
    BY <1>1, ColMoves
  <1>3. ASSUME NEW f \in Sums \ but PROVE Col(r.accounts, f) = Col(m.accounts, f)
    <2>1. r.accounts[u][f] = m.accounts[u][f]
      BY <1>1 DEF Sums, Own
    <2>2. \A v \in Accounts : r.accounts[v][f] = m.accounts[v][f]
      BY <1>1, <2>1
    <2>3. QED
      BY <2>2, SumsAgree
  <1>4. ASSUME NEW s \in Paper!Side PROVE HeldOf(r.accounts, s) + m.accounts[u].held[s]
        = HeldOf(m.accounts, s) + r.accounts[u].held[s]
    BY <1>1, HeldMoves
  <1>5. ASSUME "held" \notin but PROVE Quantities(r) = Quantities(m)
        /\ \A s \in Paper!Side : HeldOf(r.accounts, s) = HeldOf(m.accounts, s)
    <2>1. r.accounts[u].held = m.accounts[u].held
      BY <1>1, <1>5 DEF Own
    <2>2. \A v \in Accounts : r.accounts[v].held = m.accounts[v].held
      BY <1>1, <2>1
    <2>3. \A s \in Paper!Side : HeldOf(r.accounts, s) = HeldOf(m.accounts, s)
      BY <2>2, SumsAgree
    <2>4. QED
      BY <2>3 DEF Quantities
  <1>6. ASSUME NEW i \in Paper!Outcome PROVE RewardOf(r.accounts, i) + m.accounts[u].reward[i]
        = RewardOf(m.accounts, i) + r.accounts[u].reward[i]
    BY <1>1, RewardMoves
  <1>7. ASSUME "reward" \notin but, NEW i \in Paper!Outcome
        PROVE RewardOf(r.accounts, i) = RewardOf(m.accounts, i)
    <2>1. r.accounts[u].reward = m.accounts[u].reward
      BY <1>1, <1>7 DEF Own
    <2>2. \A v \in Accounts : r.accounts[v].reward = m.accounts[v].reward
      BY <1>1, <2>1
    <2>3. QED
      BY <2>2, SumsAgree
  <1>8. ASSUME NEW s \in Paper!Outcome PROVE StakeOf(r.accounts, s) + On(m.accounts[u], s)
        = StakeOf(m.accounts, s) + On(r.accounts[u], s)
    BY <1>1, StakeMoves
  <1>9. ASSUME "side" \notin but, "stake" \notin but, NEW s \in Paper!Outcome
        PROVE StakeOf(r.accounts, s) = StakeOf(m.accounts, s)
    <2>1. r.accounts[u].side = m.accounts[u].side /\ r.accounts[u].stake = m.accounts[u].stake
      BY <1>1, <1>9 DEF Own
    <2>2. \A v \in Accounts : r.accounts[v].side = m.accounts[v].side /\ r.accounts[v].stake = m.accounts[v].stake
      BY <1>1, <2>1
    <2>3. QED
      BY <2>2, SumsAgree
  <1>10. QED
    BY <1>2, <1>3, <1>4, <1>5, <1>6, <1>7, <1>8, <1>9

ColsShift(m, r, u) == \A f \in Sums : Col(r.accounts, f) + m.accounts[u][f]
      = Col(m.accounts, f) + r.accounts[u][f]
ColsKept(m, r, but) == \A f \in Sums \ but : Col(r.accounts, f) = Col(m.accounts, f)
LEMMA ColsMove ==
    ASSUME NEW m, WellTyped(m), NEW r, WellTyped(r), NEW u \in Accounts, NEW but, SameAccount(m, r, u, but)
    PROVE  ColsShift(m, r, u) /\ ColsKept(m, r, but)
  BY AccountMoves DEF ColsShift, ColsKept

\* The accounts of r are those of m but for these fields.
AllBut(m, r, but) == \A u \in Accounts, f \in Own \ but : r.accounts[u][f] = m.accounts[u][f]

LEMMA SameAccountIsAllBut ==
    ASSUME NEW m, NEW r, NEW u \in Accounts, NEW but, SameAccount(m, r, u, but)
    PROVE  AllBut(m, r, but)
  BY DEF SameAccount, AllBut

LEMMA ParabolaKept ==
    ASSUME NEW m, NEW r, NEW n, OnParabola(m, n), r.phase = m.phase, r.R = m.R, r.S = m.S, r.cash = m.cash,
           AllBut(m, r, Own \ {"g", "held"})
    PROVE  OnParabola(r, n)
  <1>1. \A u \in Accounts : r.accounts[u]["g"] = m.accounts[u]["g"] /\ r.accounts[u].held = m.accounts[u].held
    BY DEF AllBut, Own
  <1>2. Col(r.accounts, "g") = Col(m.accounts, "g")
        /\ \A s \in Paper!Side : HeldOf(r.accounts, s) = HeldOf(m.accounts, s)
    BY <1>1, SumsAgree
  <1>3. QED
    BY <1>2 DEF OnParabola

LEMMA CurveKept ==
    ASSUME NEW m, NEW r, OnCurve(m), r.phase \in Live => m.phase \in Live, r.R = m.R, r.b = m.b, r.M0 = m.M0,
           r.cash = m.cash, r.lpSupply = m.lpSupply, AllBut(m, r, Own \ {"lp", "held"})
    PROVE  OnCurve(r)
  <1>1. \A u \in Accounts : r.accounts[u]["lp"] = m.accounts[u]["lp"] /\ r.accounts[u].held = m.accounts[u].held
    BY DEF AllBut, Own
  <1>2. Col(r.accounts, "lp") = Col(m.accounts, "lp")
        /\ \A s \in Paper!Side : HeldOf(r.accounts, s) = HeldOf(m.accounts, s)
    BY <1>1, SumsAgree
  <1>3. Quantities(r) = Quantities(m)
    BY <1>2 DEF Quantities
  <1>4. QED
    BY <1>2, <1>3 DEF OnCurve

LEMMA VaultKept ==
    ASSUME NEW m, NEW r, NEW n, VaultAdds(m, n), r.phase \in Before => m.phase \in Before,
           r.core.pool = m.core.pool, r.core.cash = m.core.cash, r.core.fees = m.core.fees,
           r.core.official = m.core.official, r.early.forfeited = m.early.forfeited,
           AllBut(m, r, Own \ {"side", "stake", "reward"})
    PROVE  VaultAdds(r, n)
  <1>1. \A u \in Accounts : /\ r.accounts[u].side = m.accounts[u].side
        /\ r.accounts[u].stake = m.accounts[u].stake
                         /\ r.accounts[u].reward = m.accounts[u].reward
    BY DEF AllBut, Own
  <1>2. \A i \in Paper!Outcome : RewardOf(r.accounts, i) = RewardOf(m.accounts, i)
        /\ StakeOf(r.accounts, i) = StakeOf(m.accounts, i)
    BY <1>1, SumsAgree
  <1>3. \A i \in Paper!Outcome : FeesOf(r, i) = FeesOf(m, i)
    BY <1>2 DEF FeesOf
  <1>4. QED
    BY <1>1, <1>2, <1>3 DEF VaultAdds

LEMMA NothingOwedKept ==
    ASSUME NEW m, NEW r, NothingOwed(m), r.phase \in Before => m.phase \in Before, r.budget = m.budget,
           r.payouts = m.payouts, AllBut(m, r, Own \ {"claimed"})
    PROVE  NothingOwed(r)
  <1>1. \A u \in Accounts : r.accounts[u].claimed = m.accounts[u].claimed
    BY DEF AllBut, Own
  <1>2. Debts(r) = Debts(m)
    BY DEF Debts
  <1>3. QED
    BY <1>1, <1>2 DEF NothingOwed

LEMMA OwedKept ==
    ASSUME NEW m, NEW r, OwedIsKept(m), r.phase = m.phase, r.budget = m.budget, r.payouts = m.payouts,
           r.initial = m.initial, r.result = m.result, AllBut(m, r, Own \ {"lp", "g", "held", "claimed"})
    PROVE  OwedIsKept(r)
  <1>1. \A u \in Accounts : /\ r.accounts[u].lp = m.accounts[u].lp /\ r.accounts[u].g = m.accounts[u].g
                         /\ r.accounts[u].held = m.accounts[u].held
                            /\ r.accounts[u].claimed = m.accounts[u].claimed
    BY DEF AllBut, Own
  <1>2. \A u \in Accounts : Paper!ClaimPreview(r, u) = Paper!ClaimPreview(m, u)
    BY <1>1 DEF Paper!ClaimPreview, Paper!LPPart
  <1>3. OwedLp(r) = OwedLp(m) /\ OwedOutcomes(r) = OwedOutcomes(m) /\ OwedFailed(r) = OwedFailed(m)
    BY <1>2 DEF OwedLp, OwedOutcomes, OwedFailed
  <1>4. OwedCore(r) = OwedCore(m)
    BY <1>1 DEF OwedCore
  <1>5. QED
    BY <1>3, <1>4 DEF OwedIsKept

\* Wallets, refunds, pending requests and what is for others outside belong to no part.
LEMMA FrameKept ==
    ASSUME NEW m, NEW r, NEW n, WellTyped(m), WellTyped(r), Parts(m, n),
           Same(m, r, {"accounts", "creatorFees", "protocolFees", "now", "early"}),
           r.early.forfeited = m.early.forfeited, AllBut(m, r, {"wallet", "refund"})
    PROVE  Parts(r, n)
  <1>1. /\ r.phase = m.phase /\ r.R = m.R /\ r.S = m.S /\ r.b = m.b /\ r.M0 = m.M0 /\ r.cash = m.cash
        /\ r.lpSupply = m.lpSupply /\ r.result = m.result /\ r.core = m.core /\ r.budget = m.budget
        /\ r.initial = m.initial /\ r.payouts = m.payouts
    BY FieldsAre DEF Same
  <1>2. /\ AllBut(m, r, Own \ {"g", "held"}) /\ AllBut(m, r, Own \ {"lp", "held"})
           /\ AllBut(m, r, Own \ {"side", "stake", "reward"})
        /\ AllBut(m, r, Own \ {"claimed"}) /\ AllBut(m, r, Own \ {"lp", "g", "held", "claimed"})
    BY DEF AllBut, Own
  <1>3. OnParabola(r, n)
    BY <1>1, <1>2, ParabolaKept DEF Parts
  <1>4. OnCurve(r)
    BY <1>1, <1>2, CurveKept DEF Parts
  <1>5. VaultAdds(r, n)
    BY <1>1, <1>2, VaultKept DEF Parts
  <1>6. NothingOwed(r)
    BY <1>1, <1>2, NothingOwedKept DEF Parts
  <1>7. OwedIsKept(r)
    BY <1>1, <1>2, OwedKept DEF Parts
  <1>8. QED
    BY <1>3, <1>4, <1>5, <1>6, <1>7 DEF Parts

Put(m, r, f, x) == Same(m, r, {f}) /\ r[f] = x /\ WellTyped(r)
LEMMA NewField ==
    ASSUME NEW m, WellTyped(m), NEW f \in Fields, NEW x \in Shape[f], NEW r, r = [m EXCEPT ![f] = x]
    PROVE  Put(m, r, f, x)
  <1>1. Fields \subseteq DOMAIN m
    BY TypedIs
  <1>2. r[f] = x /\ Same(m, r, {f})
    BY <1>1 DEF Same
  <1>3. \A g \in {f} : r[g] \in Shape[g]
    BY <1>2
  <1>4. QED
    BY <1>2, <1>3, TypedKept DEF Put

LEMMA SameTwice ==
    ASSUME NEW m, NEW a, NEW r, NEW X, NEW Y, Same(m, a, X), Same(a, r, Y)
    PROVE  Same(m, r, X \cup Y)
  BY DEF Same

LEMMA SameAccountTwice ==
    ASSUME NEW m, NEW a, NEW r, NEW u \in Accounts, NEW X, NEW Y, SameAccount(m, a, u, X), SameAccount(a, r, u, Y)
    PROVE  SameAccount(m, r, u, X \cup Y)
  BY DEF SameAccount

\* A change that only moves money, to the unit, keeps the document good.
LEMMA GoodKept ==
    ASSUME NEW m, NEW r, NEW n, Good(m, n), WellTyped(r), Parts(r, n), Money(r) = Money(m), r.phase = m.phase
    PROVE  Good(r, n)
  <1>1. MoneyIsKept(r, n)
    BY DEF Good, MoneyIsKept, Drift
  <1>2. QED
    BY <1>1 DEF Good

LEMMA EarlyBondIsGood ==
    ASSUME NEW m, NEW n, Good(m, n), NEW u \in Accounts, NEW r,
           r = Paper!Receive([m EXCEPT !.accounts[u].refund = 0], u, m.accounts[u].refund)
    PROVE  Good(r, n)
  <1>0. WellTyped(m)
    BY DEF Good
  <1>1. PICK a : a = [m.accounts[u] EXCEPT !.refund = 0]
    OBVIOUS
  <1>2. PICK k : k = [m EXCEPT !.accounts[u] = a]
    OBVIOUS
  <1>3. k = [m EXCEPT !.accounts[u].refund = 0]
    BY <1>0, <1>1, <1>2, TypedIs, FieldsAre
  <1>4. a \in AccountRecords /\ a.refund = 0 /\ \A f \in Own \ {"refund"} : a[f] = m.accounts[u][f]
    BY <1>0, <1>1, AccountIs DEF AccountRecords, Own
  <1>5. Rewritten(m, k, u, a)
    BY <1>0, <1>2, <1>4, NewAccount
  <1>6. Same(m, k, {"accounts"}) /\ WellTyped(k) /\ SameAccount(m, k, u, {"refund"}) /\ k.accounts[u].refund = 0
    BY <1>4, <1>5 DEF Rewritten, SameAccount
  <1>7. m.accounts[u].refund \in Nat /\ r = Paper!Receive(k, u, m.accounts[u].refund)
    BY <1>0, <1>3, AccountIs
  <1>8. /\ Same(k, r, {"accounts"}) /\ SameAccount(k, r, u, {"wallet"}) /\ WellTyped(r)
        /\ r.accounts[u].wallet = k.accounts[u].wallet + m.accounts[u].refund
    BY <1>6, <1>7, ReceiveGives
  <1>9. Same(m, r, {"accounts"}) /\ SameAccount(m, r, u, {"wallet", "refund"})
    <2>1. Same(m, r, {"accounts"} \cup {"accounts"}) /\ SameAccount(m, r, u, {"refund"} \cup {"wallet"})
      BY <1>6, <1>8, SameTwice, SameAccountTwice
    <2>2. {"accounts"} \cup {"accounts"} = {"accounts"} /\ {"refund"} \cup {"wallet"} = {"wallet", "refund"}
      OBVIOUS
    <2>3. QED
      BY <2>1, <2>2
  <1>10. r.accounts[u].wallet = m.accounts[u].wallet + m.accounts[u].refund /\ r.accounts[u].refund = 0
    BY <1>6, <1>8 DEF SameAccount, Own
  <1>11. r.phase = m.phase /\ r.early = m.early /\ Traded(r) = Traded(m) /\ Vaulted(r) = Vaulted(m)
        /\ Debts(r) = Debts(m)
         /\ Escrow(r) = Escrow(m)
    BY <1>9, FieldsAre DEF Same, Traded, Vaulted, Debts, Escrow, Pending
  <1>12. Purses(r) = Purses(m)
    <2>1. /\ Col(r.accounts, "wallet") + m.accounts[u]["wallet"]
             = Col(m.accounts, "wallet") + r.accounts[u]["wallet"]
          /\ Col(r.accounts, "refund") + m.accounts[u]["refund"]
             = Col(m.accounts, "refund") + r.accounts[u]["refund"]
      BY <1>0, <1>8, <1>9, AccountMoves DEF Sums
    <2>2. /\ Col(r.accounts, "wallet") \in Nat /\ Col(r.accounts, "refund") \in Nat
          /\ Col(m.accounts, "wallet") \in Nat /\ Col(m.accounts, "refund") \in Nat
          /\ m.accounts[u].wallet \in Nat /\ m.accounts[u].refund \in Nat
      BY <1>0, <1>8, SumsAre, AccountIs
    <2>3. QED
      BY <1>10, <2>1, <2>2 DEF Purses
  <1>13. Money(r) = Money(m)
    BY <1>11, <1>12 DEF Money
  <1>14. Parts(r, n)
    <2>1. AllBut(m, r, {"wallet", "refund"})
      BY <1>9, SameAccountIsAllBut
    <2>2. Same(m, r, {"accounts", "creatorFees", "protocolFees", "now", "early"})
      BY <1>9 DEF Same
    <2>3. QED
      BY <1>0, <1>8, <1>11, <2>1, <2>2, FrameKept DEF Good
  <1>15. QED
    BY <1>8, <1>11, <1>13, <1>14, GoodKept

LEMMA CreatorFeesAreGood ==
    ASSUME NEW m, NEW n, Good(m, n), NEW r,
           r = Paper!Receive([m EXCEPT !.creatorFees = 0], Creator, m.creatorFees)
    PROVE  Good(r, n)
  <1>0. WellTyped(m) /\ Creator \in Accounts /\ m.creatorFees \in Nat
    BY Constants, TypedIs DEF Good
  <1>1. PICK k : k = [m EXCEPT !["creatorFees"] = 0]
    OBVIOUS
  <1>2. Same(m, k, {"creatorFees"}) /\ k.creatorFees = 0 /\ WellTyped(k)
    <2>1. "creatorFees" \in Fields /\ 0 \in Shape["creatorFees"]
      BY FieldsAre DEF Shape
    <2>2. Put(m, k, "creatorFees", 0)
      BY <1>0, <1>1, <2>1, NewField
    <2>3. QED
      BY <2>2 DEF Put
  <1>3. r = Paper!Receive(k, Creator, m.creatorFees)
    BY <1>1
  <1>4. /\ Same(k, r, {"accounts"}) /\ SameAccount(k, r, Creator, {"wallet"}) /\ WellTyped(r)
        /\ r.accounts[Creator].wallet = k.accounts[Creator].wallet + m.creatorFees
    BY <1>0, <1>2, <1>3, ReceiveGives
  <1>5. k.accounts = m.accounts
    BY <1>2, FieldsAre DEF Same
  <1>6. SameAccount(m, r, Creator, {"wallet"})
        /\ r.accounts[Creator].wallet = m.accounts[Creator].wallet + m.creatorFees
    BY <1>4, <1>5 DEF SameAccount
  <1>7. Same(m, r, {"creatorFees"} \cup {"accounts"})
    BY <1>2, <1>4, SameTwice
  <1>8. r.phase = m.phase /\ r.early = m.early /\ Vaulted(r) = Vaulted(m) /\ Debts(r) = Debts(m)
        /\ Escrow(r) = Escrow(m)
    BY <1>7, FieldsAre DEF Same, Vaulted, Debts, Escrow, Pending
  <1>9. Purses(r) = Purses(m) + m.creatorFees
    <2>1. /\ Col(r.accounts, "wallet") + m.accounts[Creator]["wallet"]
             = Col(m.accounts, "wallet") + r.accounts[Creator]["wallet"]
          /\ Col(r.accounts, "refund") = Col(m.accounts, "refund")
      BY <1>0, <1>4, <1>6, AccountMoves DEF Sums
    <2>2. /\ Col(r.accounts, "wallet") \in Nat /\ Col(m.accounts, "wallet") \in Nat
             /\ Col(m.accounts, "refund") \in Nat
          /\ m.accounts[Creator].wallet \in Nat
      BY <1>0, <1>4, SumsAre, AccountIs
    <2>3. QED
      BY <1>0, <1>6, <2>1, <2>2 DEF Purses
  <1>10. Traded(r) + m.creatorFees = Traded(m)
    <2>1. r.R = m.R /\ r.cash = m.cash /\ r.lpFees = m.lpFees /\ r.protocolFees = m.protocolFees
      BY <1>7, FieldsAre DEF Same
    <2>2. r.creatorFees = 0
      BY <1>2, <1>4, FieldsAre DEF Same
    <2>3. m.R \in Nat /\ m.cash \in Nat /\ m.lpFees \in Nat /\ m.protocolFees \in Nat
      BY <1>0, TypedIs
    <2>4. QED
      BY <1>0, <2>1, <2>2, <2>3 DEF Traded
  <1>11. Money(r) = Money(m)
    <2>1. Purses(m) \in Nat /\ Escrow(m) \in Nat /\ Traded(m) \in Nat /\ Traded(r) \in Nat /\ Vaulted(m) \in Nat
          /\ Debts(m) \in Nat
      BY <1>0, <1>4, MoneyType
    <2>2. QED
      BY <1>0, <1>8, <1>9, <1>10, <2>1 DEF Money
  <1>12. Parts(r, n)
    <2>1. AllBut(m, r, {"wallet"})
      BY <1>0, <1>6, SameAccountIsAllBut
    <2>2. AllBut(m, r, {"wallet", "refund"})
      BY <2>1 DEF AllBut
    <2>3. Same(m, r, {"accounts", "creatorFees", "protocolFees", "now", "early"})
      BY <1>7 DEF Same
    <2>4. QED
      BY <1>0, <1>4, <1>8, <2>2, <2>3, FrameKept DEF Good
  <1>13. QED
    BY <1>4, <1>8, <1>11, <1>12, GoodKept

LEMMA ProposedIsGood ==
    ASSUME NEW m, NEW n, Good(m, n), NEW u \in Accounts, NEW s \in Paper!Side, m.early.pending = Nobody,
           Bond <= m.accounts[u].wallet, NEW r, r = Paper!Proposed(m, u, s)
    PROVE  Good(r, n)
  <1>0. WellTyped(m) /\ Bond \in Nat \ {0} /\ m.now \in Nat
    BY Constants, TypedIs DEF Good
  <1>1. PICK p : p = [proposer |-> u, side |-> s, after |-> m.now + 1]
    OBVIOUS
  <1>2. p \in Proposals /\ p # Nobody
    <2>1. m.now + 1 \in Int
      BY <1>0
    <2>2. p \in Proposals
      BY <1>1, <2>1 DEF Proposals
    <2>3. QED
      BY <2>2, Constants
  <1>3. PICK k : k = Paper!Pay(m, u, Bond)
    OBVIOUS
  <1>4. /\ Same(m, k, {"accounts"}) /\ SameAccount(m, k, u, {"wallet"}) /\ WellTyped(k)
        /\ k.accounts[u].wallet = m.accounts[u].wallet - Bond
    BY <1>0, <1>3, PayGives
  <1>5. PICK e : e = [k.early EXCEPT !.pending = p]
    OBVIOUS
  <1>6. k.early = m.early
    BY <1>4, FieldsAre DEF Same
  <1>7. e \in Earlies /\ e.pending = p /\ e.penalty = m.early.penalty /\ e.failed = m.early.failed
        /\ e.forfeited = m.early.forfeited
    <2>1. k.early \in Earlies
      BY <1>4, TypedIs
    <2>2. QED
      BY <1>2, <1>5, <1>6, <2>1 DEF Earlies
  <1>8. r = [k EXCEPT !["early"] = e]
    <2>1. r = [k EXCEPT !.early.pending = p]
      BY <1>1, <1>3 DEF Paper!Proposed
    <2>2. QED
      BY <1>5, <2>1
  <1>9. Same(k, r, {"early"}) /\ r.early = e /\ WellTyped(r)
    <2>1. "early" \in Fields /\ e \in Shape["early"]
      BY <1>7, FieldsAre DEF Shape
    <2>2. Put(k, r, "early", e)
      BY <1>4, <1>8, <2>1, NewField
    <2>3. QED
      BY <2>2 DEF Put
  <1>10. r.accounts = k.accounts
    BY <1>9, FieldsAre DEF Same
  <1>11. SameAccount(m, r, u, {"wallet"}) /\ r.accounts[u].wallet = m.accounts[u].wallet - Bond
    BY <1>4, <1>10 DEF SameAccount
  <1>12. Same(m, r, {"accounts"} \cup {"early"})
    BY <1>4, <1>9, SameTwice
  <1>13. r.phase = m.phase /\ Traded(r) = Traded(m) /\ Vaulted(r) = Vaulted(m) /\ Debts(r) = Debts(m)
    BY <1>12, FieldsAre DEF Same, Traded, Vaulted, Debts
  <1>14. Escrow(r) = Escrow(m) + Bond
    <2>1. Pending(m) = 0 /\ Pending(r) = Bond
      BY <1>2, <1>7, <1>9 DEF Pending
    <2>2. m.early.penalty \in Nat /\ m.early.failed \in Nat
      BY <1>0, SumsAre
    <2>3. QED
      BY <1>0, <1>7, <1>9, <2>1, <2>2 DEF Escrow
  <1>15. Purses(r) + Bond = Purses(m)
    <2>1. /\ Col(r.accounts, "wallet") + m.accounts[u]["wallet"]
             = Col(m.accounts, "wallet") + r.accounts[u]["wallet"]
          /\ Col(r.accounts, "refund") = Col(m.accounts, "refund")
      BY <1>0, <1>9, <1>11, AccountMoves DEF Sums
    <2>2. /\ Col(r.accounts, "wallet") \in Nat /\ Col(m.accounts, "wallet") \in Nat
             /\ Col(m.accounts, "refund") \in Nat
          /\ m.accounts[u].wallet \in Nat
      BY <1>0, <1>9, SumsAre, AccountIs
    <2>3. QED
      BY <1>0, <1>11, <2>1, <2>2 DEF Purses
  <1>16. Money(r) = Money(m)
    <2>1. Purses(m) \in Nat /\ Purses(r) \in Nat /\ Escrow(m) \in Nat /\ Traded(m) \in Nat /\ Vaulted(m) \in Nat
          /\ Debts(m) \in Nat
      BY <1>0, <1>9, MoneyType
    <2>2. QED
      BY <1>0, <1>13, <1>14, <1>15, <2>1 DEF Money
  <1>17. Parts(r, n)
    <2>1. AllBut(m, r, {"wallet"})
      BY <1>11, SameAccountIsAllBut
    <2>2. AllBut(m, r, {"wallet", "refund"})
      BY <2>1 DEF AllBut
    <2>3. Same(m, r, {"accounts", "creatorFees", "protocolFees", "now", "early"})
      BY <1>12 DEF Same
    <2>4. r.early.forfeited = m.early.forfeited
      BY <1>7, <1>9
    <2>5. QED
      BY <1>0, <1>9, <2>2, <2>3, <2>4, FrameKept DEF Good
  <1>18. QED
    BY <1>9, <1>13, <1>16, <1>17, GoodKept

-----------------------------------------------------------------------------
(* The deadlines. *)
LEMMA LargerOfTwo == ASSUME NEW x \in Nat, NEW y \in Nat PROVE Paper!Max({x, y}) \in Nat
  <1>1. \E z \in {x, y} : \A w \in {x, y} : z >= w
    <2>1. CASE x >= y
      BY <2>1
    <2>2. CASE y >= x
      BY <2>2
    <2>3. QED
      BY <2>1, <2>2
  <1>2. Paper!Max({x, y}) \in {x, y}
    BY <1>1 DEF Paper!Max
  <1>3. QED
    BY <1>2

LEMMA LaterIsGood ==
    ASSUME NEW m, NEW n, Good(m, n), NEW t \in Nat, NEW r, r = [m EXCEPT !.now = Paper!Max({t, @})]
    PROVE  Good(r, n)
  <1>0. WellTyped(m) /\ m.now \in Nat
    BY TypedIs DEF Good
  <1>1. PICK x : x = Paper!Max({t, m.now})
    OBVIOUS
  <1>2. r = [m EXCEPT !["now"] = x]
    BY <1>1
  <1>3. Same(m, r, {"now"}) /\ WellTyped(r)
    <2>1. x \in Nat
      BY <1>0, <1>1, LargerOfTwo
    <2>2. "now" \in Fields /\ x \in Shape["now"]
      BY <2>1, FieldsAre DEF Shape
    <2>3. Put(m, r, "now", x)
      BY <1>0, <1>2, <2>2, NewField
    <2>4. QED
      BY <2>3 DEF Put
  <1>4. /\ r.phase = m.phase /\ Traded(r) = Traded(m) /\ Vaulted(r) = Vaulted(m) /\ Debts(r) = Debts(m)
        /\ r.early = m.early /\ r.accounts = m.accounts /\ Escrow(r) = Escrow(m) /\ Purses(r) = Purses(m)
    BY <1>3, FieldsAre DEF Same, Traded, Vaulted, Debts, Escrow, Pending, Purses
  <1>5. Money(r) = Money(m)
    BY <1>4 DEF Money
  <1>6. Parts(r, n)
    <2>1. Same(m, r, {"accounts", "creatorFees", "protocolFees", "now", "early"})
      BY <1>3 DEF Same
    <2>2. AllBut(m, r, {"wallet", "refund"})
      BY <1>4 DEF AllBut
    <2>3. QED
      BY <1>0, <1>3, <1>4, <2>1, <2>2, FrameKept DEF Good
  <1>7. QED
    BY <1>3, <1>4, <1>5, <1>6, GoodKept

LEMMA HaltedIsGood ==
    ASSUME NEW m, NEW n, Good(m, n), NEW r, r = Paper!Halted(m)
    PROVE  Good(r, n)
  <1>1. CASE r = m
    BY <1>1
  <1>2. CASE m.phase = "FORMAL" /\ r = [m EXCEPT !["phase"] = "WAIT_CORE"]
    <2>0. WellTyped(m)
      BY DEF Good
    <2>1. Same(m, r, {"phase"}) /\ r.phase = "WAIT_CORE" /\ WellTyped(r)
      <3>1. "phase" \in Fields /\ "WAIT_CORE" \in Shape["phase"]
        BY FieldsAre DEF Shape
      <3>2. Put(m, r, "phase", "WAIT_CORE")
        BY <1>2, <2>0, <3>1, NewField
      <3>3. QED
        BY <3>2 DEF Put
    <2>2. /\ r.R = m.R /\ r.b = m.b /\ r.M0 = m.M0 /\ r.cash = m.cash /\ r.lpSupply = m.lpSupply
             /\ r.core = m.core
          /\ r.early = m.early /\ r.accounts = m.accounts /\ r.budget = m.budget /\ r.payouts = m.payouts
      BY <2>1, FieldsAre DEF Same
    <2>3. Traded(r) = Traded(m) /\ Vaulted(r) = Vaulted(m) /\ Debts(r) = Debts(m) /\ Escrow(r) = Escrow(m)
          /\ Purses(r) = Purses(m)
      BY <2>1, FieldsAre DEF Same, Traded, Vaulted, Debts, Escrow, Pending, Purses
    <2>4. MoneyIsKept(r, n)
      <3>1. Money(r) = Money(m) /\ Drift(r, n) = Drift(m, n)
        BY <1>2, <2>1, <2>3 DEF Money, Drift
      <3>2. QED
        BY <3>1 DEF Good, MoneyIsKept
    <2>5. m.phase \in Live /\ m.phase \in Before /\ \A X : AllBut(m, r, X)
      BY <1>2, <2>2 DEF Live, Before, AllBut
    <2>6. OnCurve(r)
      BY <2>2, <2>5, CurveKept DEF Good, Parts
    <2>7. VaultAdds(r, n)
      BY <2>2, <2>5, VaultKept DEF Good, Parts
    <2>8. NothingOwed(r)
      BY <2>2, <2>5, NothingOwedKept DEF Good, Parts
    <2>9. OnParabola(r, n) /\ OwedIsKept(r)
      BY <2>1 DEF OnParabola, OwedIsKept
    <2>10. QED
      BY <2>1, <2>4, <2>6, <2>7, <2>8, <2>9 DEF Good, Parts
  <1>3. QED
    BY <1>1, <1>2 DEF Paper!Halted

LEMMA NoDebts ==
    ASSUME NEW m, WellTyped(m), Debts(m) = 0
    PROVE  m.budget.lp = 0 /\ m.budget.outcomes = 0 /\ m.budget.failed = 0 /\ m.budget.core = 0
           /\ m.budget.official = 0
  <1>1. /\ m.budget.lp \in Nat /\ m.budget.outcomes \in Nat /\ m.budget.failed \in Nat
        /\ m.budget.core \in Nat /\ m.budget.official \in Nat
    BY SumsAre
  <1>3. m.budget.lp + m.budget.outcomes + m.budget.failed + m.budget.core + m.budget.official = 0
    BY DEF Debts
  <1>4. PICK v, w, x, y, z \in Nat :
          v = m.budget.lp /\ w = m.budget.outcomes /\ x = m.budget.failed /\ y = m.budget.core
                /\ z = m.budget.official
    BY <1>1
  <1>5. v + w + x + y + z = 0
    BY <1>3, <1>4, Zenon
  <1>6. v = 0 /\ w = 0 /\ x = 0 /\ y = 0 /\ z = 0
    BY <1>5
  <1>7. QED
    BY <1>4, <1>6

\* Genesis ended below its target: each share has its part of the reserve.
LEMMA FailIsGood ==
    ASSUME NEW m, NEW n \in Nat, Good(m, n), m.phase = "GENESIS", NEW r, r = Paper!Fail(m)
    PROVE  Good(r, n)
  <1>0. WellTyped(m) /\ OnParabola(m, n) /\ NothingOwed(m) /\ m.phase \in Before
    BY DEF Good, Parts, Before
  <1>1. /\ m.R \in Nat /\ m.S \in Nat /\ Col(m.accounts, "g") = m.S /\ m.budget \in BudgetBooks
        /\ m.R <= K * m.S * m.S /\ m.accounts \in [Accounts -> AccountRecords]
    BY <1>0, TypedIs DEF OnParabola
  <1>2. PICK bud : bud = [m.budget EXCEPT !.failed = m.R]
    OBVIOUS
  <1>3. PICK ini : ini = [lp |-> m.R, supply |-> m.S]
    OBVIOUS
  <1>4. r = [m EXCEPT !.phase = "FAILED", !.R = 0, !.budget = bud, !.initial = ini]
    BY <1>2, <1>3 DEF Paper!Fail
  <1>5. /\ Same(m, r, {"phase", "R", "budget", "initial"}) /\ r.phase = "FAILED" /\ r.R = 0
        /\ r.budget = bud /\ r.initial = ini
    BY <1>0, <1>4, TypedIs, FieldsAre DEF Same
  <1>6. bud \in BudgetBooks /\ ini \in [lp : Nat, supply : Nat]
    BY <1>1, <1>2, <1>3 DEF BudgetBooks
  <1>7. WellTyped(r)
    <2>1. r["phase"] \in Shape["phase"] /\ r["R"] \in Shape["R"]
      BY <1>5 DEF Shape
    <2>2. r["budget"] \in Shape["budget"] /\ r["initial"] \in Shape["initial"]
      BY <1>5, <1>6 DEF Shape
    <2>3. \A f \in {"phase", "R", "budget", "initial"} : r[f] \in Shape[f]
      BY <2>1, <2>2
    <2>4. QED
      BY <1>0, <1>5, <2>3, TypedKept
  <1>8. /\ r.accounts = m.accounts /\ r.payouts = m.payouts /\ r.early = m.early /\ r.core = m.core
        /\ r.cash = m.cash /\ r.lpFees = m.lpFees /\ r.creatorFees = m.creatorFees
           /\ r.protocolFees = m.protocolFees
    BY <1>5, FieldsAre DEF Same
  <1>9. /\ m.budget.lp = 0 /\ m.budget.outcomes = 0 /\ m.budget.failed = 0 /\ m.budget.core = 0
           /\ m.budget.official = 0
        /\ Debts(m) = 0 /\ \A u \in Accounts : m.payouts[u] = 0
    BY <1>0, NoDebts DEF NothingOwed
  <1>10. /\ r.budget.lp = 0 /\ r.budget.outcomes = 0 /\ r.budget.failed = m.R /\ r.budget.core = 0
            /\ r.budget.official = 0
    BY <1>1, <1>2, <1>5, <1>9 DEF BudgetBooks
  <1>11. MoneyIsKept(r, n)
    <2>1. Purses(r) = Purses(m) /\ Escrow(r) = Escrow(m) /\ Vaulted(r) = Vaulted(m)
      BY <1>8 DEF Purses, Escrow, Vaulted, Pending
    <2>2. Traded(r) + m.R = Traded(m)
      <3>1. m.cash \in Nat /\ m.lpFees \in Nat /\ m.creatorFees \in Nat /\ m.protocolFees \in Nat
        BY <1>0, TypedIs
      <3>2. QED
        BY <1>1, <1>5, <1>8, <3>1 DEF Traded
    <2>3. Debts(r) = m.R
      BY <1>1, <1>10 DEF Debts
    <2>4. Money(r) = Money(m)
      <3>1. Purses(m) \in Nat /\ Escrow(m) \in Nat /\ Traded(m) \in Nat /\ Traded(r) \in Nat /\ Vaulted(m) \in Nat
        BY <1>0, <1>7, MoneyType
      <3>2. QED
        BY <1>1, <1>9, <2>1, <2>2, <2>3, <3>1 DEF Money
    <2>5. Drift(r, n) = Drift(m, n)
      BY <1>5 DEF Drift
    <2>6. QED
      BY <2>4, <2>5 DEF Good, MoneyIsKept
  <1>12. OwedIsKept(r)
    <2> DEFINE p == [u \in Accounts |-> m.accounts[u].g]
               q == [u \in Accounts |-> Paper!ClaimPreview(r, u).failed]
    <2>1. ASSUME NEW u \in Accounts
          PROVE  /\ p[u] \in Nat /\ q[u] = Paper!Part(m.R, p[u], m.S)
                 /\ Paper!ClaimPreview(r, u).lp = 0 /\ Paper!ClaimPreview(r, u).outcomes = 0
      <3>1. p[u] \in Nat
        BY <1>0, AccountIs
      <3>2. q[u] = Paper!Part(m.R, p[u], m.S)
        BY <1>3, <1>5, <1>8 DEF Paper!ClaimPreview
      <3>3. Paper!ClaimPreview(r, u).lp = 0 /\ Paper!ClaimPreview(r, u).outcomes = 0
        BY <1>5 DEF Paper!ClaimPreview, Paper!LPPart
      <3>4. QED
        BY <3>1, <3>2, <3>3
    <2>2. Total(p) = m.S /\ Total(q) = OwedFailed(r)
      BY <1>1 DEF Col, OwedFailed
    <2> HIDE DEF p, q
    <2>3. /\ Total(q) \in Nat
          /\ m.S > 0 => Total(q) <= m.R /\ m.R <= Total(q) + Players
          /\ m.S = 0 => Total(q) = 0
      <3>1. \A u \in Accounts : p[u] \in Nat /\ q[u] = Paper!Part(m.R, p[u], m.S)
        BY <2>1
      <3>2. m.R \in Nat /\ m.S \in Nat /\ Total(p) = m.S
        BY <1>1, <2>2
      <3>3. QED
        BY <3>1, <3>2, PartsAdd
    <2>4. m.S = 0 => m.R = 0
      BY <1>1, Constants
    <2>5. Covers(m.R, OwedFailed(r))
      BY <1>1, <2>2, <2>3, <2>4, UsersFinite DEF Covers
    <2>6. OwedLp(r) = 0
      <3> DEFINE f == [u \in Accounts |-> Paper!ClaimPreview(r, u).lp]
      <3>1. \A u \in Accounts : f[u] = 0
        BY <2>1
      <3>2. OwedLp(r) = Total(f)
        BY DEF OwedLp
      <3> HIDE DEF f
      <3>3. QED
        BY <3>1, <3>2, TotalZero
    <2>7. OwedOutcomes(r) = 0
      <3> DEFINE f == [u \in Accounts |-> Paper!ClaimPreview(r, u).outcomes]
      <3>1. \A u \in Accounts : f[u] = 0
        BY <2>1
      <3>2. OwedOutcomes(r) = Total(f)
        BY DEF OwedOutcomes
      <3> HIDE DEF f
      <3>3. QED
        BY <3>1, <3>2, TotalZero
    <2>8. OwedCore(r) = 0
      <3> DEFINE f == [u \in Accounts |-> IF r.accounts[u].claimed THEN 0 ELSE r.payouts[u]]
      <3>1. \A u \in Accounts : f[u] = 0
        BY <1>8, <1>9
      <3>2. OwedCore(r) = Total(f)
        BY DEF OwedCore
      <3> HIDE DEF f
      <3>3. QED
        BY <3>1, <3>2, TotalZero
    <2>9. QED
      BY <1>5, <1>10, <2>5, <2>6, <2>7, <2>8, UsersFinite DEF OwedIsKept, Covers
  <1>13. OnParabola(r, n) /\ OnCurve(r) /\ VaultAdds(r, n) /\ NothingOwed(r)
    BY <1>5 DEF OnParabola, OnCurve, VaultAdds, NothingOwed, Live, Before
  <1>14. QED
    BY <1>7, <1>11, <1>12, <1>13 DEF Good, Parts

LEMMA ExpiredIsGood ==
    ASSUME NEW m, NEW n \in Nat, Good(m, n), NEW r, r = Paper!Expired(m)
    PROVE  Good(r, n)
  BY FailIsGood DEF Paper!Expired

Terminal == {"SETTLED", "FAILED"}

LEMMA ValueType ==
    ASSUME NEW h \in [Paper!Side -> Nat], NEW i \in Paper!Outcome
    PROVE  Paper!Value(h, i) \in Nat
  <1>1. h["YES"] \in Nat /\ h["NO"] \in Nat
    BY DEF Paper!Side
  <1>2. CASE i = "INVALID"
    BY <1>1, <1>2 DEF Paper!Value
  <1>3. CASE i # "INVALID"
    BY <1>1, <1>3 DEF Paper!Value, Paper!Outcome, Paper!Side
  <1>4. QED
    BY <1>2, <1>3

LEMMA PreviewType ==
    ASSUME NEW m, WellTyped(m), m.phase = "SETTLED" => m.result \in Paper!Outcome, NEW u \in Accounts
    PROVE  /\ Paper!ClaimPreview(m, u).lp \in Nat /\ Paper!ClaimPreview(m, u).outcomes \in Nat
              /\ Paper!ClaimPreview(m, u).failed \in Nat
           /\ m.accounts[u].lp = 0 => Paper!ClaimPreview(m, u).lp = 0
           /\ m.accounts[u].g = 0 => Paper!ClaimPreview(m, u).failed = 0
           /\ m.accounts[u].held["YES"] = 0 /\ m.accounts[u].held["NO"] = 0
              => Paper!ClaimPreview(m, u).outcomes = 0
  <1>1. /\ m.accounts[u].lp \in Nat /\ m.accounts[u].g \in Nat /\ m.accounts[u].held \in [Paper!Side -> Nat]
        /\ m.initial.lp \in Nat /\ m.initial.supply \in Nat
    BY AccountIs, SumsAre
  <1>2. /\ Paper!Part(m.initial.lp, m.accounts[u].lp, m.initial.supply) \in Nat
        /\ m.accounts[u].lp = 0 => Paper!Part(m.initial.lp, m.accounts[u].lp, m.initial.supply) = 0
    BY <1>1, PartType
  <1>3. /\ Paper!Part(m.initial.lp, m.accounts[u].g, m.initial.supply) \in Nat
        /\ m.accounts[u].g = 0 => Paper!Part(m.initial.lp, m.accounts[u].g, m.initial.supply) = 0
    BY <1>1, PartType
  <1>4. /\ Paper!ClaimPreview(m, u).lp \in Nat
        /\ m.accounts[u].lp = 0 => Paper!ClaimPreview(m, u).lp = 0
    BY <1>2 DEF Paper!ClaimPreview, Paper!LPPart
  <1>5. /\ Paper!ClaimPreview(m, u).failed \in Nat
        /\ m.accounts[u].g = 0 => Paper!ClaimPreview(m, u).failed = 0
    BY <1>3 DEF Paper!ClaimPreview
  <1>6. Paper!ClaimPreview(m, u).outcomes =
          IF m.phase = "SETTLED" THEN Paper!Value(m.accounts[u].held, m.result) ELSE 0
    BY DEF Paper!ClaimPreview
  <1>7. m.phase = "SETTLED" => Paper!Value(m.accounts[u].held, m.result) \in Nat
    BY <1>1, ValueType
  <1>8. ASSUME m.phase = "SETTLED", m.accounts[u].held["YES"] = 0, m.accounts[u].held["NO"] = 0
        PROVE  Paper!Value(m.accounts[u].held, m.result) = 0
    BY <1>8 DEF Paper!Value, Paper!Outcome, Paper!Side
  <1>9. QED
    BY <1>4, <1>5, <1>6, <1>7, <1>8

\* What one player claims is owed no more.
LEMMA ClaimedIsNotOwed ==
    ASSUME NEW f, NEW g, NEW u \in Accounts, \A v \in Accounts : f[v] \in Nat, g[u] = 0,
           \A v \in Accounts : v # u => g[v] = f[v]
    PROVE  Total(g) + f[u] = Total(f) /\ Total(f) \in Nat /\ Total(g) \in Nat
  <1>1. \A v \in Accounts : f[v] \in Nat /\ g[v] \in Nat
    OBVIOUS
  <1>2. Total(g) + f[u] = Total(f) + g[u] /\ Total(f) \in Nat /\ Total(g) \in Nat
    BY <1>1, TotalMoves, TotalType
  <1>3. QED
    BY <1>2

LEMMA OthersAreOwed ==
    ASSUME NEW m, NEW r, NEW u \in Accounts, r.phase = m.phase, r.initial = m.initial, r.result = m.result,
           NEW v \in Accounts, r.accounts[v] = m.accounts[v]
    PROVE  Paper!ClaimPreview(r, v) = Paper!ClaimPreview(m, v)
  BY DEF Paper!ClaimPreview, Paper!LPPart

ClaimsOf(m, r, u) ==
    /\ OwedLp(r) + Paper!ClaimPreview(m, u).lp = OwedLp(m)
    /\ OwedOutcomes(r) + Paper!ClaimPreview(m, u).outcomes = OwedOutcomes(m)
    /\ OwedFailed(r) + Paper!ClaimPreview(m, u).failed = OwedFailed(m)
    /\ \A x \in {OwedLp(r), OwedLp(m), OwedOutcomes(r), OwedOutcomes(m), OwedFailed(r), OwedFailed(m)} : x \in Nat
LEMMA ClaimsMove ==
    ASSUME NEW m, NEW r, NEW u \in Accounts, WellTyped(m), WellTyped(r),
           m.phase = "SETTLED" => m.result \in Paper!Outcome,
           r.phase = m.phase, r.initial = m.initial, r.result = m.result,
           \A v \in Accounts : v # u => r.accounts[v] = m.accounts[v],
           r.accounts[u].lp = 0, r.accounts[u].g = 0, r.accounts[u].held["YES"] = 0, r.accounts[u].held["NO"] = 0
    PROVE  ClaimsOf(m, r, u)
  <1>1. ASSUME NEW v \in Accounts
        PROVE  Paper!ClaimPreview(m, v).lp \in Nat /\ Paper!ClaimPreview(m, v).outcomes \in Nat
               /\ Paper!ClaimPreview(m, v).failed \in Nat
    BY PreviewType
  <1>2. Paper!ClaimPreview(r, u).lp = 0 /\ Paper!ClaimPreview(r, u).outcomes = 0
        /\ Paper!ClaimPreview(r, u).failed = 0
    BY PreviewType
  <1>3. ASSUME NEW v \in Accounts, v # u PROVE Paper!ClaimPreview(r, v) = Paper!ClaimPreview(m, v)
    BY <1>3, OthersAreOwed
  <1>4. OwedLp(r) + Paper!ClaimPreview(m, u).lp = OwedLp(m) /\ OwedLp(m) \in Nat /\ OwedLp(r) \in Nat
    <2> DEFINE f == [v \in Accounts |-> Paper!ClaimPreview(m, v).lp]
               g == [v \in Accounts |-> Paper!ClaimPreview(r, v).lp]
    <2>1. \A v \in Accounts : f[v] \in Nat
      BY <1>1
    <2>2. g[u] = 0 /\ f[u] = Paper!ClaimPreview(m, u).lp /\ \A v \in Accounts : v # u => g[v] = f[v]
      BY <1>2, <1>3
    <2>3. Total(f) = OwedLp(m) /\ Total(g) = OwedLp(r)
      BY DEF OwedLp
    <2> HIDE DEF f, g
    <2>4. QED
      BY <2>1, <2>2, <2>3, ClaimedIsNotOwed
  <1>5. OwedOutcomes(r) + Paper!ClaimPreview(m, u).outcomes = OwedOutcomes(m) /\ OwedOutcomes(m) \in Nat
        /\ OwedOutcomes(r) \in Nat
    <2> DEFINE f == [v \in Accounts |-> Paper!ClaimPreview(m, v).outcomes]
               g == [v \in Accounts |-> Paper!ClaimPreview(r, v).outcomes]
    <2>1. \A v \in Accounts : f[v] \in Nat
      BY <1>1
    <2>2. g[u] = 0 /\ f[u] = Paper!ClaimPreview(m, u).outcomes /\ \A v \in Accounts : v # u => g[v] = f[v]
      BY <1>2, <1>3
    <2>3. Total(f) = OwedOutcomes(m) /\ Total(g) = OwedOutcomes(r)
      BY DEF OwedOutcomes
    <2> HIDE DEF f, g
    <2>4. QED
      BY <2>1, <2>2, <2>3, ClaimedIsNotOwed
  <1>6. OwedFailed(r) + Paper!ClaimPreview(m, u).failed = OwedFailed(m) /\ OwedFailed(m) \in Nat
        /\ OwedFailed(r) \in Nat
    <2> DEFINE f == [v \in Accounts |-> Paper!ClaimPreview(m, v).failed]
               g == [v \in Accounts |-> Paper!ClaimPreview(r, v).failed]
    <2>1. \A v \in Accounts : f[v] \in Nat
      BY <1>1
    <2>2. g[u] = 0 /\ f[u] = Paper!ClaimPreview(m, u).failed /\ \A v \in Accounts : v # u => g[v] = f[v]
      BY <1>2, <1>3
    <2>3. Total(f) = OwedFailed(m) /\ Total(g) = OwedFailed(r)
      BY DEF OwedFailed
    <2> HIDE DEF f, g
    <2>4. QED
      BY <2>1, <2>2, <2>3, ClaimedIsNotOwed
  <1>7. QED
    BY <1>4, <1>5, <1>6 DEF ClaimsOf

\* The document after a claim of p.
ClaimPaid(m, u, p) ==
    Paper!Receive(
      [m EXCEPT
         !.lpSupply = @ - m.accounts[u].lp, !.S = IF m.phase = "FAILED" THEN @ - m.accounts[u].g ELSE @,
         !.budget.lp = @ - p.lp, !.budget.outcomes = @ - p.outcomes, !.budget.failed = @ - p.failed,
         !.accounts[u] = [m.accounts[u] EXCEPT !.lp = 0, !.g = 0, !.held = [s \in Paper!Side |-> 0]]],
      u, p.outcomes + p.lp + p.failed)

LEMMA ClaimIsGood ==
    ASSUME NEW m, NEW n, Good(m, n), m.phase \in Terminal, NEW u \in Accounts, NEW p,
           p = Paper!ClaimPreview(m, u),
           NEW r, r = ClaimPaid(m, u, p)
    PROVE  Good(r, n)
  <1>0. WellTyped(m) /\ OwedIsKept(m)
    BY DEF Good, Parts
  <1>1. /\ m.phase = "SETTLED" => m.result \in Paper!Outcome
        /\ Covers(m.budget.lp, OwedLp(m)) /\ Covers(m.budget.outcomes, OwedOutcomes(m))
        /\ Covers(m.budget.failed, OwedFailed(m)) /\ m.budget.core = OwedCore(m)
    BY <1>0 DEF OwedIsKept, Terminal
  <1>2. p.lp \in Nat /\ p.outcomes \in Nat /\ p.failed \in Nat
    BY <1>0, <1>1, PreviewType
  <1>3. PICK a : a = [m.accounts[u] EXCEPT !.lp = 0, !.g = 0, !.held = [s \in Paper!Side |-> 0]]
    OBVIOUS
  <1>4. PICK bud : bud = [m.budget EXCEPT !.lp = @ - p.lp, !.outcomes = @ - p.outcomes, !.failed = @ - p.failed]
    OBVIOUS
  <1>5. PICK as : as = [m.accounts EXCEPT ![u] = a]
    OBVIOUS
  <1>6. PICK x, y : x = m.lpSupply - m.accounts[u].lp
        /\ y = (IF m.phase = "FAILED" THEN m.S - m.accounts[u].g ELSE m.S)
    OBVIOUS
  <1>7. PICK k : k = [m EXCEPT !.lpSupply = x, !.S = y, !.budget = bud, !.accounts = as]
    OBVIOUS
  <1>8. r = Paper!Receive(k, u, p.outcomes + p.lp + p.failed)
    BY ZenonT(40), <1>3, <1>4, <1>5, <1>6, <1>7 DEF ClaimPaid
  <1>9. /\ Same(m, k, {"lpSupply", "S", "budget", "accounts"}) /\ k.budget = bud /\ k.accounts = as
        /\ k.lpSupply = x /\ k.S = y
    BY <1>0, <1>7, TypedIs, FieldsAre DEF Same
  <1>10. /\ a \in AccountRecords /\ a.lp = 0 /\ a.g = 0 /\ a.held["YES"] = 0 /\ a.held["NO"] = 0
         /\ \A f \in Own \ {"lp", "g", "held"} : a[f] = m.accounts[u][f]
    <2>1. [s \in Paper!Side |-> 0] \in [Paper!Side -> Nat] /\ [s \in Paper!Side |-> 0]["YES"] = 0
          /\ [s \in Paper!Side |-> 0]["NO"] = 0
      BY DEF Paper!Side
    <2>2. QED
      BY <1>0, <1>3, <2>1, AccountIs DEF AccountRecords, Own
  <1>11. as \in [Accounts -> AccountRecords] /\ as[u] = a /\ \A v \in Accounts : v # u => as[v] = m.accounts[v]
    BY <1>0, <1>5, <1>10, TypedIs
  <1>12. PICK z \in Nat : z = p.outcomes + p.lp + p.failed
    BY <1>2
  <1>13. Paper!ClaimPreview(m, u).lp <= OwedLp(m) /\ Paper!ClaimPreview(m, u).outcomes <= OwedOutcomes(m)
        /\ Paper!ClaimPreview(m, u).failed <= OwedFailed(m)
         /\ OwedLp(m) \in Nat /\ OwedOutcomes(m) \in Nat /\ OwedFailed(m) \in Nat
    <2>0. \A v \in Accounts : Paper!ClaimPreview(m, v).lp \in Nat /\ Paper!ClaimPreview(m, v).outcomes \in Nat
          /\ Paper!ClaimPreview(m, v).failed \in Nat
      <3> SUFFICES ASSUME NEW v \in Accounts
                   PROVE  Paper!ClaimPreview(m, v).lp \in Nat /\ Paper!ClaimPreview(m, v).outcomes \in Nat
                          /\ Paper!ClaimPreview(m, v).failed \in Nat
        OBVIOUS
      <3>1. QED
        BY <1>0, <1>1, PreviewType
    <2> DEFINE f == [v \in Accounts |-> Paper!ClaimPreview(m, v).lp]
               g == [v \in Accounts |-> Paper!ClaimPreview(m, v).outcomes]
               h == [v \in Accounts |-> Paper!ClaimPreview(m, v).failed]
    <2>1. \A v \in Accounts : f[v] \in Nat /\ g[v] \in Nat /\ h[v] \in Nat
      BY <2>0
    <2>2. f[u] = Paper!ClaimPreview(m, u).lp /\ g[u] = Paper!ClaimPreview(m, u).outcomes
          /\ h[u] = Paper!ClaimPreview(m, u).failed
      OBVIOUS
    <2>3. Total(f) = OwedLp(m) /\ Total(g) = OwedOutcomes(m) /\ Total(h) = OwedFailed(m)
      BY DEF OwedLp, OwedOutcomes, OwedFailed
    <2> HIDE DEF f, g, h
    <2>4. f[u] <= Total(f) /\ Total(f) \in Nat
      BY <2>1, TotalTerm, TotalType
    <2>5. g[u] <= Total(g) /\ Total(g) \in Nat
      BY <2>1, TotalTerm, TotalType
    <2>6. h[u] <= Total(h) /\ Total(h) \in Nat
      BY <2>1, TotalTerm, TotalType
    <2>7. QED
      BY <2>2, <2>3, <2>4, <2>5, <2>6
  <1>14. m.budget \in BudgetBooks /\ m.budget.lp \in Nat /\ m.budget.outcomes \in Nat /\ m.budget.failed \in Nat
         /\ m.budget.core \in Nat /\ m.budget.official \in Nat
    BY <1>0, TypedIs, SumsAre
  <1>15. bud \in BudgetBooks /\ bud.lp = m.budget.lp - p.lp /\ bud.outcomes = m.budget.outcomes - p.outcomes
         /\ bud.failed = m.budget.failed - p.failed /\ bud.core = m.budget.core
            /\ bud.official = m.budget.official
    <2>1. m.budget.lp - p.lp \in Nat /\ m.budget.outcomes - p.outcomes \in Nat
          /\ m.budget.failed - p.failed \in Nat
      BY <1>1, <1>2, <1>13, <1>14, UsersFinite DEF Covers
    <2>2. QED
      BY <1>4, <1>14, <2>1 DEF BudgetBooks
  <1>16. WellTyped(k)
    <2>1. m.S \in Int /\ m.lpSupply \in Int /\ m.accounts[u].lp \in Nat /\ m.accounts[u].g \in Nat
      BY <1>0, TypedIs, AccountIs
    <2>2. x \in Int /\ y \in Int
      BY <1>6, <2>1
    <2>3. k["lpSupply"] \in Shape["lpSupply"] /\ k["S"] \in Shape["S"] /\ k["budget"] \in Shape["budget"]
          /\ k["accounts"] \in Shape["accounts"]
      BY <1>9, <1>11, <1>15, <2>2 DEF Shape
    <2>4. \A f \in {"lpSupply", "S", "budget", "accounts"} : k[f] \in Shape[f]
      BY <2>3
    <2>5. QED
      BY <1>0, <1>9, <2>4, TypedKept
  <1>17. SameAccount(m, k, u, {"lp", "g", "held"})
    BY <1>9, <1>10, <1>11 DEF SameAccount
  <1>18. /\ Same(k, r, {"accounts"}) /\ SameAccount(k, r, u, {"wallet"}) /\ WellTyped(r)
         /\ r.accounts[u].wallet = k.accounts[u].wallet + z
    BY <1>8, <1>12, <1>16, ReceiveGives
  <1>19. SameAccount(m, r, u, {"lp", "g", "held"} \cup {"wallet"})
    BY <1>17, <1>18, SameAccountTwice
  <1>20. Same(m, r, {"lpSupply", "S", "budget", "accounts"} \cup {"accounts"})
    BY <1>9, <1>18, SameTwice
  <1>21. /\ r.phase = m.phase /\ r.initial = m.initial /\ r.result = m.result /\ r.payouts = m.payouts
         /\ r.early = m.early /\ r.core = m.core
         /\ r.R = m.R /\ r.cash = m.cash /\ r.lpFees = m.lpFees /\ r.creatorFees = m.creatorFees
            /\ r.protocolFees = m.protocolFees
    BY <1>20, FieldsAre DEF Same
  <1>22. r.budget = bud
    BY <1>9, <1>18, FieldsAre DEF Same
  <1>23. /\ r.accounts[u].lp = 0 /\ r.accounts[u].g = 0 /\ r.accounts[u].held["YES"] = 0
            /\ r.accounts[u].held["NO"] = 0
         /\ r.accounts[u].wallet = m.accounts[u].wallet + z
         /\ \A v \in Accounts : v # u => r.accounts[v] = m.accounts[v]
    BY <1>9, <1>10, <1>11, <1>18, <1>19 DEF SameAccount, Own
  <1>24. Purses(r) = Purses(m) + z
    <2>1. /\ Col(r.accounts, "wallet") + m.accounts[u]["wallet"]
             = Col(m.accounts, "wallet") + r.accounts[u]["wallet"]
          /\ Col(r.accounts, "refund") = Col(m.accounts, "refund")
      <3>1. ColsShift(m, r, u) /\ ColsKept(m, r, {"lp", "g", "held"} \cup {"wallet"})
        BY <1>0, <1>18, <1>19, ColsMove
      <3>2. QED
        BY SMTT(20), <3>1 DEF ColsShift, ColsKept, Sums
    <2>2. /\ Col(r.accounts, "wallet") \in Nat /\ Col(m.accounts, "wallet") \in Nat
             /\ Col(m.accounts, "refund") \in Nat
          /\ m.accounts[u].wallet \in Nat
      BY <1>0, <1>18, SumsAre, AccountIs
    <2>3. z \in Nat /\ r.accounts[u].wallet = m.accounts[u].wallet + z
      BY <1>12, <1>23
    <2>4. QED
      BY <2>1, <2>2, <2>3 DEF Purses
  <1>25. Debts(r) + z = Debts(m)
    <2>1. PICK v1, v2, v3, v4, v5 \in Nat :
            v1 = m.budget.lp /\ v2 = m.budget.outcomes /\ v3 = m.budget.failed /\ v4 = m.budget.core
                  /\ v5 = m.budget.official
      BY <1>14
    <2>2. PICK w1, w2, w3 \in Nat : w1 = p.lp /\ w2 = p.outcomes /\ w3 = p.failed
      BY <1>2
    <2>3. Debts(m) = v1 + v2 + v3 + v4 + v5
      BY <2>1, Zenon DEF Debts
    <2>4. Debts(r) = (v1 - w1) + (v2 - w2) + (v3 - w3) + v4 + v5
      BY <1>15, <1>22, <2>1, <2>2, Zenon DEF Debts
    <2>5. z = w2 + w1 + w3
      BY <1>12, <2>2, Zenon
    <2>6. QED
      BY <2>3, <2>4, <2>5
  <1>26. Money(r) = Money(m)
    <2>1. Traded(r) = Traded(m) /\ Vaulted(r) = Vaulted(m) /\ Escrow(r) = Escrow(m)
      BY <1>21 DEF Traded, Vaulted, Escrow, Pending
    <2>2. Purses(m) \in Nat /\ Escrow(m) \in Nat /\ Traded(m) \in Nat /\ Vaulted(m) \in Nat /\ Debts(m) \in Nat
          /\ Debts(r) \in Nat
      BY <1>0, <1>18, MoneyType
    <2>3. QED
      BY <1>12, <1>24, <1>25, <2>1, <2>2 DEF Money
  <1>27. OwedCore(r) = OwedCore(m)
    <2>1. \A v \in Accounts : r.accounts[v].claimed = m.accounts[v].claimed
      BY <1>19, <1>23 DEF SameAccount, Own
    <2>2. ASSUME NEW v \in Accounts
          PROVE  (IF r.accounts[v].claimed THEN 0 ELSE r.payouts[v]) =
                 IF m.accounts[v].claimed THEN 0 ELSE m.payouts[v]
      <3>1. r.payouts[v] = m.payouts[v] /\ r.accounts[v].claimed = m.accounts[v].claimed
        BY <1>21, <2>1
      <3>2. QED
        BY <3>1, Zenon
    <2> DEFINE f == [v \in Accounts |-> IF r.accounts[v].claimed THEN 0 ELSE r.payouts[v]]
               g == [v \in Accounts |-> IF m.accounts[v].claimed THEN 0 ELSE m.payouts[v]]
    <2>3. \A v \in Accounts : f[v] = g[v]
      BY <2>2
    <2>4. Total(f) = OwedCore(r) /\ Total(g) = OwedCore(m)
      BY DEF OwedCore
    <2> HIDE DEF f, g
    <2>5. QED
      BY <2>3, <2>4, TotalAgrees
  <1>28. ClaimsOf(m, r, u)
    BY <1>0, <1>1, <1>18, <1>21, <1>23, ClaimsMove
  <1>29. OwedIsKept(r)
    <2>1. /\ OwedLp(r) + p.lp = OwedLp(m) /\ OwedOutcomes(r) + p.outcomes = OwedOutcomes(m)
             /\ OwedFailed(r) + p.failed = OwedFailed(m)
          /\ OwedLp(r) \in Nat /\ OwedOutcomes(r) \in Nat /\ OwedFailed(r) \in Nat
      BY <1>28 DEF ClaimsOf
    <2>2. /\ r.budget.lp = m.budget.lp - p.lp /\ r.budget.outcomes = m.budget.outcomes - p.outcomes
          /\ r.budget.failed = m.budget.failed - p.failed /\ r.budget.core = m.budget.core
      BY <1>15, <1>22
    <2>3. Covers(r.budget.lp, OwedLp(r))
      BY <1>1, <1>2, <1>13, <1>14, <2>1, <2>2, UsersFinite DEF Covers
    <2>4. Covers(r.budget.outcomes, OwedOutcomes(r))
      BY <1>1, <1>2, <1>13, <1>14, <2>1, <2>2, UsersFinite DEF Covers
    <2>5. Covers(r.budget.failed, OwedFailed(r))
      BY <1>1, <1>2, <1>13, <1>14, <2>1, <2>2, UsersFinite DEF Covers
    <2>6. QED
      BY <1>1, <1>21, <1>27, <2>2, <2>3, <2>4, <2>5 DEF OwedIsKept
  <1>30. Parts(r, n)
    BY <1>21, <1>29 DEF Parts, OnParabola, OnCurve, VaultAdds, NothingOwed, Live, Before, Terminal
  <1>31. QED
    BY <1>18, <1>21, <1>26, <1>30, GoodKept

\* The document after a claim of what the vault pays.
CorePaid(m, u) ==
    Paper!Receive([m EXCEPT !.accounts[u].claimed = TRUE, !.budget.core = @ - m.payouts[u]], u, m.payouts[u])

LEMMA ClaimCoreIsGood ==
    ASSUME NEW m, NEW n, Good(m, n), m.phase = "SETTLED", NEW u \in Accounts, ~m.accounts[u].claimed,
           NEW r, r = CorePaid(m, u)
    PROVE  Good(r, n)
  <1>0. WellTyped(m) /\ OwedIsKept(m)
    BY DEF Good, Parts
  <1>1. /\ m.result \in Paper!Outcome
        /\ Covers(m.budget.lp, OwedLp(m)) /\ Covers(m.budget.outcomes, OwedOutcomes(m))
        /\ Covers(m.budget.failed, OwedFailed(m)) /\ m.budget.core = OwedCore(m)
    BY <1>0 DEF OwedIsKept
  <1>2. PICK z \in Nat : z = m.payouts[u]
    BY <1>0, SumsAre
  <1>3. PICK a : a = [m.accounts[u] EXCEPT !.claimed = TRUE]
    OBVIOUS
  <1>4. PICK bud : bud = [m.budget EXCEPT !.core = @ - z]
    OBVIOUS
  <1>5. PICK as : as = [m.accounts EXCEPT ![u] = a]
    OBVIOUS
  <1>6. PICK k : k = [m EXCEPT !.accounts = as, !.budget = bud]
    OBVIOUS
  <1>7. r = Paper!Receive(k, u, z)
    <2>1. as = [m.accounts EXCEPT ![u].claimed = TRUE]
      BY <1>3, <1>5
    <2>2. QED
      BY <1>2, <1>4, <1>6, <2>1 DEF CorePaid
  <1>8. Same(m, k, {"budget", "accounts"}) /\ k.budget = bud /\ k.accounts = as
    BY <1>0, <1>6, TypedIs, FieldsAre DEF Same
  <1>9. a \in AccountRecords /\ a.claimed = TRUE /\ \A f \in Own \ {"claimed"} : a[f] = m.accounts[u][f]
    BY <1>0, <1>3, AccountIs DEF AccountRecords, Own
  <1>10. as \in [Accounts -> AccountRecords] /\ as[u] = a /\ \A v \in Accounts : v # u => as[v] = m.accounts[v]
    BY <1>0, <1>5, <1>9, TypedIs
  <1>11. m.budget \in BudgetBooks /\ m.budget.lp \in Nat /\ m.budget.outcomes \in Nat /\ m.budget.failed \in Nat
         /\ m.budget.core \in Nat /\ m.budget.official \in Nat
    BY <1>0, TypedIs, SumsAre
  <1> DEFINE f == [v \in Accounts |-> IF m.accounts[v].claimed THEN 0 ELSE m.payouts[v]]
             g == [v \in Accounts |-> IF r.accounts[v].claimed THEN 0 ELSE r.payouts[v]]
  <1>12. (\A v \in Accounts : f[v] \in Nat) /\ f[u] = z
    <2>1. \A v \in Accounts : m.payouts[v] \in Nat
      BY <1>0, SumsAre
    <2>2. QED
      BY <1>2, <2>1
  <1>13. Total(f) = OwedCore(m) /\ Total(g) = OwedCore(r)
    BY DEF OwedCore
  <1>14. z <= m.budget.core
    <2> HIDE DEF f, g
    <2>1. f[u] <= Total(f)
      BY <1>12, TotalTerm
    <2>2. QED
      BY <1>1, <1>12, <1>13, <2>1
  <1>15. bud \in BudgetBooks /\ bud.lp = m.budget.lp /\ bud.outcomes = m.budget.outcomes
         /\ bud.failed = m.budget.failed /\ bud.core = m.budget.core - z /\ bud.official = m.budget.official
    <2>1. m.budget.core - z \in Nat
      BY <1>11, <1>14
    <2>2. QED
      BY <1>4, <1>11, <2>1 DEF BudgetBooks
  <1>16. WellTyped(k)
    <2>1. k["budget"] \in Shape["budget"] /\ k["accounts"] \in Shape["accounts"]
      BY <1>8, <1>10, <1>15 DEF Shape
    <2>2. \A x \in {"budget", "accounts"} : k[x] \in Shape[x]
      BY <2>1
    <2>3. QED
      BY <1>0, <1>8, <2>2, TypedKept
  <1>17. SameAccount(m, k, u, {"claimed"})
    BY <1>8, <1>9, <1>10 DEF SameAccount
  <1>18. /\ Same(k, r, {"accounts"}) /\ SameAccount(k, r, u, {"wallet"}) /\ WellTyped(r)
         /\ r.accounts[u].wallet = k.accounts[u].wallet + z
    BY <1>7, <1>16, ReceiveGives
  <1>19. SameAccount(m, r, u, {"claimed"} \cup {"wallet"})
    BY <1>17, <1>18, SameAccountTwice
  <1>20. Same(m, r, {"budget", "accounts"} \cup {"accounts"})
    BY <1>8, <1>18, SameTwice
  <1>21. /\ r.phase = m.phase /\ r.initial = m.initial /\ r.result = m.result /\ r.payouts = m.payouts
         /\ r.early = m.early /\ r.core = m.core
         /\ r.R = m.R /\ r.cash = m.cash /\ r.lpFees = m.lpFees /\ r.creatorFees = m.creatorFees
            /\ r.protocolFees = m.protocolFees
    BY <1>20, FieldsAre DEF Same
  <1>22. r.budget = bud
    BY <1>8, <1>18, FieldsAre DEF Same
  <1>23. r.accounts[u].claimed = TRUE /\ r.accounts[u].wallet = m.accounts[u].wallet + z
         /\ \A v \in Accounts : v # u => r.accounts[v] = m.accounts[v]
    BY <1>8, <1>9, <1>10, <1>18, <1>19 DEF SameAccount, Own
  <1>24. Purses(r) = Purses(m) + z
    <2>1. /\ Col(r.accounts, "wallet") + m.accounts[u]["wallet"]
             = Col(m.accounts, "wallet") + r.accounts[u]["wallet"]
          /\ Col(r.accounts, "refund") = Col(m.accounts, "refund")
      <3>1. ColsShift(m, r, u) /\ ColsKept(m, r, {"claimed"} \cup {"wallet"})
        BY <1>0, <1>18, <1>19, ColsMove
      <3>2. QED
        BY SMTT(20), <3>1 DEF ColsShift, ColsKept, Sums
    <2>2. /\ Col(r.accounts, "wallet") \in Nat /\ Col(m.accounts, "wallet") \in Nat
             /\ Col(m.accounts, "refund") \in Nat
          /\ m.accounts[u].wallet \in Nat
      BY <1>0, <1>18, SumsAre, AccountIs
    <2>3. z \in Nat /\ r.accounts[u].wallet = m.accounts[u].wallet + z
      BY <1>2, <1>23
    <2>4. QED
      BY <2>1, <2>2, <2>3 DEF Purses
  <1>25. Debts(r) + z = Debts(m)
    <2>1. PICK v1, v2, v3, v4, v5 \in Nat :
            v1 = m.budget.lp /\ v2 = m.budget.outcomes /\ v3 = m.budget.failed /\ v4 = m.budget.core
                  /\ v5 = m.budget.official
      BY <1>11
    <2>2. Debts(m) = v1 + v2 + v3 + v4 + v5
      BY <2>1, Zenon DEF Debts
    <2>3. Debts(r) = v1 + v2 + v3 + (v4 - z) + v5
      BY <1>15, <1>22, <2>1, Zenon DEF Debts
    <2>4. z \in Nat
      BY <1>2
    <2>5. QED
      BY <2>2, <2>3, <2>4
  <1>26. Money(r) = Money(m)
    <2>1. Traded(r) = Traded(m) /\ Vaulted(r) = Vaulted(m) /\ Escrow(r) = Escrow(m)
      BY <1>21 DEF Traded, Vaulted, Escrow, Pending
    <2>2. Purses(m) \in Nat /\ Escrow(m) \in Nat /\ Traded(m) \in Nat /\ Vaulted(m) \in Nat /\ Debts(m) \in Nat
          /\ Debts(r) \in Nat
      BY <1>0, <1>18, MoneyType
    <2>3. z \in Nat
      BY <1>2
    <2>4. QED
      BY <1>24, <1>25, <2>1, <2>2, <2>3 DEF Money
  <1>27. OwedCore(r) + z = OwedCore(m)
    <2>1. g[u] = 0
      BY <1>23
    <2>2. ASSUME NEW v \in Accounts, v # u PROVE g[v] = f[v]
      <3>1. r.accounts[v] = m.accounts[v] /\ r.payouts[v] = m.payouts[v]
        BY <1>21, <1>23, <2>2
      <3>2. QED
        BY <3>1
    <2> HIDE DEF f, g
    <2>3. Total(g) + f[u] = Total(f)
      BY <1>12, <2>1, <2>2, ClaimedIsNotOwed
    <2>4. QED
      BY <1>12, <1>13, <2>3
  <1>28. OwedLp(r) = OwedLp(m) /\ OwedOutcomes(r) = OwedOutcomes(m) /\ OwedFailed(r) = OwedFailed(m)
    <2>1. ASSUME NEW v \in Accounts PROVE Paper!ClaimPreview(r, v) = Paper!ClaimPreview(m, v)
      <3>1. r.accounts[v].lp = m.accounts[v].lp /\ r.accounts[v].g = m.accounts[v].g
            /\ r.accounts[v].held = m.accounts[v].held
        BY <1>19, <1>23 DEF SameAccount, Own
      <3>2. QED
        BY <1>21, <3>1 DEF Paper!ClaimPreview, Paper!LPPart
    <2>2. QED
      BY <2>1 DEF OwedLp, OwedOutcomes, OwedFailed
  <1>29. OwedIsKept(r)
    <2>1. /\ r.budget.lp = m.budget.lp /\ r.budget.outcomes = m.budget.outcomes
          /\ r.budget.failed = m.budget.failed /\ r.budget.core = m.budget.core - z
      BY <1>15, <1>22
    <2>2. OwedCore(r) \in Nat
      <3>1. \A v \in Accounts : g[v] \in Nat
        <4>1. \A v \in Accounts : r.payouts[v] \in Nat
          BY <1>18, SumsAre
        <4>2. QED
          BY <4>1
      <3> HIDE DEF g
      <3>2. QED
        BY <1>13, <3>1, TotalType
    <2>3. r.budget.core = OwedCore(r)
      BY <1>1, <1>2, <1>27, <2>1, <2>2
    <2>4. QED
      BY <1>1, <1>21, <1>28, <2>1, <2>3 DEF OwedIsKept
  <1>30. Parts(r, n)
    BY <1>21, <1>29 DEF Parts, OnParabola, OnCurve, VaultAdds, NothingOwed, Live, Before
  <1>31. QED
    BY <1>18, <1>21, <1>26, <1>30, GoodKept

\* A bounded slack is a number.
LEMMA SlackType == ASSUME Paper!SlackIsBounded, NEW b \in Nat \ {0}, NEW d \in Nat
      PROVE Slack(d, b) \in Nat /\ Slack(d, b) <= b
  <1>1. Slack(d, b) \in 0..b
    BY DEF Paper!SlackIsBounded
  <1>2. QED
    BY <1>1

LEMMA SquareOfSum ==
    ASSUME NEW k \in Nat, NEW s \in Nat, NEW n \in Nat
    PROVE  k * (s + n) * (s + n) = k * s * s + k * n * (2 * s + n)
  OBVIOUS

LEMMA BudgetOfCost ==
    ASSUME NEW x \in Nat, NEW p, p = (100 * x) \div 99
    PROVE  p \in Nat /\ (99 * p) \div 100 \in Nat /\ (99 * p) \div 100 <= x /\ x <= (99 * p) \div 100 + 1
  OBVIOUS

LEMMA GenesisFees ==
    ASSUME NEW p \in Nat
    PROVE  LET a == (99 * p) \div 100
               c == (7 * p) \div 1000
               d == (3 * p) \div 1000
           IN  a \in Nat /\ c \in Nat /\ d \in Nat /\ a + c + d <= p /\ p <= a + c + d + 3
  OBVIOUS

LEMMA GraduateIsGood ==
    ASSUME Paper!SlackIsBounded, NEW m, NEW n, Good(m, n), m.phase = "GENESIS", NEW r, r = Paper!Graduate(m)
    PROVE  Good(r, n)
  <1>0. WellTyped(m) /\ OnParabola(m, n) /\ VaultAdds(m, n) /\ NothingOwed(m) /\ m.phase \in Before
    BY DEF Good, Parts, Before
  <1>1. /\ m.R \in Nat /\ m.S \in Nat /\ Col(m.accounts, "g") = m.S /\ m.cash = 0
        /\ m.R <= K * m.S * m.S /\ m.accounts \in [Accounts -> AccountRecords] /\ m.core \in Cores
        /\ \A s \in Paper!Side : HeldOf(m.accounts, s) = 0
    BY <1>0, TypedIs DEF OnParabola
  <1>2. CASE m.R < RTarget
    BY <1>2 DEF Paper!Graduate
  <1>3. CASE ~(m.R < RTarget)
    <2>1. PICK as : as = [u \in Accounts |-> [m.accounts[u] EXCEPT !.lp = m.accounts[u].g, !.g = 0]]
      OBVIOUS
    <2>2. PICK core : core = [m.core EXCEPT !.open = TRUE]
      OBVIOUS
    <2>3. r = [m EXCEPT !.phase = "FORMAL", !.b = m.R, !.M0 = m.R, !.cash = m.R, !.R = 0,
                   !.lpSupply = m.S, !.core = core, !.accounts = as]
      BY <1>3, <2>1, <2>2 DEF Paper!Graduate
    <2>4. /\ Same(m, r, {"phase", "b", "M0", "cash", "R", "lpSupply", "core", "accounts"})
          /\ r.phase = "FORMAL" /\ r.b = m.R /\ r.M0 = m.R /\ r.cash = m.R /\ r.R = 0 /\ r.lpSupply = m.S
          /\ r.core = core /\ r.accounts = as
      BY <1>0, <2>3, TypedIs, FieldsAre DEF Same
    <2>5. core \in Cores /\ core.pool = m.core.pool /\ core.cash = m.core.cash /\ core.fees = m.core.fees
          /\ core.official = m.core.official
      BY <1>1, <2>2 DEF Cores
    <2>6. ASSUME NEW u \in Accounts
          PROVE  as[u] \in AccountRecords /\ as[u].lp = m.accounts[u].g
                 /\ \A f \in Own \ {"lp", "g"} : as[u][f] = m.accounts[u][f]
      <3>1. as[u] = [m.accounts[u] EXCEPT !.lp = m.accounts[u].g, !.g = 0]
        BY <2>1
      <3>2. PICK a : a = m.accounts[u]
        OBVIOUS
      <3>3. PICK c : c = [a EXCEPT !.lp = a.g, !.g = 0]
        OBVIOUS
      <3>4. a \in AccountRecords /\ a.g \in Nat
        BY <1>0, <3>2, AccountIs
      <3>5. c \in AccountRecords /\ c.lp = a.g /\ \A f \in Own \ {"lp", "g"} : c[f] = a[f]
        BY <3>3, <3>4 DEF AccountRecords, Own
      <3>6. QED
        BY <3>1, <3>2, <3>3, <3>5
    <2>7. as \in [Accounts -> AccountRecords]
      BY <2>1, <2>6
    <2>8. WellTyped(r)
      <3>1. r["phase"] \in Shape["phase"] /\ r["b"] \in Shape["b"] /\ r["M0"] \in Shape["M0"]
            /\ r["cash"] \in Shape["cash"]
        BY <1>1, <2>4 DEF Shape
      <3>2. r["R"] \in Shape["R"] /\ r["lpSupply"] \in Shape["lpSupply"]
        BY <1>1, <2>4 DEF Shape
      <3>2a. r["core"] \in Shape["core"] /\ r["accounts"] \in Shape["accounts"]
        BY <2>4, <2>5, <2>7 DEF Shape
      <3>3. \A f \in {"phase", "b", "M0", "cash", "R", "lpSupply", "core", "accounts"} : r[f] \in Shape[f]
        BY <3>1, <3>2, <3>2a
      <3>4. QED
        BY <1>0, <2>4, <3>3, TypedKept
    <2>9. /\ r.payouts = m.payouts /\ r.early = m.early /\ r.budget = m.budget
          /\ r.lpFees = m.lpFees /\ r.creatorFees = m.creatorFees /\ r.protocolFees = m.protocolFees
      BY <2>4, FieldsAre DEF Same
    <2>10. AllBut(m, r, {"lp", "g"})
      BY <2>4, <2>6 DEF AllBut
    <2>11. Money(r) = Money(m)
      <3>1. Col(r.accounts, "wallet") = Col(m.accounts, "wallet")
            /\ Col(r.accounts, "refund") = Col(m.accounts, "refund")
        <4>1. \A u \in Accounts : r.accounts[u]["wallet"] = m.accounts[u]["wallet"]
              /\ r.accounts[u]["refund"] = m.accounts[u]["refund"]
          BY <2>10 DEF AllBut, Own
        <4>2. QED
          BY <4>1, SumsAgree
      <3>2. Purses(r) = Purses(m) /\ Escrow(r) = Escrow(m) /\ Debts(r) = Debts(m)
        BY <2>9, <3>1 DEF Purses, Escrow, Pending, Debts
      <3>3. Vaulted(r) = Vaulted(m)
        BY <2>4, <2>5 DEF Vaulted
      <3>4. Traded(r) = Traded(m)
        <4>1. m.lpFees \in Nat /\ m.creatorFees \in Nat /\ m.protocolFees \in Nat
          BY <1>0, TypedIs
        <4>2. QED
          BY <1>1, <2>4, <2>9, <4>1 DEF Traded
      <3>5. QED
        BY <3>2, <3>3, <3>4 DEF Money
    <2>12. MoneyIsKept(r, n)
      BY <2>4, <2>11 DEF Good, MoneyIsKept, Drift
    <2>13. OnCurve(r)
      <3>1. r.b \in Nat \ {0}
        BY <1>1, <1>3, <2>4, Constants
      <3>2. \A s \in Paper!Side : HeldOf(r.accounts, s) = 0
        <4>1. \A u \in Accounts : r.accounts[u].held = m.accounts[u].held
          BY <2>10 DEF AllBut, Own
        <4>2. \A s \in Paper!Side : HeldOf(r.accounts, s) = HeldOf(m.accounts, s)
          BY <4>1, SumsAgree
        <4>3. QED
          BY <1>1, <4>2
      <3>3. Quantities(r)["YES"] = 0 /\ Quantities(r)["NO"] = 0
        BY <3>2 DEF Quantities, Paper!Side
      <3>4. Slack(0, r.b) \in Nat
        BY <3>1, SlackType
      <3>5. Paper!Cost(Quantities(r), r.b) = Slack(0, r.b)
        <4>1. Paper!Cost(Quantities(r), r.b) = 0 + Slack(0, r.b)
          BY <3>3 DEF Paper!Cost
        <4>2. QED
          BY <3>4, <4>1
      <3>6. r.cash = r.b + Paper!Cost(Quantities(r), r.b) - Slack(0, r.b)
        BY <1>1, <2>4, <3>4, <3>5
      <3>7. Col(r.accounts, "lp") = m.S
        <4>1. [u \in Accounts |-> r.accounts[u]["lp"]] = [u \in Accounts |-> m.accounts[u]["g"]]
          BY <2>4, <2>6
        <4>2. QED
          BY <1>1, <4>1 DEF Col
      <3>8. m.S # 0
        <4>1. m.S = 0 => K * m.S * m.S = 0
          BY Constants
        <4>2. m.R \in Nat /\ m.R <= K * m.S * m.S /\ RTarget \in Nat \ {0}
          BY <1>1, Constants
        <4>3. QED
          BY <1>3, <4>1, <4>2
      <3>9. QED
        BY <2>4, <3>1, <3>6, <3>7, <3>8 DEF OnCurve
    <2>14. VaultAdds(r, n)
      <3>1. AllBut(m, r, Own \ {"side", "stake", "reward"})
        BY <2>10 DEF AllBut, Own
      <3>2. r.core.pool = m.core.pool /\ r.core.cash = m.core.cash /\ r.core.fees = m.core.fees
            /\ r.core.official = m.core.official
        BY <2>4, <2>5
      <3>3. QED
        BY <1>0, <2>9, <3>1, <3>2, VaultKept
    <2>15. NothingOwed(r)
      <3>1. AllBut(m, r, Own \ {"claimed"})
        BY <2>10 DEF AllBut, Own
      <3>2. QED
        BY <1>0, <2>9, <3>1, NothingOwedKept
    <2>16. OnParabola(r, n) /\ OwedIsKept(r)
      BY <2>4 DEF OnParabola, OwedIsKept
    <2>17. QED
      BY <2>8, <2>12, <2>13, <2>14, <2>15, <2>16 DEF Good, Parts
  <1>4. QED
    BY <1>2, <1>3

\* What is left of the parts when the curve has moved.
LEMMA ParabolaIsAPart ==
    ASSUME NEW m, NEW r, NEW n, NEW o, Parts(m, n), OnParabola(r, o), m.phase = "GENESIS", r.phase = m.phase,
           n <= o, n \in Nat, o \in Nat,
           WellTyped(m), r.core = m.core, r.early = m.early, r.budget = m.budget, r.payouts = m.payouts,
           AllBut(m, r, {"wallet", "g", "lp", "held"})
    PROVE  Parts(r, o)
  <1>1. VaultAdds(r, n)
    <2>1. AllBut(m, r, Own \ {"side", "stake", "reward"})
      BY DEF AllBut, Own
    <2>2. QED
      BY <2>1, VaultKept DEF Parts
  <1>2. VaultAdds(r, o)
    <2>1. ASSUME NEW i \in Paper!Outcome PROVE FeesOf(r, i) <= r.core.fees
          /\ r.core.fees <= FeesOf(r, i) + Players * o
      <3>1. FeesOf(r, i) <= r.core.fees /\ r.core.fees <= FeesOf(r, i) + Players * n
        BY <1>1 DEF VaultAdds, Before
      <3>2. \A u \in Accounts : r.accounts[u].reward = m.accounts[u].reward
        BY DEF AllBut, Own
      <3>3. RewardOf(r.accounts, i) = RewardOf(m.accounts, i)
        BY <3>2, SumsAgree
      <3>4. RewardOf(m.accounts, i) \in Nat /\ m.early.forfeited \in Books /\ m.core.official \in Books
            /\ m.core.fees \in Nat
        BY SumsAre
      <3>5. FeesOf(r, i) \in Nat /\ r.core.fees \in Nat
        BY <3>3, <3>4 DEF FeesOf, Books
      <3>6. Players * n <= Players * o /\ Players * n \in Nat /\ Players * o \in Nat
        <4>1. Players \in Nat
          BY UsersFinite
        <4>2. PICK d \in Nat : o = n + d
          <5>1. o - n \in Nat /\ o = n + (o - n)
            OBVIOUS
          <5>2. QED
            BY <5>1
        <4>3. Players * o = Players * n + Players * d /\ Players * n \in Nat /\ Players * d \in Nat
          BY <4>1, <4>2
        <4>4. QED
          BY <4>3
      <3>7. QED
        BY <3>1, <3>5, <3>6
    <2>2. QED
      BY <1>1, <2>1 DEF VaultAdds
  <1>3. NothingOwed(r)
    <2>1. AllBut(m, r, Own \ {"claimed"})
      BY DEF AllBut, Own
    <2>2. QED
      BY <2>1, NothingOwedKept DEF Parts
  <1>4. OnCurve(r) /\ OwedIsKept(r)
    BY DEF OnCurve, OwedIsKept, Live
  <1>5. QED
    BY <1>2, <1>3, <1>4 DEF Parts

LEMMA RoundedMoney ==
    ASSUME NEW m, NEW r, NEW n \in Nat, MoneyIsKept(m, n), WellTyped(m), WellTyped(r), m.phase # "SETTLED",
           r.phase # "SETTLED",
           Money(r) <= Money(m), Money(m) <= Money(r) + 3
    PROVE  MoneyIsKept(r, n + 1)
  <1>1. Money(m) \in Nat /\ Money(r) \in Nat /\ Grant * Players \in Nat
    <2>1. Grant * Players \in Nat
      BY Constants, UsersFinite
    <2>2. QED
      BY <2>1, MoneyType
  <1>2. Drift(m, n) = 3 * n /\ Drift(r, n + 1) = 3 * n + 3
    BY DEF Drift
  <1>3. QED
    BY <1>1, <1>2 DEF MoneyIsKept

LEMMA BoughtIsGood ==
    ASSUME Paper!SlackIsBounded, NEW m, NEW n \in Nat, Good(m, n), m.phase = "GENESIS", NEW u \in Accounts,
           NEW k \in Nat \ {0},
           Paper!QuoteBuy(m, k) <= m.accounts[u].wallet, NEW r, r = Paper!Bought(m, u, k)
    PROVE  Good(r, n + 1) /\ Paper!QuoteBuy(m, k) \in Nat
  <1>0. WellTyped(m) /\ OnParabola(m, n)
    BY DEF Good, Parts
  <1>1. /\ m.R \in Nat /\ m.S \in Nat /\ Col(m.accounts, "g") = m.S /\ m.cash = 0
        /\ m.R <= K * m.S * m.S /\ K * m.S * m.S <= m.R + n
        /\ m.creatorFees \in Nat /\ m.protocolFees \in Nat /\ m.lpFees \in Nat
        /\ \A s \in Paper!Side : HeldOf(m.accounts, s) = 0
    BY <1>0, TypedIs DEF OnParabola
  <1>2. PICK x \in Nat : x = K * k * (2 * m.S + k)
    BY <1>1, Constants
  <1>3. PICK p : p = Paper!QuoteBuy(m, k)
    OBVIOUS
  <1>4. p = (100 * x) \div 99
    <2>1. 100 * K * k * (2 * m.S + k) = 100 * x
      BY <1>1, <1>2, Constants
    <2>2. QED
      BY <1>3, <2>1 DEF Paper!QuoteBuy
  <1>5. p \in Nat
    BY <1>4, BudgetOfCost
  <1>6. PICK a \in Nat, c \in Nat, d \in Nat : a = (99 * p) \div 100 /\ c = (7 * p) \div 1000
        /\ d = (3 * p) \div 1000
    BY <1>5, GenesisFees
  <1>7. a <= x /\ x <= a + 1
    <2>1. (99 * p) \div 100 <= x /\ x <= (99 * p) \div 100 + 1
      BY <1>4, BudgetOfCost
    <2>2. QED
      BY ONLY <1>6, <2>1
  <1>8. a + c + d <= p /\ p <= a + c + d + 3
    BY <1>5, <1>6, GenesisFees
  <1>9. PICK j : j = Paper!Pay(m, u, p)
    OBVIOUS
  <1>10. /\ Same(m, j, {"accounts"}) /\ SameAccount(m, j, u, {"wallet"}) /\ WellTyped(j)
         /\ j.accounts[u].wallet = m.accounts[u].wallet - p
    BY <1>0, <1>3, <1>5, <1>9, PayGives
  <1>11. PICK g \in Nat, S \in Nat, R \in Nat : g = j.accounts[u].g + k /\ S = m.S + k /\ R = m.R + a
    <2>1. j.accounts[u].g \in Nat
      BY <1>10, AccountIs
    <2>2. j.accounts[u].g + k \in Nat /\ m.S + k \in Nat
      BY <1>1, <2>1
    <2>3. m.R + a \in Nat
      BY <1>1, <1>6
    <2>4. QED
      BY <2>2, <2>3
  <1>12. PICK as : as = [j.accounts EXCEPT ![u].g = g]
    OBVIOUS
  <1>13. PICK b : b = [j.accounts[u] EXCEPT !.g = g]
    OBVIOUS
  <1>14. b \in AccountRecords /\ b.g = g /\ \A f \in Own \ {"g"} : b[f] = j.accounts[u][f]
    BY <1>10, <1>13, AccountIs DEF AccountRecords, Own
  <1>15. as \in [Accounts -> AccountRecords] /\ as[u] = b /\ \A v \in Accounts : v # u => as[v] = j.accounts[v]
    <2>1. j.accounts \in [Accounts -> AccountRecords]
      BY <1>10, TypedIs
    <2>2. as = [j.accounts EXCEPT ![u] = b]
      BY <1>12, <1>13, <2>1
    <2>3. QED
      BY <1>14, <2>1, <2>2
  <1>16. PICK l : l = [j EXCEPT !.R = R, !.S = S, !.accounts = as, !.creatorFees = m.creatorFees + c,
        !.protocolFees = m.protocolFees + d]
    OBVIOUS
  <1>17. j.R = m.R /\ j.S = m.S /\ j.creatorFees = m.creatorFees /\ j.protocolFees = m.protocolFees
    BY <1>10, FieldsAre DEF Same
  <1>18. r = Paper!Graduate(l)
    <2>1. PICK h : h = [Paper!Pay(m, u, p) EXCEPT !.R = @ + (99 * p) \div 100, !.S = @ + k, !.accounts[u].g
          = @ + k]
      OBVIOUS
    <2>2. r = Paper!Graduate(Paper!AccrueGenesis(h, p))
      BY <1>3, <2>1 DEF Paper!Bought
    <2>3. as = [j.accounts EXCEPT ![u].g = @ + k]
      BY <1>11, <1>12
    <2>4. h = [j EXCEPT !.R = R, !.S = S, !.accounts = as]
      <3>1. h = [j EXCEPT !.R = @ + (99 * p) \div 100, !.S = @ + k, !.accounts[u].g = @ + k]
        BY <1>9, <2>1
      <3>2. h = [j EXCEPT !.R = j.R + (99 * p) \div 100, !.S = j.S + k, !.accounts
            = [j.accounts EXCEPT ![u].g = @ + k]]
        BY ONLY <3>1, Zenon
      <3>3. QED
        BY <1>6, <1>11, <1>17, <2>3, <3>2
    <2>5. h.creatorFees = m.creatorFees /\ h.protocolFees = m.protocolFees
      BY <1>10, <1>17, <2>4, TypedIs, FieldsAre
    <2>6. Paper!AccrueGenesis(h, p) = [h EXCEPT !.creatorFees = m.creatorFees + c, !.protocolFees
          = m.protocolFees + d]
      BY <1>6, <2>5 DEF Paper!AccrueGenesis
    <2>7. Paper!AccrueGenesis(h, p) = l
      BY <1>16, <2>4, <2>6
    <2>8. QED
      BY <2>2, <2>7
  <1>19. /\ Same(j, l, {"R", "S", "accounts", "creatorFees", "protocolFees"}) /\ l.R = R /\ l.S = S
            /\ l.accounts = as
         /\ l.creatorFees = m.creatorFees + c /\ l.protocolFees = m.protocolFees + d
    BY <1>10, <1>16, TypedIs, FieldsAre DEF Same
  <1>20. WellTyped(l)
    <2>1. l["R"] \in Shape["R"] /\ l["S"] \in Shape["S"]
      BY <1>11, <1>19 DEF Shape
    <2>2. m.creatorFees + c \in Nat /\ m.protocolFees + d \in Nat
      BY <1>1, <1>6
    <2>3. l["creatorFees"] \in Shape["creatorFees"] /\ l["protocolFees"] \in Shape["protocolFees"]
      BY <1>19, <2>2 DEF Shape
    <2>4. l["accounts"] \in Shape["accounts"]
      BY <1>15, <1>19 DEF Shape
    <2>5. \A f \in {"R", "S", "accounts", "creatorFees", "protocolFees"} : l[f] \in Shape[f]
      BY <2>1, <2>3, <2>4
    <2>6. QED
      BY <1>10, <1>19, <2>5, TypedKept
  <1>21. SameAccount(j, l, u, {"g"}) /\ l.accounts[u].g = g
    BY <1>14, <1>15, <1>19 DEF SameAccount
  <1>22. SameAccount(m, l, u, {"wallet"} \cup {"g"})
    BY <1>10, <1>21, SameAccountTwice
  <1>23. /\ l.phase = m.phase /\ l.core = m.core /\ l.early = m.early /\ l.budget = m.budget
            /\ l.payouts = m.payouts
         /\ l.cash = m.cash /\ l.lpFees = m.lpFees
    BY <1>10, <1>19, FieldsAre DEF Same
  <1>24. l.accounts[u].wallet = m.accounts[u].wallet - p /\ l.accounts[u].g = m.accounts[u].g + k
    BY <1>10, <1>11, <1>21 DEF SameAccount, Own
  <1>25. m.accounts[u].wallet \in Nat /\ m.accounts[u].g \in Nat /\ l.accounts[u].wallet \in Nat
    BY <1>0, <1>20, AccountIs
  <1>26. /\ Col(l.accounts, "wallet") + m.accounts[u]["wallet"]
            = Col(m.accounts, "wallet") + l.accounts[u]["wallet"]
         /\ Col(l.accounts, "g") + m.accounts[u]["g"] = Col(m.accounts, "g") + l.accounts[u]["g"]
         /\ Col(l.accounts, "refund") = Col(m.accounts, "refund")
         /\ \A s \in Paper!Side : HeldOf(l.accounts, s) = HeldOf(m.accounts, s)
    BY <1>0, <1>20, <1>22, AccountMoves DEF Sums
  <1>27. /\ Col(l.accounts, "wallet") \in Nat /\ Col(m.accounts, "wallet") \in Nat
            /\ Col(m.accounts, "refund") \in Nat
         /\ Col(l.accounts, "g") \in Nat /\ Col(m.accounts, "g") \in Nat
    BY <1>0, <1>20, SumsAre
  <1>28. MoneyIsKept(l, n + 1)
    <2>1. Purses(l) + p = Purses(m)
      BY <1>5, <1>24, <1>25, <1>26, <1>27 DEF Purses
    <2>2. Traded(l) = Traded(m) + a + c + d
      BY <1>1, <1>6, <1>11, <1>19, <1>23 DEF Traded
    <2>3. Escrow(l) = Escrow(m) /\ Vaulted(l) = Vaulted(m) /\ Debts(l) = Debts(m)
      BY <1>23 DEF Escrow, Vaulted, Debts, Pending
    <2>4. Purses(m) \in Nat /\ Purses(l) \in Nat /\ Escrow(m) \in Nat /\ Traded(m) \in Nat /\ Vaulted(m) \in Nat
          /\ Debts(m) \in Nat
      BY <1>0, <1>20, MoneyType
    <2>5. Money(l) <= Money(m) /\ Money(m) <= Money(l) + 3
      BY <1>5, <1>6, <1>8, <2>1, <2>2, <2>3, <2>4 DEF Money
    <2>6. QED
      BY <1>0, <1>20, <1>23, <2>5, RoundedMoney DEF Good
  <1>29. OnParabola(l, n + 1)
    <2>1. Col(l.accounts, "g") = S
      BY <1>1, <1>11, <1>24, <1>25, <1>26, <1>27
    <2>2. K * S * S = K * m.S * m.S + x
      BY <1>1, <1>2, <1>11, SquareOfSum, Constants
    <2>3. K * m.S * m.S \in Nat
      BY <1>1, Constants
    <2>4. R <= K * S * S /\ K * S * S <= R + (n + 1)
      BY <1>1, <1>7, <1>11, <2>2, <2>3
    <2>5. QED
      BY <1>1, <1>11, <1>19, <1>23, <1>26, <2>1, <2>4 DEF OnParabola
  <1>30. Parts(l, n + 1)
    <2>1. AllBut(m, l, {"wallet"} \cup {"g"})
      BY <1>22, SameAccountIsAllBut
    <2>2. AllBut(m, l, {"wallet", "g", "lp", "held"})
      BY <2>1 DEF AllBut
    <2>3. Parts(m, n)
      BY DEF Good
    <2>4. QED
      BY <1>0, <1>23, <1>29, <2>2, <2>3, ParabolaIsAPart
  <1>31. Good(l, n + 1) /\ l.phase = "GENESIS"
    BY <1>20, <1>23, <1>28, <1>30 DEF Good
  <1>32. QED
    BY <1>3, <1>5, <1>18, <1>31, GraduateIsGood

\* What a sale takes out of the reserve leaves it on the parabola.
LEMMA SaleStaysOnParabola ==
    ASSUME NEW k \in Nat \ {0}, NEW s \in Nat, NEW n \in Nat, n <= s, NEW R \in Nat, NEW d \in Nat, d <= k,
           R <= k * s * s, k * s * s <= R + d, NEW x, x = IF n = s THEN R ELSE k * n * (2 * s - n)
    PROVE  /\ x \in Nat /\ x <= R
           /\ R - x <= k * (s - n) * (s - n) /\ k * (s - n) * (s - n) <= R - x + d
  <1>1. CASE n = s
    <2>1. k * (s - n) * (s - n) = 0
      BY <1>1
    <2>2. QED
      BY <1>1, <2>1
  <1>2. CASE n # s
    <2>1. PICK h \in Nat : h = s - n
      OBVIOUS
    <2>2. h # 0 /\ s = h + n
      BY <1>2, <2>1
    <2>3. k * s * s = k * h * h + k * n * (2 * s - n)
      <3>1. 2 * s - n = 2 * h + n
        BY <2>2
      <3>2. k * (h + n) * (h + n) = k * h * h + k * n * (2 * h + n)
        BY SquareOfSum
      <3>3. QED
        BY <2>2, <3>1, <3>2
    <2>4. k * h * h >= k /\ k * h * h \in Nat
      <3>1. PICK e \in Nat : h = e + 1
        <4>1. h - 1 \in Nat /\ h = (h - 1) + 1
          BY <2>2
        <4>2. QED
          BY <4>1
      <3>2. k * h * h = k * (2 * e + e * e) + k
        BY <3>1
      <3>3. e * e \in Nat
        OBVIOUS
      <3>4. k * (2 * e + e * e) \in Nat
        BY <3>3
      <3>5. QED
        BY <3>2, <3>4
    <2>5. k * n * (2 * s - n) \in Nat
      <3>1. 2 * s - n \in Nat /\ k * n \in Nat
        OBVIOUS
      <3>2. QED
        BY <3>1
    <2>6. PICK y \in Nat, z \in Nat : y = k * h * h /\ z = k * n * (2 * s - n)
      BY <2>4, <2>5
    <2>7. x = z /\ k * (s - n) * (s - n) = y /\ k * s * s = y + z /\ y >= k
      BY <1>2, <2>1, <2>3, <2>4, <2>6
    <2>8. R <= y + z /\ y + z <= R + d
      BY <2>7
    <2>9. QED
      BY <2>7, <2>8
  <1>3. QED
    BY <1>1, <1>2

Sale(m, u, k, x) ==
    Paper!Graduate(Paper!Receive(Paper!AccrueGenesis([m EXCEPT !.R = @ - x, !.S = @ - k, !.accounts[u].g = @ - k],
          x), u, (99 * x) \div 100))
LEMMA SoldIsGood ==
    ASSUME Paper!SlackIsBounded, NEW m, NEW n \in Nat, Good(m, n), n <= K, m.phase = "GENESIS",
           NEW u \in Accounts,
           NEW k \in Nat \ {0}, k <= m.accounts[u].g, NEW x, x = Paper!QuoteSell(m, k),
           NEW r, r = Sale(m, u, k, x)
    PROVE  Good(r, n + 1)
  <1>0. WellTyped(m) /\ OnParabola(m, n)
    BY DEF Good, Parts
  <1>1. /\ m.R \in Nat /\ m.S \in Nat /\ Col(m.accounts, "g") = m.S /\ m.cash = 0
        /\ m.R <= K * m.S * m.S /\ K * m.S * m.S <= m.R + n
        /\ m.creatorFees \in Nat /\ m.protocolFees \in Nat /\ m.lpFees \in Nat
        /\ m.accounts \in [Accounts -> AccountRecords]
        /\ \A s \in Paper!Side : HeldOf(m.accounts, s) = 0
    BY <1>0, TypedIs DEF OnParabola
  <1>2. m.accounts[u].g \in Nat /\ m.accounts[u].g <= m.S
    <2>1. "g" \in Sums
      BY DEF Sums
    <2>2. m.accounts[u]["g"] \in Nat /\ m.accounts[u]["g"] <= Col(m.accounts, "g")
      BY <1>1, <2>1, SumsAreNaturals
    <2>3. QED
      BY <1>1, <2>2
  <1>3. /\ x \in Nat /\ x <= m.R
        /\ m.R - x <= K * (m.S - k) * (m.S - k) /\ K * (m.S - k) * (m.S - k) <= m.R - x + n
    <2>1. k <= m.S
      BY <1>1, <1>2
    <2>2. x = IF k = m.S THEN m.R ELSE K * k * (2 * m.S - k)
      BY DEF Paper!QuoteSell
    <2>3. PICK s \in Nat, R \in Nat : s = m.S /\ R = m.R
      BY <1>1
    <2>4. R <= K * s * s /\ K * s * s <= R + n /\ k <= s /\ x = IF k = s THEN R ELSE K * k * (2 * s - k)
      BY <1>1, <2>1, <2>2, <2>3
    <2>5. /\ x \in Nat /\ x <= R
          /\ R - x <= K * (s - k) * (s - k) /\ K * (s - k) * (s - k) <= R - x + n
      BY <2>4, Constants, SaleStaysOnParabola
    <2>6. QED
      BY <2>3, <2>5
  <1>4. PICK a \in Nat, c \in Nat, d \in Nat : a = (99 * x) \div 100 /\ c = (7 * x) \div 1000
        /\ d = (3 * x) \div 1000
    BY <1>3, GenesisFees
  <1>5. a + c + d <= x /\ x <= a + c + d + 3
    BY <1>3, <1>4, GenesisFees
  <1>6. PICK g \in Nat, S \in Nat, R \in Nat : g = m.accounts[u].g - k /\ S = m.S - k /\ R = m.R - x
    <2>1. m.accounts[u].g - k \in Nat /\ m.S - k \in Nat
      BY <1>1, <1>2
    <2>2. m.R - x \in Nat
      BY <1>1, <1>3
    <2>3. QED
      BY <2>1, <2>2
  <1>7. PICK b : b = [m.accounts[u] EXCEPT !.g = g]
    OBVIOUS
  <1>8. b \in AccountRecords /\ b.g = g /\ \A f \in Own \ {"g"} : b[f] = m.accounts[u][f]
    BY <1>0, <1>7, AccountIs DEF AccountRecords, Own
  <1>9. PICK as : as = [m.accounts EXCEPT ![u] = b]
    OBVIOUS
  <1>10. as \in [Accounts -> AccountRecords] /\ as[u] = b /\ \A v \in Accounts : v # u => as[v] = m.accounts[v]
    BY <1>1, <1>8, <1>9
  <1>11. PICK l : l = [m EXCEPT !.R = R, !.S = S, !.accounts = as, !.creatorFees = m.creatorFees + c,
        !.protocolFees = m.protocolFees + d]
    OBVIOUS
  <1>12. PICK w : w = Paper!Receive(l, u, a)
    OBVIOUS
  <1>13. r = Paper!Graduate(w)
    <2>1. PICK h : h = [m EXCEPT !.R = @ - x, !.S = @ - k, !.accounts[u].g = @ - k]
      OBVIOUS
    <2>2. r = Paper!Graduate(Paper!Receive(Paper!AccrueGenesis(h, x), u, a))
      BY <1>4, <2>1 DEF Sale
    <2>3. as = [m.accounts EXCEPT ![u].g = @ - k]
      BY <1>6, <1>7, <1>9
    <2>4. h = [m EXCEPT !.R = R, !.S = S, !.accounts = as]
      <3>1. h = [m EXCEPT !.R = m.R - x, !.S = m.S - k, !.accounts = [m.accounts EXCEPT ![u].g = @ - k]]
        BY ONLY <2>1, Zenon
      <3>2. QED
        BY <1>6, <2>3, <3>1
    <2>5. h.creatorFees = m.creatorFees /\ h.protocolFees = m.protocolFees
      BY <1>0, <2>4, TypedIs, FieldsAre
    <2>6. Paper!AccrueGenesis(h, x) = [h EXCEPT !.creatorFees = m.creatorFees + c, !.protocolFees
          = m.protocolFees + d]
      BY <1>4, <2>5 DEF Paper!AccrueGenesis
    <2>7. Paper!AccrueGenesis(h, x) = l
      BY <1>11, <2>4, <2>6
    <2>8. QED
      BY <1>12, <2>2, <2>7
  <1>14. /\ Same(m, l, {"R", "S", "accounts", "creatorFees", "protocolFees"}) /\ l.R = R /\ l.S = S
            /\ l.accounts = as
         /\ l.creatorFees = m.creatorFees + c /\ l.protocolFees = m.protocolFees + d
    BY <1>0, <1>11, TypedIs, FieldsAre DEF Same
  <1>15. WellTyped(l)
    <2>1. l["R"] \in Shape["R"] /\ l["S"] \in Shape["S"]
      BY <1>6, <1>14 DEF Shape
    <2>2. m.creatorFees + c \in Nat /\ m.protocolFees + d \in Nat
      BY <1>1, <1>4
    <2>3. l["creatorFees"] \in Shape["creatorFees"] /\ l["protocolFees"] \in Shape["protocolFees"]
      BY <1>14, <2>2 DEF Shape
    <2>4. l["accounts"] \in Shape["accounts"]
      BY <1>10, <1>14 DEF Shape
    <2>5. \A f \in {"R", "S", "accounts", "creatorFees", "protocolFees"} : l[f] \in Shape[f]
      BY <2>1, <2>3, <2>4
    <2>6. QED
      BY <1>0, <1>14, <2>5, TypedKept
  <1>16. SameAccount(m, l, u, {"g"}) /\ l.accounts[u].g = g
    BY <1>8, <1>10, <1>14 DEF SameAccount
  <1>17. /\ Same(l, w, {"accounts"}) /\ SameAccount(l, w, u, {"wallet"}) /\ WellTyped(w)
         /\ w.accounts[u].wallet = l.accounts[u].wallet + a
    BY <1>12, <1>15, ReceiveGives
  <1>18. SameAccount(m, w, u, {"g"} \cup {"wallet"})
    BY <1>16, <1>17, SameAccountTwice
  <1>19. /\ w.phase = m.phase /\ w.core = m.core /\ w.early = m.early /\ w.budget = m.budget
            /\ w.payouts = m.payouts
         /\ w.cash = m.cash /\ w.lpFees = m.lpFees /\ w.R = R /\ w.S = S
         /\ w.creatorFees = m.creatorFees + c /\ w.protocolFees = m.protocolFees + d
    BY <1>14, <1>17, FieldsAre DEF Same
  <1>20. w.accounts[u].wallet = m.accounts[u].wallet + a /\ w.accounts[u].g = g
    BY <1>16, <1>17 DEF SameAccount, Own
  <1>21. m.accounts[u].wallet \in Nat /\ w.accounts[u].wallet \in Nat
    BY <1>0, <1>17, AccountIs
  <1>22. /\ Col(w.accounts, "wallet") + m.accounts[u]["wallet"]
            = Col(m.accounts, "wallet") + w.accounts[u]["wallet"]
         /\ Col(w.accounts, "g") + m.accounts[u]["g"] = Col(m.accounts, "g") + w.accounts[u]["g"]
         /\ Col(w.accounts, "refund") = Col(m.accounts, "refund")
         /\ \A s \in Paper!Side : HeldOf(w.accounts, s) = HeldOf(m.accounts, s)
    BY <1>0, <1>17, <1>18, AccountMoves DEF Sums
  <1>23. /\ Col(w.accounts, "wallet") \in Nat /\ Col(m.accounts, "wallet") \in Nat
            /\ Col(m.accounts, "refund") \in Nat
         /\ Col(w.accounts, "g") \in Nat /\ Col(m.accounts, "g") \in Nat
    BY <1>0, <1>17, SumsAre
  <1>24. MoneyIsKept(w, n + 1)
    <2>1. Purses(w) = Purses(m) + a
      BY <1>4, <1>20, <1>21, <1>22, <1>23 DEF Purses
    <2>2. Traded(w) + x = Traded(m) + c + d
      BY <1>1, <1>3, <1>4, <1>6, <1>19 DEF Traded
    <2>3. Escrow(w) = Escrow(m) /\ Vaulted(w) = Vaulted(m) /\ Debts(w) = Debts(m)
      BY <1>19 DEF Escrow, Vaulted, Debts, Pending
    <2>4. Purses(m) \in Nat /\ Traded(w) \in Nat /\ Escrow(m) \in Nat /\ Traded(m) \in Nat /\ Vaulted(m) \in Nat
          /\ Debts(m) \in Nat
      BY <1>0, <1>17, MoneyType
    <2>5. Money(w) <= Money(m) /\ Money(m) <= Money(w) + 3
      BY <1>3, <1>4, <1>5, <2>1, <2>2, <2>3, <2>4 DEF Money
    <2>6. QED
      BY <1>0, <1>17, <1>19, <2>5, RoundedMoney DEF Good
  <1>25. OnParabola(w, n + 1)
    <2>1. Col(w.accounts, "g") = S
      BY <1>1, <1>2, <1>6, <1>20, <1>22, <1>23
    <2>2. R <= K * S * S /\ K * S * S <= R + n
      BY <1>3, <1>6
    <2>3. K * S * S \in Nat
      BY <1>6, Constants
    <2>4. K * S * S <= R + (n + 1)
      BY <1>6, <2>2, <2>3
    <2>5. QED
      BY <1>1, <1>6, <1>19, <1>22, <2>1, <2>2, <2>4 DEF OnParabola
  <1>26. Parts(w, n + 1)
    <2>1. AllBut(m, w, {"g"} \cup {"wallet"})
      BY <1>18, SameAccountIsAllBut
    <2>2. AllBut(m, w, {"wallet", "g", "lp", "held"})
      BY <2>1 DEF AllBut
    <2>3. Parts(m, n)
      BY DEF Good
    <2>4. QED
      BY <1>0, <1>19, <1>25, <2>2, <2>3, ParabolaIsAPart
  <1>27. Good(w, n + 1) /\ w.phase = "GENESIS"
    BY <1>17, <1>19, <1>24, <1>26 DEF Good
  <1>28. QED
    BY <1>13, <1>27, GraduateIsGood

-----------------------------------------------------------------------------
(* The fees of the vault. *)
FeeShare(a, i) == IF Paper!Earns(a, i) THEN a.stake ELSE 0
PoolsAreStakes(m) == \A s \in Paper!Outcome : m.core.pool[s] = StakeOf(m.accounts, s)

LEMMA BaseIsSum ==
    ASSUME NEW m, WellTyped(m), PoolsAreStakes(m), NEW i \in Paper!Outcome
    PROVE  /\ \A u \in Accounts : FeeShare(m.accounts[u], i) \in Nat
           /\ Total([u \in Accounts |-> FeeShare(m.accounts[u], i)]) = Paper!Base(m, i)
           /\ Paper!Base(m, i) \in Nat
  <1> DEFINE p == [u \in Accounts |-> FeeShare(m.accounts[u], i)]
  <1>1. \A u \in Accounts : FeeShare(m.accounts[u], i) \in Nat
    <2>1. ASSUME NEW u \in Accounts PROVE FeeShare(m.accounts[u], i) \in Nat
      <3>1. m.accounts[u].stake \in Nat
        BY AccountIs
      <3>2. QED
        BY <3>1 DEF FeeShare
    <2>2. QED
      BY <2>1
  <1>2. \A u \in Accounts : p[u] = FeeShare(m.accounts[u], i) /\ p[u] \in Nat
    BY <1>1
  <1>3. CASE i \in Paper!Side
    <2>1. i # "INVALID"
      BY <1>3 DEF Paper!Side
    <2>2. p = [u \in Accounts |-> IF m.accounts[u].side = i THEN m.accounts[u].stake ELSE 0]
      BY <2>1 DEF FeeShare, Paper!Earns
    <2>3. Total(p) = StakeOf(m.accounts, i)
      BY <2>2 DEF StakeOf
    <2>4. Paper!Base(m, i) = StakeOf(m.accounts, i)
      BY <2>1 DEF Paper!Base, PoolsAreStakes
    <2>5. StakeOf(m.accounts, i) \in Nat
      BY SumsAre
    <2>6. QED
      BY <1>1, <2>3, <2>4, <2>5
  <1>4. CASE i = "INVALID"
    <2> DEFINE y == [u \in Accounts |-> IF m.accounts[u].side = "YES" THEN m.accounts[u].stake ELSE 0]
               z == [u \in Accounts |-> IF m.accounts[u].side = "NO" THEN m.accounts[u].stake ELSE 0]
    <2>1. ASSUME NEW u \in Accounts PROVE y[u] \in Nat /\ z[u] \in Nat /\ p[u] = y[u] + z[u]
      <3>1. m.accounts[u].stake \in Nat
        BY AccountIs
      <3>2. p[u] = IF m.accounts[u].side \in Paper!Side THEN m.accounts[u].stake ELSE 0
        BY <1>4, <1>2 DEF FeeShare, Paper!Earns
      <3>3. QED
        BY <3>1, <3>2 DEF Paper!Side
    <2>2. Total(y) = StakeOf(m.accounts, "YES") /\ Total(z) = StakeOf(m.accounts, "NO")
      BY DEF StakeOf
    <2> HIDE DEF p, y, z
    <2>3. Total(p) = Total(y) + Total(z)
      BY <2>1, TotalAdds
    <2>4. "YES" \in Paper!Outcome /\ "NO" \in Paper!Outcome
      BY DEF Paper!Outcome, Paper!Side
    <2>5. Paper!Base(m, i) = StakeOf(m.accounts, "YES") + StakeOf(m.accounts, "NO")
      BY <1>4, <2>4 DEF Paper!Base, PoolsAreStakes
    <2>6. StakeOf(m.accounts, "YES") \in Nat /\ StakeOf(m.accounts, "NO") \in Nat
      BY <2>4, SumsAre
    <2>7. Total(p) = Paper!Base(m, i) /\ Paper!Base(m, i) \in Nat
      BY <2>2, <2>3, <2>5, <2>6
    <2>8. QED
      BY <1>1, <2>7 DEF p
  <1>5. QED
    BY <1>3, <1>4 DEF Paper!Outcome

\* What a fee leaves behind.
Accrued(m, r, fee) ==
    /\ Same(m, r, {"core", "accounts"}) /\ WellTyped(r) /\ AllBut(m, r, {"reward"})
    /\ r.core.open = m.core.open /\ r.core.pool = m.core.pool /\ r.core.cash = m.core.cash
    /\ r.core.fees = m.core.fees + fee
    /\ \A i \in Paper!Outcome : /\ FeesOf(m, i) \in Nat /\ FeesOf(r, i) \in Nat
                          /\ FeesOf(r, i) <= FeesOf(m, i) + fee /\ FeesOf(m, i) + fee <= FeesOf(r, i) + Players

LEMMA CreditedAdds ==
    ASSUME NEW m, WellTyped(m), PoolsAreStakes(m), NEW fee \in Nat, NEW i \in Paper!Outcome
    PROVE  /\ \A u \in Accounts : Paper!Credited(m, u, i, fee) \in Nat
           /\ Total([u \in Accounts |-> Paper!Credited(m, u, i, fee)]) \in Nat
           /\ Paper!Base(m, i) = 0 => Total([u \in Accounts |-> Paper!Credited(m, u, i, fee)]) = 0
           /\ Paper!Base(m, i) # 0 => /\ Total([u \in Accounts |-> Paper!Credited(m, u, i, fee)]) <= fee
                                /\ fee <= Total([u \in Accounts |-> Paper!Credited(m, u, i, fee)]) + Players
  <1> DEFINE p == [u \in Accounts |-> FeeShare(m.accounts[u], i)]
             q == [u \in Accounts |-> Paper!Credited(m, u, i, fee)]
  <1>1. \A u \in Accounts : p[u] = FeeShare(m.accounts[u], i) /\ p[u] \in Nat
    BY BaseIsSum
  <1>2. Total(p) = Paper!Base(m, i) /\ Paper!Base(m, i) \in Nat
    BY BaseIsSum
  <1>3. ASSUME NEW u \in Accounts PROVE q[u] = Paper!Part(fee, p[u], Paper!Base(m, i))
        /\ q[u] = Paper!Credited(m, u, i, fee)
    <2>1. CASE Paper!Earns(m.accounts[u], i)
      BY <2>1 DEF Paper!Credited, FeeShare
    <2>2. CASE ~Paper!Earns(m.accounts[u], i)
      <3>1. p[u] = 0 /\ q[u] = 0
        BY <2>2 DEF Paper!Credited, FeeShare
      <3>2. Paper!Part(fee, 0, Paper!Base(m, i)) = 0
        BY <1>2, PartType
      <3>3. QED
        BY <3>1, <3>2
    <2>3. QED
      BY <2>1, <2>2
  <1> HIDE DEF p
  <1>4. q = [u \in Accounts |-> Paper!Credited(m, u, i, fee)]
    OBVIOUS
  <1> HIDE DEF q
  <1>5. PICK D \in Nat : D = Paper!Base(m, i)
    BY <1>2
  <1>6. /\ \A u \in Accounts : q[u] \in Nat
        /\ Total(q) \in Nat
        /\ D > 0 => Total(q) <= fee /\ fee <= Total(q) + Players
        /\ D = 0 => Total(q) = 0
    <2>1. \A u \in Accounts : p[u] \in Nat /\ q[u] = Paper!Part(fee, p[u], D)
      BY <1>1, <1>3, <1>5
    <2>2. Total(p) = D
      BY <1>2, <1>5
    <2>3. QED
      BY <2>1, <2>2, PartsAdd
  <1>7. D # 0 => D > 0
    OBVIOUS
  <1>8. QED
    BY <1>3, <1>4, <1>5, <1>6, <1>7

LEMMA FeeAccrues ==
    ASSUME NEW m, WellTyped(m), PoolsAreStakes(m), NEW fee \in Nat, NEW r, r = Paper!AccrueCoreFee(m, fee)
    PROVE  Accrued(m, r, fee)
  <1>1. m.core \in Cores /\ m.core.fees \in Nat /\ m.core.official \in Books
        /\ m.accounts \in [Accounts -> AccountRecords]
        /\ m.early.forfeited \in Books
    BY TypedIs, SumsAre
  <1>2. PICK off : off = [i \in Paper!Outcome |-> m.core.official[i] + IF Paper!Base(m, i) = 0 THEN fee ELSE 0]
    OBVIOUS
  <1>3. PICK core : core = [m.core EXCEPT !.fees = @ + fee, !.official = off]
    OBVIOUS
  <1>4. PICK as : as = [u \in Accounts |->
            [m.accounts[u] EXCEPT !.reward = [i \in Paper!Outcome |-> @[i] + Paper!Credited(m, u, i, fee)]]]
    OBVIOUS
  <1>5. r = [m EXCEPT !.core = core, !.accounts = as]
    BY <1>2, <1>3, <1>4 DEF Paper!AccrueCoreFee
  <1>6. Same(m, r, {"core", "accounts"}) /\ r.core = core /\ r.accounts = as
    BY <1>5, TypedIs, FieldsAre DEF Same
  <1>7. ASSUME NEW i \in Paper!Outcome PROVE off[i] \in Nat
        /\ off[i] = m.core.official[i] + IF Paper!Base(m, i) = 0 THEN fee ELSE 0
    <2>1. m.core.official[i] \in Nat
      BY <1>1 DEF Books
    <2>2. QED
      BY <1>2, <2>1
  <1>8. off \in Books
    BY <1>2, <1>7 DEF Books
  <1>9. core \in Cores /\ core.pool = m.core.pool /\ core.cash = m.core.cash /\ core.open = m.core.open
        /\ core.fees = m.core.fees + fee /\ core.official = off
    <2>1. PICK f \in Nat : f = m.core.fees + fee
      <3>1. m.core.fees + fee \in Nat
        BY <1>1
      <3>2. QED
        BY <3>1
    <2>2. core = [m.core EXCEPT !.fees = f, !.official = off]
      BY <1>3, <2>1
    <2>3. QED
      BY <1>1, <1>8, <2>1, <2>2 DEF Cores
  <1>10. ASSUME NEW u \in Accounts
         PROVE  /\ as[u] \in AccountRecords /\ \A f \in Own \ {"reward"} : as[u][f] = m.accounts[u][f]
                /\ \A i \in Paper!Outcome : as[u].reward[i]
                   = m.accounts[u].reward[i] + Paper!Credited(m, u, i, fee)
    <2>1. PICK a : a = m.accounts[u]
      OBVIOUS
    <2>2. PICK w : w = [i \in Paper!Outcome |-> a.reward[i] + Paper!Credited(m, u, i, fee)]
      OBVIOUS
    <2>3. PICK c : c = [a EXCEPT !.reward = w]
      OBVIOUS
    <2>4. as[u] = c
      BY <1>4, <2>1, <2>2, <2>3
    <2>5. a \in AccountRecords /\ a.reward \in Books
      BY <2>1, AccountIs
    <2>6. w \in Books
      <3>1. ASSUME NEW i \in Paper!Outcome PROVE w[i] \in Nat
        <4>1. a.reward[i] \in Nat /\ Paper!Credited(m, u, i, fee) \in Nat
          BY <2>5, CreditedAdds DEF Books
        <4>2. w[i] = a.reward[i] + Paper!Credited(m, u, i, fee)
          BY <2>2
        <4>3. QED
          BY <4>1, <4>2
      <3>2. QED
        BY <2>2, <3>1 DEF Books
    <2>7. c \in AccountRecords /\ c.reward = w /\ \A f \in Own \ {"reward"} : c[f] = a[f]
      BY <2>3, <2>5, <2>6 DEF AccountRecords, Own
    <2>8. QED
      BY <2>1, <2>2, <2>4, <2>7
  <1>11. as \in [Accounts -> AccountRecords]
    BY <1>4, <1>10
  <1>12. WellTyped(r)
    <2>1. r["core"] \in Shape["core"] /\ r["accounts"] \in Shape["accounts"]
      BY <1>6, <1>9, <1>11 DEF Shape
    <2>2. \A f \in {"core", "accounts"} : r[f] \in Shape[f]
      BY <2>1
    <2>3. QED
      BY <1>6, <2>2, TypedKept
  <1>13. AllBut(m, r, {"reward"})
    BY <1>6, <1>10 DEF AllBut
  <1>14. ASSUME NEW i \in Paper!Outcome
         PROVE  /\ FeesOf(m, i) \in Nat /\ FeesOf(r, i) \in Nat
                /\ FeesOf(r, i) <= FeesOf(m, i) + fee /\ FeesOf(m, i) + fee <= FeesOf(r, i) + Players
    <2> DEFINE f == [u \in Accounts |-> m.accounts[u].reward[i]]
               g == [u \in Accounts |-> Paper!Credited(m, u, i, fee)]
               h == [u \in Accounts |-> as[u].reward[i]]
    <2>1. \A u \in Accounts : f[u] \in Nat /\ g[u] \in Nat /\ h[u] = f[u] + g[u]
      <3>1. ASSUME NEW u \in Accounts PROVE m.accounts[u].reward[i] \in Nat
            /\ Paper!Credited(m, u, i, fee) \in Nat
        <4>1. m.accounts[u].reward \in Books
          BY AccountIs
        <4>2. QED
          BY <4>1, CreditedAdds DEF Books
      <3>2. QED
        BY <1>10, <3>1
    <2>2. Total(f) = RewardOf(m.accounts, i) /\ Total(h) = RewardOf(r.accounts, i)
      BY <1>6 DEF RewardOf
    <2>3. /\ Total(g) \in Nat
          /\ Paper!Base(m, i) = 0 => Total(g) = 0
          /\ Paper!Base(m, i) # 0 => Total(g) <= fee /\ fee <= Total(g) + Players
      BY CreditedAdds
    <2> HIDE DEF f, g, h
    <2>4. Total(h) = Total(f) + Total(g)
      BY <2>1, TotalAdds
    <2>5. r.early = m.early /\ r.core.official[i] = m.core.official[i] + IF Paper!Base(m, i) = 0 THEN fee ELSE 0
      BY <1>6, <1>7, <1>9, FieldsAre DEF Same
    <2>6. RewardOf(m.accounts, i) \in Nat /\ m.early.forfeited[i] \in Nat /\ m.core.official[i] \in Nat
      BY <1>1, SumsAre DEF Books
    <2>7. PICK v \in Nat, w \in Nat, x \in Nat, g1 \in Nat :
            v = RewardOf(m.accounts, i) /\ w = m.early.forfeited[i] /\ x = m.core.official[i] /\ g1 = Total(g)
      BY <2>3, <2>6
    <2>8. FeesOf(m, i) = v + w + x
      BY <2>7 DEF FeesOf
    <2>9. FeesOf(r, i) = (v + g1) + w + (x + IF Paper!Base(m, i) = 0 THEN fee ELSE 0)
      BY <2>2, <2>4, <2>5, <2>7 DEF FeesOf
    <2>10. CASE Paper!Base(m, i) = 0
      <3>1. g1 = 0 /\ FeesOf(r, i) = (v + g1) + w + (x + fee)
        BY <2>3, <2>7, <2>9, <2>10
      <3>2. QED
        BY <2>8, <3>1, UsersFinite
    <2>11. CASE Paper!Base(m, i) # 0
      <3>1. g1 <= fee /\ fee <= g1 + Players /\ FeesOf(r, i) = (v + g1) + w + (x + 0)
        BY <2>3, <2>7, <2>9, <2>11
      <3>2. QED
        BY <2>8, <3>1, UsersFinite
    <2>12. QED
      BY <2>10, <2>11
  <1>15. QED
    BY <1>6, <1>9, <1>12, <1>13, <1>14 DEF Accrued

-----------------------------------------------------------------------------
(* Formal trading. *)
LEMMA CostIs ==
    ASSUME Paper!SlackIsBounded, NEW q \in [Paper!Side -> Nat], NEW b \in Nat \ {0}
    PROVE  Paper!Cost(q, b) \in Nat /\ \A s \in Paper!Side : q[s] <= Paper!Cost(q, b)
  <1>1. PICK y \in Nat, z \in Nat : y = q["YES"] /\ z = q["NO"]
    BY DEF Paper!Side
  <1>2. CASE y - z >= 0
    <2>1. PICK d \in Nat : d = y - z
      BY <1>2
    <2>2. PICK k \in Nat : k = Slack(d, b)
      BY SlackType
    <2>3. Paper!Cost(q, b) = y + k
      BY <1>1, <1>2, <2>1, <2>2 DEF Paper!Cost
    <2>4. y <= y + k /\ z <= y + k
      BY <1>2
    <2>5. QED
      BY <1>1, <2>3, <2>4 DEF Paper!Side
  <1>3. CASE ~(y - z >= 0)
    <2>1. PICK d \in Nat : d = -(y - z)
      BY <1>3
    <2>2. PICK k \in Nat : k = Slack(d, b)
      BY SlackType
    <2>3. Paper!Cost(q, b) = z + k
      BY <1>1, <1>3, <2>1, <2>2 DEF Paper!Cost
    <2>4. y <= z + k /\ z <= z + k
      BY <1>3
    <2>5. QED
      BY <1>1, <2>3, <2>4 DEF Paper!Side
  <1>4. QED
    BY <1>2, <1>3

LEMMA FormalBuyFees ==
    ASSUME NEW d \in Nat, NEW p, p = (100 * d) \div 98
    PROVE  LET f == p \div 100
               c == (7 * p) \div 1000
               e == (3 * p) \div 1000
           IN  p \in Nat /\ f \in Nat /\ c \in Nat /\ e \in Nat /\ d + f + c + e <= p /\ p <= d + f + c + e + 3
  OBVIOUS

LEMMA QType == ASSUME NEW m, WellTyped(m) PROVE Quantities(m) \in [Paper!Side -> Nat]
  BY SumsAre DEF Quantities

LEMMA QIs == \A m : Paper!Coordinates(m) = Quantities(m)
  BY CoordinatesAre DEF Quantities

\* A trade that leaves the cash on the curve leaves every part in place.
LEMMA TradeIsAPart ==
    ASSUME NEW m, NEW l, NEW r, NEW n \in Nat, NEW fee \in Nat, WellTyped(m), WellTyped(l), Parts(m, n),
           m.phase = "FORMAL",
           Same(m, l, {"accounts", "cash", "lpFees", "protocolFees"}), AllBut(m, l, {"wallet", "held"}),
           Accrued(l, r, fee), l.cash = l.b + Paper!Cost(Quantities(l), l.b) - Slack(0, l.b)
    PROVE  Parts(r, n + 1)
  <1>1. /\ l.phase = "FORMAL" /\ l.core = m.core /\ l.early = m.early /\ l.budget = m.budget
           /\ l.payouts = m.payouts
        /\ l.R = m.R /\ l.b = m.b /\ l.M0 = m.M0 /\ l.lpSupply = m.lpSupply
    BY FieldsAre DEF Same
  <1>2. /\ r.phase = "FORMAL" /\ r.early = l.early /\ r.budget = l.budget /\ r.payouts = l.payouts
        /\ r.R = l.R /\ r.b = l.b /\ r.M0 = l.M0 /\ r.cash = l.cash /\ r.lpSupply = l.lpSupply /\ WellTyped(r)
        /\ AllBut(l, r, {"reward"})
    BY <1>1, FieldsAre DEF Accrued, Same
  <1>3. OnCurve(l)
    <2>1. \A u \in Accounts : l.accounts[u]["lp"] = m.accounts[u]["lp"]
      BY DEF AllBut, Own
    <2>2. Col(l.accounts, "lp") = Col(m.accounts, "lp")
      BY <2>1, SumsAgree
    <2>3. OnCurve(m) /\ m.phase \in Live
      BY DEF Parts, Live
    <2>4. QED
      BY <1>1, <2>2, <2>3 DEF OnCurve
  <1>4. OnCurve(r)
    <2>1. AllBut(l, r, Own \ {"lp", "held"})
      BY <1>2 DEF AllBut, Own
    <2>2. QED
      BY <1>1, <1>2, <1>3, <2>1, CurveKept
  <1>5. VaultAdds(m, n) /\ m.phase \in Before /\ Players \in Nat
    BY UsersFinite DEF Parts, Before
  <1>6. VaultAdds(l, n)
    <2>1. AllBut(m, l, Own \ {"side", "stake", "reward"})
      BY DEF AllBut, Own
    <2>2. QED
      BY <1>1, <1>5, <2>1, VaultKept
  <1>7. VaultAdds(r, n + 1)
    <2>1. \A u \in Accounts : r.accounts[u].side = l.accounts[u].side /\ r.accounts[u].stake = l.accounts[u].stake
      BY <1>2 DEF AllBut, Own
    <2>2. \A s \in Paper!Outcome : StakeOf(r.accounts, s) = StakeOf(l.accounts, s)
      BY <2>1, SumsAgree
    <2>3. l.phase \in Before
      BY <1>1 DEF Before
    <2>4. r.core.pool = l.core.pool /\ r.core.cash = l.core.cash /\ r.core.fees = l.core.fees + fee
      BY DEF Accrued
    <2>5. ASSUME NEW i \in Paper!Outcome PROVE FeesOf(r, i) <= r.core.fees
          /\ r.core.fees <= FeesOf(r, i) + Players * (n + 1)
      <3>1. FeesOf(l, i) <= l.core.fees /\ l.core.fees <= FeesOf(l, i) + Players * n
        BY <1>6, <2>3 DEF VaultAdds
      <3>2. /\ FeesOf(l, i) \in Nat /\ FeesOf(r, i) \in Nat
            /\ FeesOf(r, i) <= FeesOf(l, i) + fee /\ FeesOf(l, i) + fee <= FeesOf(r, i) + Players
        BY DEF Accrued
      <3>3. l.core.fees \in Nat
        BY SumsAre
      <3>4. Players * (n + 1) = Players * n + Players /\ Players * n \in Nat
        BY <1>5
      <3>5. QED
        BY <1>5, <2>4, <3>1, <3>2, <3>3, <3>4
    <2>6. QED
      BY <1>6, <2>1, <2>2, <2>3, <2>4, <2>5 DEF VaultAdds
  <1>8. NothingOwed(r)
    <2>1. AllBut(m, r, Own \ {"claimed"})
      BY <1>2 DEF AllBut, Own
    <2>2. QED
      BY <1>1, <1>2, <1>5, <2>1, NothingOwedKept DEF Parts
  <1>9. OnParabola(r, n + 1) /\ OwedIsKept(r)
    BY <1>2 DEF OnParabola, OwedIsKept
  <1>10. QED
    BY <1>4, <1>7, <1>8, <1>9 DEF Parts

CurveReaches(m, s, x, q) ==
    /\ Paper!CurveDelta(m, s, x) \in Int
    /\ m.cash + Paper!CurveDelta(m, s, x) \in Nat
    /\ m.cash + Paper!CurveDelta(m, s, x) = m.b + Paper!Cost(q, m.b) - Slack(0, m.b)
LEMMA CurveMoves ==
    ASSUME Paper!SlackIsBounded, NEW m, WellTyped(m), OnCurve(m), m.phase \in Live, NEW s \in Paper!Side,
           NEW x \in Int,
           NEW q \in [Paper!Side -> Nat], q = [Quantities(m) EXCEPT ![s] = @ + x]
    PROVE  CurveReaches(m, s, x, q)
  <1>1. PICK b \in Nat \ {0} : b = m.b
    <2>1. m.b \in Nat /\ m.b # 0
      BY TypedIs DEF OnCurve
    <2>2. QED
      BY <2>1
  <1>2. PICK k \in Nat : k = Slack(0, b)
    BY SlackType
  <1>3. k <= b
    BY <1>2, SlackType
  <1>4. PICK c \in Nat, d \in Nat : c = Paper!Cost(Quantities(m), b) /\ d = Paper!Cost(q, b)
    BY QType, CostIs
  <1>5. Paper!CurveDelta(m, s, x) = d - c
    BY <1>1, <1>4, QIs DEF Paper!CurveDelta
  <1>6. m.cash = b + c - k
    BY <1>1, <1>2, <1>4 DEF OnCurve
  <1>7. QED
    BY <1>1, <1>2, <1>3, <1>4, <1>5, <1>6 DEF CurveReaches

HeldShifts(m, l, u) ==
    \A t \in Paper!Side : HeldOf(l.accounts, t) + m.accounts[u].held[t]
          = HeldOf(m.accounts, t) + l.accounts[u].held[t]
LEMMA HeldOfMoves ==
    ASSUME NEW m, WellTyped(m), NEW l, WellTyped(l), NEW u \in Accounts, NEW but, SameAccount(m, l, u, but)
    PROVE  HeldShifts(m, l, u)
  BY AccountMoves DEF HeldShifts

LEMMA QMoves ==
    ASSUME NEW m, WellTyped(m), NEW l, WellTyped(l), NEW u \in Accounts, NEW s \in Paper!Side, NEW x \in Int,
           SameAccount(m, l, u, {"wallet", "held"}), NEW h, h = [m.accounts[u].held EXCEPT ![s] = @ + x],
           l.accounts[u].held = h
    PROVE  Quantities(l) = [Quantities(m) EXCEPT ![s] = @ + x]
  <1>1. m.accounts[u].held \in [Paper!Side -> Nat] /\ Quantities(m) \in [Paper!Side -> Nat]
        /\ Quantities(l) \in [Paper!Side -> Nat]
    BY AccountIs, QType
  <1>2. ASSUME NEW t \in Paper!Side PROVE Quantities(l)[t] = [Quantities(m) EXCEPT ![s] = @ + x][t]
    <2>1. HeldOf(l.accounts, t) + m.accounts[u].held[t] = HeldOf(m.accounts, t) + l.accounts[u].held[t]
      <3>1. HeldShifts(m, l, u)
        BY HeldOfMoves
      <3>2. QED
        BY <3>1, Zenon DEF HeldShifts
    <2>2. Quantities(l)[t] = HeldOf(l.accounts, t) /\ Quantities(m)[t] = HeldOf(m.accounts, t)
      BY DEF Quantities
    <2>3. PICK a \in Nat, b \in Nat, c \in Nat : a = m.accounts[u].held[t] /\ b = Quantities(m)[t]
          /\ c = Quantities(l)[t]
      BY <1>1
    <2>4. CASE t = s
      <3>1. l.accounts[u].held[t] = a + x
        BY <1>1, <2>3, <2>4
      <3>2. c + a = b + (a + x)
        BY <2>1, <2>2, <2>3, <3>1
      <3>3. c = b + x
        BY <3>2
      <3>4. QED
        BY <1>1, <2>3, <2>4, <3>3
    <2>5. CASE t # s
      <3>1. l.accounts[u].held[t] = a
        BY <1>1, <2>3, <2>5
      <3>2. c + a = b + a
        BY <2>1, <2>2, <2>3, <3>1
      <3>3. c = b
        BY <3>2
      <3>4. QED
        BY <1>1, <2>3, <2>5, <3>3
    <2>6. QED
      BY <2>4, <2>5
  <1>3. QED
    BY <1>1, <1>2

LEMMA FeesAreNaturals ==
    ASSUME NEW p \in Nat PROVE p \div 100 \in Nat /\ (7 * p) \div 1000 \in Nat /\ (3 * p) \div 1000 \in Nat
  OBVIOUS

LEMMA BuyFeesAdd ==
    ASSUME NEW d \in Nat, NEW p, p = (100 * d) \div 98, NEW f, NEW c, NEW e,
           f = p \div 100, c = (7 * p) \div 1000, e = (3 * p) \div 1000
    PROVE  d + f + c + e <= p /\ p <= d + f + c + e + 3
  OBVIOUS

LEMMA FormalBoughtIsGood ==
    ASSUME Paper!SlackIsBounded, NEW m, NEW n \in Nat, Good(m, n), m.phase = "FORMAL", NEW u \in Accounts,
           NEW s \in Paper!Side,
           NEW k \in Nat \ {0}, Paper!CurveDelta(m, s, k) > 0,
                 Paper!QuoteFormalBuy(m, s, k) <= m.accounts[u].wallet,
           NEW r, r = Paper!FormalBought(m, u, s, k)
    PROVE  Good(r, n + 1) /\ r.phase = "FORMAL"
  <1>0. WellTyped(m) /\ Parts(m, n) /\ OnCurve(m) /\ VaultAdds(m, n) /\ m.phase \in Live /\ m.phase \in Before
    BY DEF Good, Parts, Live, Before
  <1>1. m.cash \in Nat /\ m.lpFees \in Nat /\ m.protocolFees \in Nat /\ m.accounts[u].held \in [Paper!Side -> Nat]
        /\ m.R \in Nat /\ m.creatorFees \in Nat /\ Quantities(m) \in [Paper!Side -> Nat]
    BY <1>0, TypedIs, AccountIs, QType
  <1>2. PICK q : q = [Quantities(m) EXCEPT ![s] = @ + k]
    OBVIOUS
  <1>3. q \in [Paper!Side -> Nat]
    BY <1>1, <1>2
  <1>4. /\ Paper!CurveDelta(m, s, k) \in Int
        /\ m.cash + Paper!CurveDelta(m, s, k) = m.b + Paper!Cost(q, m.b) - Slack(0, m.b)
    <2>1. k \in Int
      OBVIOUS
    <2>2. CurveReaches(m, s, k, q)
      BY <1>0, <1>2, <1>3, <2>1, CurveMoves
    <2>3. QED
      BY <2>2 DEF CurveReaches
  <1>5. PICK d \in Nat : d = Paper!CurveDelta(m, s, k)
    BY <1>4
  <1>6. PICK p : p = Paper!QuoteFormalBuy(m, s, k)
    OBVIOUS
  <1>7. p = (100 * d) \div 98
    BY <1>5, <1>6 DEF Paper!QuoteFormalBuy
  <1>8. p \in Nat
    BY <1>7, FormalBuyFees
  <1>9. PICK f \in Nat, c \in Nat, e \in Nat : f = p \div 100 /\ c = (7 * p) \div 1000 /\ e = (3 * p) \div 1000
    BY <1>8, FeesAreNaturals
  <1>10. d + f + c + e <= p /\ p <= d + f + c + e + 3
    BY <1>7, <1>9, BuyFeesAdd
  <1>11. PICK j : j = Paper!Pay(m, u, p)
    OBVIOUS
  <1>12. /\ Same(m, j, {"accounts"}) /\ SameAccount(m, j, u, {"wallet"}) /\ WellTyped(j)
         /\ j.accounts[u].wallet = m.accounts[u].wallet - p
    BY <1>0, <1>6, <1>8, <1>11, PayGives
  <1>13. j.cash = m.cash /\ j.lpFees = m.lpFees /\ j.protocolFees = m.protocolFees
    BY <1>12, FieldsAre DEF Same
  <1>14. PICK h : h = [m.accounts[u].held EXCEPT ![s] = @ + k]
    OBVIOUS
  <1>15. h \in [Paper!Side -> Nat] /\ j.accounts[u].held = m.accounts[u].held
    BY <1>1, <1>12, <1>14 DEF SameAccount, Own
  <1>16. PICK b : b = [j.accounts[u] EXCEPT !.held = h]
    OBVIOUS
  <1>17. b \in AccountRecords /\ b.held = h /\ \A a \in Own \ {"held"} : b[a] = j.accounts[u][a]
    BY <1>12, <1>15, <1>16, AccountIs DEF AccountRecords, Own
  <1>18. PICK as : as = [j.accounts EXCEPT ![u] = b]
    OBVIOUS
  <1>19. as \in [Accounts -> AccountRecords] /\ as[u] = b /\ \A v \in Accounts : v # u => as[v] = j.accounts[v]
    BY <1>12, <1>17, <1>18, TypedIs
  <1>20. PICK cash \in Nat, lp \in Nat, pf \in Nat : cash = m.cash + d /\ lp = m.lpFees + f
        /\ pf = m.protocolFees + e
    <2>1. m.cash + d \in Nat /\ m.lpFees + f \in Nat /\ m.protocolFees + e \in Nat
      BY <1>1
    <2>2. QED
      BY <2>1
  <1>21. PICK l : l = [j EXCEPT !.cash = cash, !.accounts = as, !.lpFees = lp, !.protocolFees = pf]
    OBVIOUS
  <1>22. /\ Same(j, l, {"cash", "accounts", "lpFees", "protocolFees"}) /\ l.cash = cash /\ l.accounts = as
         /\ l.lpFees = lp /\ l.protocolFees = pf
    BY <1>12, <1>21, TypedIs, FieldsAre DEF Same
  <1>23. r = Paper!AccrueCoreFee(l, c)
    <2>1. PICK g : g = [Paper!Pay(m, u, p) EXCEPT !.cash = @ + d, !.accounts[u].held[s] = @ + k]
      OBVIOUS
    <2>2. r = Paper!AccrueFormal(g, p)
      BY <1>5, <1>6, <2>1 DEF Paper!FormalBought
    <2>3. as = [j.accounts EXCEPT ![u].held[s] = @ + k]
      BY <1>14, <1>15, <1>16, <1>18
    <2>4. g = [j EXCEPT !.cash = cash, !.accounts = as]
      <3>1. g = [j EXCEPT !.cash = @ + d, !.accounts[u].held[s] = @ + k]
        BY <1>11, <2>1
      <3>2. g = [j EXCEPT !.cash = j.cash + d, !.accounts = [j.accounts EXCEPT ![u].held[s] = @ + k]]
        BY ONLY <3>1, Zenon
      <3>3. QED
        BY <1>13, <1>20, <2>3, <3>2
    <2>5. g.lpFees = m.lpFees /\ g.protocolFees = m.protocolFees
      BY <1>12, <1>13, <2>4, TypedIs, FieldsAre
    <2>6. PICK w : w = [g EXCEPT !.lpFees = @ + p \div 100, !.protocolFees = @ + (3 * p) \div 1000]
      OBVIOUS
    <2>7. r = Paper!AccrueCoreFee(w, c)
      BY <1>9, <2>2, <2>6 DEF Paper!AccrueFormal
    <2>8. w = [g EXCEPT !.lpFees = lp, !.protocolFees = pf]
      BY <1>9, <1>20, <2>5, <2>6
    <2>9. w = l
      BY <1>21, <2>4, <2>8
    <2>10. QED
      BY <2>7, <2>9
  <1>24. WellTyped(l)
    <2>1. l["cash"] \in Shape["cash"] /\ l["lpFees"] \in Shape["lpFees"]
          /\ l["protocolFees"] \in Shape["protocolFees"]
      BY <1>22 DEF Shape
    <2>2. l["accounts"] \in Shape["accounts"]
      BY <1>19, <1>22 DEF Shape
    <2>3. \A x \in {"cash", "accounts", "lpFees", "protocolFees"} : l[x] \in Shape[x]
      BY <2>1, <2>2
    <2>4. QED
      BY <1>12, <1>22, <2>3, TypedKept
  <1>25. SameAccount(j, l, u, {"held"}) /\ l.accounts[u].held = h
    BY <1>17, <1>19, <1>22 DEF SameAccount
  <1>26. SameAccount(m, l, u, {"wallet", "held"})
    <2>1. SameAccount(m, l, u, {"wallet"} \cup {"held"})
      BY <1>12, <1>25, SameAccountTwice
    <2>2. {"wallet"} \cup {"held"} = {"wallet", "held"}
      OBVIOUS
    <2>3. QED
      BY <2>1, <2>2
  <1>27. Same(m, l, {"accounts", "cash", "lpFees", "protocolFees"})
    BY <1>12, <1>22 DEF Same
  <1>28. AllBut(m, l, {"wallet", "held"})
    BY <1>26, SameAccountIsAllBut
  <1>29. /\ l.core = m.core /\ l.early = m.early /\ l.budget = m.budget /\ l.b = m.b /\ l.R = m.R
         /\ l.creatorFees = m.creatorFees /\ l.phase = m.phase
    BY <1>27, FieldsAre DEF Same
  <1>30. l.cash = l.b + Paper!Cost(Quantities(l), l.b) - Slack(0, l.b)
    <2>1. Quantities(l) = q
      BY <1>0, <1>2, <1>14, <1>24, <1>25, <1>26, QMoves
    <2>2. QED
      BY <1>4, <1>5, <1>20, <1>22, <1>29, <2>1
  <1>31. Accrued(l, r, c)
    <2>1. \A v \in Accounts : l.accounts[v].side = m.accounts[v].side /\ l.accounts[v].stake = m.accounts[v].stake
      BY <1>28 DEF AllBut, Own
    <2>2. \A t \in Paper!Outcome : StakeOf(l.accounts, t) = StakeOf(m.accounts, t)
      BY <2>1, SumsAgree
    <2>3. PoolsAreStakes(l)
      BY <1>0, <1>29, <2>2 DEF PoolsAreStakes, VaultAdds
    <2>4. QED
      BY <1>23, <1>24, <2>3, FeeAccrues
  <1>32. Parts(r, n + 1)
    BY <1>0, <1>24, <1>27, <1>28, <1>30, <1>31, TradeIsAPart
  <1>33. /\ WellTyped(r) /\ r.phase = "FORMAL" /\ r.early = m.early /\ r.budget = m.budget /\ r.R = m.R
            /\ r.cash = cash
         /\ r.lpFees = lp /\ r.protocolFees = pf /\ r.creatorFees = m.creatorFees
         /\ r.core.cash = m.core.cash /\ r.core.fees = m.core.fees + c
    BY <1>22, <1>29, <1>31, FieldsAre DEF Accrued, Same
  <1>34. Col(r.accounts, "wallet") = Col(l.accounts, "wallet")
        /\ Col(r.accounts, "refund") = Col(l.accounts, "refund")
    <2>1. \A v \in Accounts : r.accounts[v]["wallet"] = l.accounts[v]["wallet"]
          /\ r.accounts[v]["refund"] = l.accounts[v]["refund"]
      BY <1>31 DEF Accrued, AllBut, Own
    <2>2. PursesSame(l.accounts, r.accounts)
      BY <2>1, PursesAgree
    <2>3. QED
      BY <2>2 DEF PursesSame
  <1>35. /\ Col(l.accounts, "wallet") + m.accounts[u]["wallet"]
            = Col(m.accounts, "wallet") + l.accounts[u]["wallet"]
         /\ Col(l.accounts, "refund") = Col(m.accounts, "refund")
    BY <1>0, <1>24, <1>26, AccountMoves DEF Sums
  <1>36. l.accounts[u].wallet = m.accounts[u].wallet - p /\ m.accounts[u].wallet \in Nat
    <2>1. l.accounts[u].wallet = j.accounts[u].wallet
      BY <1>25 DEF SameAccount, Own
    <2>2. QED
      BY <1>0, <1>12, <2>1, AccountIs
  <1>37. /\ Col(l.accounts, "wallet") \in Nat /\ Col(m.accounts, "wallet") \in Nat
            /\ Col(m.accounts, "refund") \in Nat
         /\ m.core.cash \in Nat /\ m.core.fees \in Nat
    BY <1>0, <1>24, SumsAre
  <1>38. MoneyIsKept(r, n + 1)
    <2>1. Purses(r) + p = Purses(m)
      BY <1>8, <1>34, <1>35, <1>36, <1>37 DEF Purses
    <2>2. Traded(r) = Traded(m) + d + f + e
      BY <1>1, <1>20, <1>33 DEF Traded
    <2>3. Vaulted(r) = Vaulted(m) + c
      BY <1>33, <1>37 DEF Vaulted
    <2>4. Escrow(r) = Escrow(m) /\ Debts(r) = Debts(m)
      BY <1>33 DEF Escrow, Debts, Pending
    <2>5. Purses(m) \in Nat /\ Purses(r) \in Nat /\ Escrow(m) \in Nat /\ Traded(m) \in Nat /\ Vaulted(m) \in Nat
          /\ Debts(m) \in Nat
      BY <1>0, <1>33, MoneyType
    <2>6. Money(r) <= Money(m) /\ Money(m) <= Money(r) + 3
      BY <1>8, <1>10, <2>1, <2>2, <2>3, <2>4, <2>5 DEF Money
    <2>7. QED
      BY <1>0, <1>33, <2>6, RoundedMoney DEF Good
  <1>39. QED
    BY <1>32, <1>33, <1>38 DEF Good

LEMMA SellFeesAdd ==
    ASSUME NEW p \in Nat, NEW a, NEW f, NEW c, NEW e,
           a = (98 * p) \div 100, f = p \div 100, c = (7 * p) \div 1000, e = (3 * p) \div 1000
    PROVE  a \in Nat /\ a + f + c + e <= p /\ p <= a + f + c + e + 3
  OBVIOUS

FormalSale(m, u, s, k, p) ==
    Paper!Receive(Paper!AccrueFormal([m EXCEPT !.cash = @ - p, !.accounts[u].held[s] = @ - k], p), u,
          (98 * p) \div 100)

LEMMA FormalSoldIsGood ==
    ASSUME Paper!SlackIsBounded, NEW m, NEW n \in Nat, Good(m, n), m.phase = "FORMAL", NEW u \in Accounts,
           NEW s \in Paper!Side,
           NEW k \in Nat \ {0}, k <= m.accounts[u].held[s], NEW p, p = Paper!QuoteFormalSell(m, s, k), p > 0,
           NEW r, r = FormalSale(m, u, s, k, p)
    PROVE  Good(r, n + 1)
  <1>0. WellTyped(m) /\ Parts(m, n) /\ OnCurve(m) /\ VaultAdds(m, n) /\ m.phase \in Live /\ m.phase \in Before
    BY DEF Good, Parts, Live, Before
  <1>1. m.cash \in Nat /\ m.lpFees \in Nat /\ m.protocolFees \in Nat /\ m.accounts[u].held \in [Paper!Side -> Nat]
        /\ m.R \in Nat /\ m.creatorFees \in Nat /\ Quantities(m) \in [Paper!Side -> Nat]
           /\ m.accounts \in [Accounts -> AccountRecords]
    BY <1>0, TypedIs, AccountIs, QType
  <1>2. k <= Quantities(m)[s]
    <2>1. m.accounts[u].held[s] \in Nat /\ m.accounts[u].held[s] <= HeldOf(m.accounts, s)
      BY <1>1, SumsAreNaturals
    <2>2. Quantities(m)[s] = HeldOf(m.accounts, s) /\ Quantities(m)[s] \in Nat
      BY <1>1 DEF Quantities
    <2>3. QED
      BY <2>1, <2>2
  <1>3. PICK x \in Int : x = -k
    <2>1. -k \in Int
      OBVIOUS
    <2>2. QED
      BY <2>1
  <1>4. PICK q : q = [Quantities(m) EXCEPT ![s] = @ + x]
    OBVIOUS
  <1>5. q \in [Paper!Side -> Nat]
    <2>1. Quantities(m)[s] \in Nat
      BY <1>1
    <2>2. Quantities(m)[s] + x \in Nat
      BY <1>2, <1>3, <2>1
    <2>3. QED
      BY <1>1, <1>4, <2>2
  <1>6. CurveReaches(m, s, x, q)
    BY <1>0, <1>4, <1>5, CurveMoves
  <1>7. p \in Nat /\ m.cash - p \in Nat /\ m.cash - p = m.b + Paper!Cost(q, m.b) - Slack(0, m.b)
    <2>1. PICK d \in Int : d = Paper!CurveDelta(m, s, x)
      BY <1>6 DEF CurveReaches
    <2>2. p = -d
      BY <1>3, <2>1 DEF Paper!QuoteFormalSell
    <2>3. p \in Nat /\ m.cash - p = m.cash + d
      BY <1>1, <2>2
    <2>4. QED
      BY <1>6, <2>1, <2>3 DEF CurveReaches
  <1>8. PICK a, f, c, e : a = (98 * p) \div 100 /\ f = p \div 100 /\ c = (7 * p) \div 1000
        /\ e = (3 * p) \div 1000
    OBVIOUS
  <1>9. f \in Nat /\ c \in Nat /\ e \in Nat
    BY <1>7, <1>8, FeesAreNaturals
  <1>10. a \in Nat /\ a + f + c + e <= p /\ p <= a + f + c + e + 3
    BY <1>7, <1>8, SellFeesAdd
  <1>14. PICK h : h = [m.accounts[u].held EXCEPT ![s] = @ - k]
    OBVIOUS
  <1>15. h \in [Paper!Side -> Nat] /\ h = [m.accounts[u].held EXCEPT ![s] = @ + x]
    <2>1. m.accounts[u].held[s] \in Nat
      BY <1>1
    <2>2. m.accounts[u].held[s] - k \in Nat /\ m.accounts[u].held[s] - k = m.accounts[u].held[s] + x
      BY <1>3, <2>1
    <2>3. QED
      BY <1>1, <1>14, <2>2
  <1>16. PICK b : b = [m.accounts[u] EXCEPT !.held = h]
    OBVIOUS
  <1>17. b \in AccountRecords /\ b.held = h /\ \A y \in Own \ {"held"} : b[y] = m.accounts[u][y]
    BY <1>0, <1>15, <1>16, AccountIs DEF AccountRecords, Own
  <1>18. PICK as : as = [m.accounts EXCEPT ![u] = b]
    OBVIOUS
  <1>19. as \in [Accounts -> AccountRecords] /\ as[u] = b /\ \A v \in Accounts : v # u => as[v] = m.accounts[v]
    BY <1>1, <1>17, <1>18
  <1>20. PICK cash \in Nat, lp \in Nat, pf \in Nat : cash = m.cash - p /\ lp = m.lpFees + f
        /\ pf = m.protocolFees + e
    <2>1. m.lpFees + f \in Nat /\ m.protocolFees + e \in Nat
      BY <1>1, <1>9
    <2>2. QED
      BY <1>7, <2>1
  <1>21. PICK l : l = [m EXCEPT !.cash = cash, !.accounts = as, !.lpFees = lp, !.protocolFees = pf]
    OBVIOUS
  <1>22. /\ Same(m, l, {"cash", "accounts", "lpFees", "protocolFees"}) /\ l.cash = cash /\ l.accounts = as
         /\ l.lpFees = lp /\ l.protocolFees = pf
    BY <1>0, <1>21, TypedIs, FieldsAre DEF Same
  <1>23a. PICK i : i = Paper!AccrueCoreFee(l, c)
    OBVIOUS
  <1>23. r = Paper!Receive(i, u, a)
    <2>1. PICK g : g = [m EXCEPT !.cash = @ - p, !.accounts[u].held[s] = @ - k]
      OBVIOUS
    <2>2. r = Paper!Receive(Paper!AccrueFormal(g, p), u, a)
      BY <1>8, <2>1 DEF FormalSale
    <2>3. as = [m.accounts EXCEPT ![u].held[s] = @ - k]
      BY <1>14, <1>16, <1>18
    <2>4. g = [m EXCEPT !.cash = cash, !.accounts = as]
      <3>2. g = [m EXCEPT !.cash = m.cash - p, !.accounts = [m.accounts EXCEPT ![u].held[s] = @ - k]]
        BY ONLY <2>1, Zenon
      <3>3. QED
        BY <1>20, <2>3, <3>2
    <2>5. g.lpFees = m.lpFees /\ g.protocolFees = m.protocolFees
      BY <1>0, <2>4, TypedIs, FieldsAre
    <2>6. PICK w : w = [g EXCEPT !.lpFees = @ + p \div 100, !.protocolFees = @ + (3 * p) \div 1000]
      OBVIOUS
    <2>7. Paper!AccrueFormal(g, p) = Paper!AccrueCoreFee(w, c)
      BY <1>8, <2>6 DEF Paper!AccrueFormal
    <2>8. w = [g EXCEPT !.lpFees = lp, !.protocolFees = pf]
      BY <1>8, <1>20, <2>5, <2>6
    <2>9. w = l
      BY <1>21, <2>4, <2>8
    <2>10. QED
      BY <1>23a, <2>2, <2>7, <2>9
  <1>24. WellTyped(l)
    <2>1. l["cash"] \in Shape["cash"] /\ l["lpFees"] \in Shape["lpFees"]
          /\ l["protocolFees"] \in Shape["protocolFees"]
      BY <1>22 DEF Shape
    <2>2. l["accounts"] \in Shape["accounts"]
      BY <1>19, <1>22 DEF Shape
    <2>3. \A y \in {"cash", "accounts", "lpFees", "protocolFees"} : l[y] \in Shape[y]
      BY <2>1, <2>2
    <2>4. QED
      BY <1>0, <1>22, <2>3, TypedKept
  <1>25. SameAccount(m, l, u, {"held"}) /\ l.accounts[u].held = h
    BY <1>17, <1>19, <1>22 DEF SameAccount
  <1>26. SameAccount(m, l, u, {"wallet", "held"})
    BY <1>25 DEF SameAccount
  <1>27. Same(m, l, {"accounts", "cash", "lpFees", "protocolFees"})
    BY <1>22 DEF Same
  <1>28. AllBut(m, l, {"wallet", "held"})
    BY <1>26, SameAccountIsAllBut
  <1>29. /\ l.core = m.core /\ l.early = m.early /\ l.budget = m.budget /\ l.b = m.b /\ l.R = m.R
         /\ l.creatorFees = m.creatorFees /\ l.phase = m.phase
    BY <1>27, FieldsAre DEF Same
  <1>30. l.cash = l.b + Paper!Cost(Quantities(l), l.b) - Slack(0, l.b)
    <2>1. Quantities(l) = q
      BY <1>0, <1>4, <1>15, <1>24, <1>25, <1>26, QMoves
    <2>2. QED
      BY <1>7, <1>20, <1>22, <1>29, <2>1
  <1>31. Accrued(l, i, c)
    <2>1. \A v \in Accounts : l.accounts[v].side = m.accounts[v].side /\ l.accounts[v].stake = m.accounts[v].stake
      BY <1>28 DEF AllBut, Own
    <2>2. \A t \in Paper!Outcome : StakeOf(l.accounts, t) = StakeOf(m.accounts, t)
      BY <2>1, SumsAgree
    <2>3. PoolsAreStakes(l)
      BY <1>0, <1>29, <2>2 DEF PoolsAreStakes, VaultAdds
    <2>4. QED
      BY <1>9, <1>23a, <1>24, <2>3, FeeAccrues
  <1>32. Parts(i, n + 1)
    BY <1>0, <1>9, <1>24, <1>27, <1>28, <1>30, <1>31, TradeIsAPart
  <1>33. /\ WellTyped(i) /\ i.phase = "FORMAL" /\ i.early = m.early /\ i.budget = m.budget /\ i.R = m.R
            /\ i.cash = cash
         /\ i.lpFees = lp /\ i.protocolFees = pf /\ i.creatorFees = m.creatorFees
         /\ i.core.cash = m.core.cash /\ i.core.fees = m.core.fees + c
    BY <1>22, <1>29, <1>31, FieldsAre DEF Accrued, Same
  <1>34. /\ Same(i, r, {"accounts"}) /\ SameAccount(i, r, u, {"wallet"}) /\ WellTyped(r)
         /\ r.accounts[u].wallet = i.accounts[u].wallet + a
    <2>1. WellTyped(i) /\ a \in Nat /\ r = Paper!Receive(i, u, a)
      BY <1>10, <1>23, <1>33
    <2>2. QED
      BY <2>1, ReceiveGives
  <1>35. /\ r.phase = "FORMAL" /\ r.early = m.early /\ r.budget = m.budget /\ r.R = m.R /\ r.cash = cash
         /\ r.lpFees = lp /\ r.protocolFees = pf /\ r.creatorFees = m.creatorFees
         /\ r.core.cash = m.core.cash /\ r.core.fees = m.core.fees + c /\ r.early = i.early
    BY <1>33, <1>34, FieldsAre DEF Same
  <1>36. Parts(r, n + 1)
    <2>1. AllBut(i, r, {"wallet"})
      BY <1>34, SameAccountIsAllBut
    <2>2. AllBut(i, r, {"wallet", "refund"}) /\ Same(i, r,
          {"accounts", "creatorFees", "protocolFees", "now", "early"})
      BY <1>34, <2>1 DEF AllBut, Same
    <2>3. r.early.forfeited = i.early.forfeited
      BY <1>35
    <2>4. QED
      BY <1>32, <1>33, <1>34, <2>2, <2>3, FrameKept
  <1>37. Col(i.accounts, "wallet") = Col(m.accounts, "wallet")
        /\ Col(i.accounts, "refund") = Col(m.accounts, "refund")
    <2>1. \A v \in Accounts : i.accounts[v]["wallet"] = l.accounts[v]["wallet"]
          /\ i.accounts[v]["refund"] = l.accounts[v]["refund"]
      BY <1>31 DEF Accrued, AllBut, Own
    <2>2. Col(i.accounts, "wallet") = Col(l.accounts, "wallet")
          /\ Col(i.accounts, "refund") = Col(l.accounts, "refund")
      <3>1. PursesSame(l.accounts, i.accounts)
        BY <2>1, PursesAgree
      <3>2. QED
        BY <3>1 DEF PursesSame
    <2>3. Col(l.accounts, "wallet") = Col(m.accounts, "wallet")
          /\ Col(l.accounts, "refund") = Col(m.accounts, "refund")
      BY <1>0, <1>24, <1>25, AccountMoves DEF Sums
    <2>4. QED
      BY <2>2, <2>3
  <1>38. /\ Col(r.accounts, "wallet") + i.accounts[u]["wallet"]
            = Col(i.accounts, "wallet") + r.accounts[u]["wallet"]
         /\ Col(r.accounts, "refund") = Col(i.accounts, "refund")
    BY <1>33, <1>34, AccountMoves DEF Sums
  <1>39. /\ Col(r.accounts, "wallet") \in Nat /\ Col(m.accounts, "wallet") \in Nat
            /\ Col(m.accounts, "refund") \in Nat
         /\ m.core.cash \in Nat /\ m.core.fees \in Nat /\ i.accounts[u].wallet \in Nat
    BY <1>0, <1>33, <1>34, SumsAre, AccountIs
  <1>40. MoneyIsKept(r, n + 1)
    <2>1. Purses(r) = Purses(m) + a
      BY <1>10, <1>34, <1>37, <1>38, <1>39 DEF Purses
    <2>2. Traded(r) + p = Traded(m) + f + e
      BY <1>1, <1>7, <1>9, <1>20, <1>35 DEF Traded
    <2>3. Vaulted(r) = Vaulted(m) + c
      BY <1>9, <1>35, <1>39 DEF Vaulted
    <2>4. Escrow(r) = Escrow(m) /\ Debts(r) = Debts(m)
      BY <1>35 DEF Escrow, Debts, Pending
    <2>5. Purses(m) \in Nat /\ Traded(r) \in Nat /\ Escrow(m) \in Nat /\ Traded(m) \in Nat /\ Vaulted(m) \in Nat
          /\ Debts(m) \in Nat
      BY <1>0, <1>34, MoneyType
    <2>6. Money(r) <= Money(m) /\ Money(m) <= Money(r) + 3
      BY <1>7, <1>9, <1>10, <2>1, <2>2, <2>3, <2>4, <2>5 DEF Money
    <2>7. QED
      BY <1>0, <1>34, <1>35, <2>6, RoundedMoney DEF Good
  <1>41. QED
    BY <1>34, <1>36, <1>40 DEF Good

\* A pair of both outcomes costs what it pays.
LEMMA CostOfPairs ==
    ASSUME Paper!SlackIsBounded, NEW q \in [Paper!Side -> Nat], NEW p \in [Paper!Side -> Nat],
           NEW b \in Nat \ {0}, NEW k \in Nat,
           \A s \in Paper!Side : q[s] = p[s] + k
    PROVE  Paper!Cost(q, b) = Paper!Cost(p, b) + k
  <1>1. PICK y \in Nat, z \in Nat : y = p["YES"] /\ z = p["NO"]
    BY DEF Paper!Side
  <1>2. q["YES"] = y + k /\ q["NO"] = z + k
    BY <1>1 DEF Paper!Side
  <1>3. PICK d \in Int : d = y - z
    <2>1. y - z \in Int
      OBVIOUS
    <2>2. QED
      BY <2>1
  <1>4. (y + k) - (z + k) = d
    BY <1>3
  <1>5. CASE d >= 0
    <2>1. PICK x \in Nat : x = Slack(d, b)
      <3>1. d \in Nat
        BY <1>5
      <3>2. QED
        BY <3>1, SlackType
    <2>2. Paper!Cost(p, b) = y + x
      BY <1>1, <1>3, <1>5, <2>1 DEF Paper!Cost
    <2>3. Paper!Cost(q, b) = (y + k) + x
      BY <1>2, <1>4, <1>5, <2>1 DEF Paper!Cost
    <2>4. QED
      BY <2>2, <2>3
  <1>6. CASE ~(d >= 0)
    <2>1. PICK x \in Nat : x = Slack(-d, b)
      <3>1. -d \in Nat
        BY <1>6
      <3>2. QED
        BY <3>1, SlackType
    <2>2. Paper!Cost(p, b) = z + x
      BY <1>1, <1>3, <1>6, <2>1 DEF Paper!Cost
    <2>3. Paper!Cost(q, b) = (z + k) + x
      BY <1>2, <1>4, <1>6, <2>1 DEF Paper!Cost
    <2>4. QED
      BY <2>2, <2>3
  <1>7. QED
    BY <1>5, <1>6

Redeemed(m, u, k) ==
    Paper!Receive([m EXCEPT !.cash = @ - k, !.accounts[u].held = [s \in Paper!Side |-> @[s] - k]], u, k)
LEMMA RedeemedIsGood ==
    ASSUME Paper!SlackIsBounded, NEW m, NEW n, Good(m, n), m.phase \in Live, NEW u \in Accounts,
           NEW k \in Nat \ {0},
           \A s \in Paper!Side : k <= m.accounts[u].held[s], k <= m.cash,
           NEW r, r = Redeemed(m, u, k)
    PROVE  Good(r, n)
  <1>0. WellTyped(m) /\ Parts(m, n) /\ OnCurve(m) /\ VaultAdds(m, n) /\ NothingOwed(m) /\ m.phase \in Before
    BY DEF Good, Parts, Live, Before
  <1>1. m.cash \in Nat /\ m.lpFees \in Nat /\ m.protocolFees \in Nat /\ m.accounts[u].held \in [Paper!Side -> Nat]
        /\ m.R \in Nat /\ m.creatorFees \in Nat /\ Quantities(m) \in [Paper!Side -> Nat]
           /\ m.accounts \in [Accounts -> AccountRecords]
    BY <1>0, TypedIs, AccountIs, QType
  <1>2. PICK h : h = [s \in Paper!Side |-> m.accounts[u].held[s] - k]
    OBVIOUS
  <1>3. h \in [Paper!Side -> Nat] /\ \A s \in Paper!Side : h[s] + k = m.accounts[u].held[s]
    <2>1. ASSUME NEW s \in Paper!Side PROVE m.accounts[u].held[s] - k \in Nat
          /\ (m.accounts[u].held[s] - k) + k = m.accounts[u].held[s]
      <3>1. m.accounts[u].held[s] \in Nat
        BY <1>1
      <3>2. QED
        BY <3>1
    <2>2. QED
      BY <1>2, <2>1
  <1>4. PICK b : b = [m.accounts[u] EXCEPT !.held = h]
    OBVIOUS
  <1>5. b \in AccountRecords /\ b.held = h /\ \A y \in Own \ {"held"} : b[y] = m.accounts[u][y]
    BY <1>0, <1>3, <1>4, AccountIs DEF AccountRecords, Own
  <1>6. PICK as : as = [m.accounts EXCEPT ![u] = b]
    OBVIOUS
  <1>7. as \in [Accounts -> AccountRecords] /\ as[u] = b /\ \A v \in Accounts : v # u => as[v] = m.accounts[v]
    BY <1>1, <1>5, <1>6
  <1>8. PICK cash \in Nat : cash = m.cash - k
    <2>1. m.cash - k \in Nat
      BY <1>1
    <2>2. QED
      BY <2>1
  <1>9. PICK l : l = [m EXCEPT !.cash = cash, !.accounts = as]
    OBVIOUS
  <1>10. Same(m, l, {"cash", "accounts"}) /\ l.cash = cash /\ l.accounts = as
    BY <1>0, <1>9, TypedIs, FieldsAre DEF Same
  <1>11. r = Paper!Receive(l, u, k)
    <2>1. PICK g : g = [m EXCEPT !.cash = @ - k, !.accounts[u].held = [s \in Paper!Side |-> @[s] - k]]
      OBVIOUS
    <2>2. as = [m.accounts EXCEPT ![u].held = [s \in Paper!Side |-> @[s] - k]]
      BY <1>2, <1>4, <1>6
    <2>3. g = [m EXCEPT !.cash = m.cash - k, !.accounts
          = [m.accounts EXCEPT ![u].held = [s \in Paper!Side |-> @[s] - k]]]
      BY ONLY <2>1, Zenon
    <2>4. g = l
      BY <1>8, <1>9, <2>2, <2>3
    <2>5. QED
      BY <2>1, <2>4 DEF Redeemed
  <1>12. WellTyped(l)
    <2>1. l["cash"] \in Shape["cash"] /\ l["accounts"] \in Shape["accounts"]
      BY <1>7, <1>10 DEF Shape
    <2>2. \A y \in {"cash", "accounts"} : l[y] \in Shape[y]
      BY <2>1
    <2>3. QED
      BY <1>0, <1>10, <2>2, TypedKept
  <1>13. SameAccount(m, l, u, {"held"}) /\ l.accounts[u].held = h
    BY <1>5, <1>7, <1>10 DEF SameAccount
  <1>14. /\ Same(l, r, {"accounts"}) /\ SameAccount(l, r, u, {"wallet"}) /\ WellTyped(r)
         /\ r.accounts[u].wallet = l.accounts[u].wallet + k
    BY <1>11, <1>12, ReceiveGives
  <1>15. SameAccount(m, r, u, {"held"} \cup {"wallet"})
    BY <1>13, <1>14, SameAccountTwice
  <1>16. AllBut(m, r, {"held", "wallet"})
    <2>1. AllBut(m, r, {"held"} \cup {"wallet"})
      BY <1>15, SameAccountIsAllBut
    <2>2. QED
      BY <2>1 DEF AllBut
  <1>17. /\ r.phase = m.phase /\ r.early = m.early /\ r.core = m.core /\ r.budget = m.budget
            /\ r.payouts = m.payouts
         /\ r.R = m.R /\ r.b = m.b /\ r.M0 = m.M0 /\ r.lpSupply = m.lpSupply /\ r.cash = cash
         /\ r.lpFees = m.lpFees /\ r.protocolFees = m.protocolFees /\ r.creatorFees = m.creatorFees
    BY <1>10, <1>14, FieldsAre DEF Same
  <1>18. ASSUME NEW s \in Paper!Side PROVE Quantities(m)[s] = Quantities(r)[s] + k
    <2>1. HeldShifts(m, l, u)
      BY <1>0, <1>12, <1>13, HeldOfMoves
    <2>2. HeldOf(l.accounts, s) + m.accounts[u].held[s] = HeldOf(m.accounts, s) + h[s]
      BY <1>13, <2>1, Zenon DEF HeldShifts
    <2>3. HeldOf(r.accounts, s) = HeldOf(l.accounts, s)
      <3>1. \A v \in Accounts : r.accounts[v].held = l.accounts[v].held
        BY <1>14 DEF SameAccount, Own
      <3>2. QED
        BY <3>1, SumsAgree
    <2>4. h[s] \in Nat /\ h[s] + k = m.accounts[u].held[s] /\ HeldOf(m.accounts, s) \in Nat
          /\ HeldOf(r.accounts, s) \in Nat
      BY <1>0, <1>3, <1>14, SumsAre
    <2>5. HeldOf(m.accounts, s) = HeldOf(r.accounts, s) + k
      BY <2>2, <2>3, <2>4
    <2>6. QED
      BY <2>5 DEF Quantities
  <1>19. OnCurve(r)
    <2>1. PICK d \in Nat \ {0} : d = m.b
      <3>1. m.b \in Nat /\ m.b # 0
        BY <1>0, TypedIs DEF OnCurve
      <3>2. QED
        BY <3>1
    <2>2. Quantities(r) \in [Paper!Side -> Nat]
      BY <1>14, QType
    <2>3. Paper!Cost(Quantities(m), d) = Paper!Cost(Quantities(r), d) + k
      <3>1. k \in Nat
        OBVIOUS
      <3>2. QED
        BY <1>1, <1>18, <2>2, <3>1, CostOfPairs
    <2>4. Paper!Cost(Quantities(m), d) \in Nat /\ Paper!Cost(Quantities(r), d) \in Nat /\ Slack(0, d) \in Nat
      BY <1>1, <2>2, CostIs, SlackType
    <2>5. cash = r.b + Paper!Cost(Quantities(r), r.b) - Slack(0, r.b)
      <3>1. m.cash = d + Paper!Cost(Quantities(m), d) - Slack(0, d)
        BY <1>0, <2>1 DEF OnCurve
      <3>2. QED
        BY <1>1, <1>8, <1>17, <2>1, <2>3, <2>4, <3>1
    <2>6. \A v \in Accounts : r.accounts[v]["lp"] = m.accounts[v]["lp"]
      BY <1>16 DEF AllBut, Own
    <2>7. Col(r.accounts, "lp") = Col(m.accounts, "lp")
      BY <2>6, SumsAgree
    <2>8. QED
      BY <1>0, <1>17, <2>5, <2>7 DEF OnCurve
  <1>20. VaultAdds(r, n)
    <2>1. AllBut(m, r, Own \ {"side", "stake", "reward"})
      BY <1>16 DEF AllBut, Own
    <2>2. QED
      BY <1>0, <1>17, <2>1, VaultKept
  <1>21. NothingOwed(r)
    <2>1. AllBut(m, r, Own \ {"claimed"})
      BY <1>16 DEF AllBut, Own
    <2>2. QED
      BY <1>0, <1>17, <2>1, NothingOwedKept
  <1>22. Parts(r, n)
    BY <1>17, <1>19, <1>20, <1>21 DEF Parts, OnParabola, OwedIsKept, Live
  <1>23. /\ Col(r.accounts, "wallet") + l.accounts[u]["wallet"]
            = Col(l.accounts, "wallet") + r.accounts[u]["wallet"]
         /\ Col(r.accounts, "refund") = Col(l.accounts, "refund")
    BY <1>12, <1>14, AccountMoves DEF Sums
  <1>24. Col(l.accounts, "wallet") = Col(m.accounts, "wallet")
        /\ Col(l.accounts, "refund") = Col(m.accounts, "refund")
    BY <1>0, <1>12, <1>13, AccountMoves DEF Sums
  <1>25. /\ Col(r.accounts, "wallet") \in Nat /\ Col(m.accounts, "wallet") \in Nat
            /\ Col(m.accounts, "refund") \in Nat
         /\ l.accounts[u].wallet \in Nat
    BY <1>0, <1>12, <1>14, SumsAre, AccountIs
  <1>26. Money(r) = Money(m)
    <2>1. Purses(r) = Purses(m) + k
      BY <1>14, <1>23, <1>24, <1>25 DEF Purses
    <2>2. Traded(r) + k = Traded(m)
      BY <1>1, <1>8, <1>17 DEF Traded
    <2>3. Vaulted(r) = Vaulted(m) /\ Escrow(r) = Escrow(m) /\ Debts(r) = Debts(m)
      BY <1>17 DEF Vaulted, Escrow, Debts, Pending
    <2>5. Purses(m) \in Nat /\ Traded(r) \in Nat /\ Escrow(m) \in Nat /\ Traded(m) \in Nat /\ Vaulted(m) \in Nat
          /\ Debts(m) \in Nat
      BY <1>0, <1>14, MoneyType
    <2>6. QED
      BY <2>1, <2>2, <2>3, <2>5 DEF Money
  <1>27. QED
    BY <1>14, <1>17, <1>22, <1>26, GoodKept

-----------------------------------------------------------------------------
(* The vault. *)
StakeShifts(m, l, u) ==
    \A t \in Paper!Outcome : StakeOf(l.accounts, t) + On(m.accounts[u], t)
          = StakeOf(m.accounts, t) + On(l.accounts[u], t)
LEMMA StakeOfMoves ==
    ASSUME NEW m, WellTyped(m), NEW l, WellTyped(l), NEW u \in Accounts, NEW but, SameAccount(m, l, u, but)
    PROVE  StakeShifts(m, l, u)
  BY AccountMoves DEF StakeShifts

PoolsAdd(p, q, x) == q["YES"] + q["NO"] + q["INVALID"] = p["YES"] + p["NO"] + p["INVALID"] + x
\* Three pools of which one gains, or loses, x.
LEMMA PoolMoves ==
    ASSUME NEW p \in Books, NEW s \in Paper!Outcome, NEW x \in Int, NEW q \in Books, q = [p EXCEPT ![s] = @ + x]
    PROVE  PoolsAdd(p, q, x)
  <1>1. PICK a \in Nat, b \in Nat, c \in Nat : a = p["YES"] /\ b = p["NO"] /\ c = p["INVALID"]
    BY DEF Books, Paper!Outcome, Paper!Side
  <1>2. CASE s = "YES"
    <2>1. q["YES"] = a + x /\ q["NO"] = b /\ q["INVALID"] = c
      BY <1>1, <1>2 DEF Books, Paper!Outcome, Paper!Side
    <2>2. QED
      BY <1>1, <2>1 DEF PoolsAdd
  <1>3. CASE s = "NO"
    <2>1. q["YES"] = a /\ q["NO"] = b + x /\ q["INVALID"] = c
      BY <1>1, <1>3 DEF Books, Paper!Outcome, Paper!Side
    <2>2. QED
      BY <1>1, <2>1 DEF PoolsAdd
  <1>4. CASE s = "INVALID"
    <2>1. q["YES"] = a /\ q["NO"] = b /\ q["INVALID"] = c + x
      BY <1>1, <1>4 DEF Books, Paper!Outcome, Paper!Side
    <2>2. QED
      BY <1>1, <2>1 DEF PoolsAdd
  <1>5. QED
    BY <1>2, <1>3, <1>4 DEF Paper!Outcome, Paper!Side, PoolsAdd

LEMMA StakedIsGood ==
    ASSUME NEW m, NEW n, Good(m, n), m.phase \in Live, NEW u \in Accounts, NEW s \in Paper!Outcome,
           NEW k \in Nat \ {0},
           m.accounts[u].side \in {Nobody, s}, k <= m.accounts[u].wallet, NEW r, r = Paper!Staked(m, u, s, k)
    PROVE  Good(r, n) /\ r.phase = m.phase
  <1>0. WellTyped(m) /\ Parts(m, n) /\ OnCurve(m) /\ VaultAdds(m, n) /\ NothingOwed(m) /\ m.phase \in Before
        /\ k \in Nat /\ k \in Int
    BY DEF Good, Parts, Live, Before
  <1>1. m.core \in Cores /\ m.core.pool \in Books /\ m.core.cash \in Nat /\ m.core.fees \in Nat
        /\ m.core.pool[s] \in Nat
    BY <1>0, TypedIs, SumsAre DEF Books
  <1>2. PICK j : j = Paper!Pay(m, u, k)
    OBVIOUS
  <1>3. /\ Same(m, j, {"accounts"}) /\ SameAccount(m, j, u, {"wallet"}) /\ WellTyped(j)
        /\ j.accounts[u].wallet = m.accounts[u].wallet - k
    BY <1>0, <1>2, PayGives
  <1>4. j.core = m.core /\ j.accounts[u].stake = m.accounts[u].stake /\ j.accounts[u].side = m.accounts[u].side
    BY <1>3, FieldsAre DEF Same, SameAccount, Own
  <1>5. PICK x \in Nat : x = m.accounts[u].stake + k
    <2>1. m.accounts[u].stake \in Nat
      BY <1>0, AccountIs
    <2>2. m.accounts[u].stake + k \in Nat
      BY <2>1
    <2>3. QED
      BY <2>2
  <1>6. PICK b : b = [j.accounts[u] EXCEPT !.side = s, !.stake = x]
    OBVIOUS
  <1>7. b \in AccountRecords /\ b.side = s /\ b.stake = x
        /\ \A y \in Own \ {"side", "stake"} : b[y] = j.accounts[u][y]
    BY <1>3, <1>6, AccountIs DEF AccountRecords, Own
  <1>8. PICK as : as = [j.accounts EXCEPT ![u] = b]
    OBVIOUS
  <1>9. as \in [Accounts -> AccountRecords] /\ as[u] = b /\ \A v \in Accounts : v # u => as[v] = j.accounts[v]
    BY <1>3, <1>7, <1>8, TypedIs
  <1>10. PICK pool : pool = [m.core.pool EXCEPT ![s] = @ + k]
    OBVIOUS
  <1>11. pool \in Books /\ pool[s] = m.core.pool[s] + k /\ \A t \in Paper!Outcome : t # s
        => pool[t] = m.core.pool[t]
    BY <1>0, <1>1, <1>10 DEF Books
  <1>12. PICK c \in Nat : c = m.core.cash + k
    <2>1. m.core.cash + k \in Nat
      BY <1>1
    <2>2. QED
      BY <2>1
  <1>13. PICK core : core = [m.core EXCEPT !.cash = c, !.pool = pool]
    OBVIOUS
  <1>14. core \in Cores /\ core.cash = c /\ core.pool = pool /\ core.fees = m.core.fees
        /\ core.official = m.core.official
    BY <1>1, <1>11, <1>13 DEF Cores
  <1>15. r = [j EXCEPT !.accounts = as, !.core = core]
    <2>1. r = [j EXCEPT !.accounts[u].side = s, !.accounts[u].stake = @ + k, !.core.cash = @ + k, !.core.pool[s]
          = @ + k]
      BY <1>2 DEF Paper!Staked
    <2>2. PICK a1 : a1 = [j.accounts[u] EXCEPT !.side = s]
      OBVIOUS
    <2>3. a1.stake = j.accounts[u].stake
      BY <1>3, <2>2, AccountIs DEF AccountRecords
    <2>4. b = [a1 EXCEPT !.stake = x]
      BY <1>6, <2>2
    <2>6. as = [[j.accounts EXCEPT ![u] = a1] EXCEPT ![u] = b]
      BY <1>3, <1>8, TypedIs
    <2>7. PICK a2 : a2 = [j.accounts EXCEPT ![u] = a1]
      OBVIOUS
    <2>8. a2[u] = a1
      BY <1>3, <2>7, TypedIs
    <2>9. as = [a2 EXCEPT ![u].stake = x]
      BY <2>4, <2>6, <2>7, <2>8
    <2>10. as = [[j.accounts EXCEPT ![u].side = s] EXCEPT ![u].stake = x]
      BY <2>2, <2>7, <2>9
    <2>11. PICK c1 : c1 = [m.core EXCEPT !.cash = c]
      OBVIOUS
    <2>12. c1.pool = m.core.pool
      BY <1>1, <2>11 DEF Cores
    <2>13. core = [c1 EXCEPT !.pool[s] = m.core.pool[s] + k]
      BY <1>10, <1>13, <2>11, <2>12
    <2>14. core = [[m.core EXCEPT !.cash = c] EXCEPT !.pool[s] = m.core.pool[s] + k]
      BY <2>11, <2>13
    <2>15. PICK j1 : j1 = [j EXCEPT !.accounts[u].side = s]
      OBVIOUS
    <2>16. PICK j2 : j2 = [j1 EXCEPT !.accounts[u].stake = x]
      OBVIOUS
    <2>17. PICK j3 : j3 = [j2 EXCEPT !.core.cash = c]
      OBVIOUS
    <2>18a. PICK z : z = m.core.pool[s] + k
      OBVIOUS
    <2>18b. r = [j EXCEPT !.accounts[u].side = s, !.accounts[u].stake = x, !.core.cash = c, !.core.pool[s] = z]
      BY <1>4, <1>5, <1>12, <2>1, <2>18a
    <2>18. r = [j3 EXCEPT !.core.pool[s] = z]
      BY ONLY <2>15, <2>16, <2>17, <2>18b
    <2>19. j1 = [j EXCEPT !.accounts = [j.accounts EXCEPT ![u].side = s]]
      BY ONLY <2>15, Zenon
    <2>20. j1.accounts = [j.accounts EXCEPT ![u].side = s]
      <3>1. PICK w : w = [j.accounts EXCEPT ![u].side = s]
        OBVIOUS
      <3>2. j1 = [j EXCEPT !.accounts = w]
        BY <2>19, <3>1, Zenon
      <3>3. "accounts" \in DOMAIN j
        BY <1>3, TypedIs, FieldsAre
      <3>4. j1.accounts = w
        BY <3>2, <3>3
      <3>5. QED
        BY <3>1, <3>4
    <2>21. j2 = [j1 EXCEPT !.accounts = as]
      BY <2>10, <2>16, <2>20
    <2>22. j2 = [j EXCEPT !.accounts = as]
      BY <2>19, <2>21
    <2>23. j2.core = m.core
      BY <1>3, <1>4, <2>22, TypedIs, FieldsAre
    <2>24. j3 = [j2 EXCEPT !.core = [m.core EXCEPT !.cash = c]]
      BY <2>17, <2>23
    <2>25. j3.core = [m.core EXCEPT !.cash = c]
      BY <1>3, <2>22, <2>24, TypedIs, FieldsAre
    <2>26. r = [j3 EXCEPT !.core = core]
      BY <2>14, <2>18, <2>18a, <2>25
    <2>27. r = [j2 EXCEPT !.core = core]
      BY <2>24, <2>26
    <2>28. QED
      BY <2>22, <2>27
  <1>16. Same(j, r, {"accounts", "core"}) /\ r.accounts = as /\ r.core = core
    BY <1>3, <1>15, TypedIs, FieldsAre DEF Same
  <1>17. WellTyped(r)
    <2>1. r["accounts"] \in Shape["accounts"] /\ r["core"] \in Shape["core"]
      BY <1>9, <1>14, <1>16 DEF Shape
    <2>2. \A y \in {"accounts", "core"} : r[y] \in Shape[y]
      BY <2>1
    <2>3. QED
      BY <1>3, <1>16, <2>2, TypedKept
  <1>18. SameAccount(j, r, u, {"side", "stake"}) /\ r.accounts[u].side = s /\ r.accounts[u].stake = x
    BY <1>7, <1>9, <1>16 DEF SameAccount
  <1>19. SameAccount(m, r, u, {"wallet"} \cup {"side", "stake"})
    BY <1>3, <1>18, SameAccountTwice
  <1>20. AllBut(m, r, {"wallet"} \cup {"side", "stake"})
    BY <1>19, SameAccountIsAllBut
  <1>21. /\ r.phase = m.phase /\ r.early = m.early /\ r.budget = m.budget /\ r.payouts = m.payouts
         /\ r.R = m.R /\ r.b = m.b /\ r.M0 = m.M0 /\ r.lpSupply = m.lpSupply /\ r.cash = m.cash
         /\ r.lpFees = m.lpFees /\ r.protocolFees = m.protocolFees /\ r.creatorFees = m.creatorFees
    BY <1>3, <1>16, FieldsAre DEF Same
  <1>22. OnCurve(r) /\ NothingOwed(r)
    <2>1. AllBut(m, r, Own \ {"lp", "held"}) /\ AllBut(m, r, Own \ {"claimed"})
      BY <1>20 DEF AllBut, Own
    <2>2. QED
      BY <1>0, <1>21, <2>1, CurveKept, NothingOwedKept
  <1>23. VaultAdds(r, n)
    <2>1. StakeShifts(m, r, u)
      BY <1>0, <1>17, <1>19, StakeOfMoves
    <2>2. PICK z \in Nat : z = m.accounts[u].stake
      BY <1>0, AccountIs
    <2>3. m.accounts[u].side = Nobody => z = 0
      BY <1>0, <2>2 DEF VaultAdds
    <2>4. ASSUME NEW t \in Paper!Outcome PROVE r.core.pool[t] = StakeOf(r.accounts, t)
      <3>1. StakeOf(r.accounts, t) + On(m.accounts[u], t) = StakeOf(m.accounts, t) + On(r.accounts[u], t)
        BY <2>1, Zenon DEF StakeShifts
      <3>2. m.core.pool[t] = StakeOf(m.accounts, t) /\ StakeOf(m.accounts, t) \in Nat
            /\ StakeOf(r.accounts, t) \in Nat
        BY <1>0, <1>17, SumsAre DEF VaultAdds
      <3>3. t # Nobody
        BY Constants
      <3>4. CASE t = s
        <4>1. On(r.accounts[u], t) = z + k
          <5>1. r.accounts[u].side = t /\ r.accounts[u].stake = z + k
            BY <1>5, <1>18, <2>2, <3>4
          <5>2. QED
            BY <5>1 DEF On
        <4>2. On(m.accounts[u], t) = z
          BY <2>2, <2>3, <3>3, <3>4 DEF On
        <4>3. r.core.pool[t] = m.core.pool[t] + k
          BY <1>11, <1>14, <1>16, <3>4
        <4>4. QED
          BY <3>1, <3>2, <4>1, <4>2, <4>3
      <3>5. CASE t # s
        <4>1. On(r.accounts[u], t) = 0 /\ On(m.accounts[u], t) = 0
          BY <1>18, <3>3, <3>5 DEF On
        <4>2. r.core.pool[t] = m.core.pool[t]
          BY <1>11, <1>14, <1>16, <3>5
        <4>3. QED
          BY <3>1, <3>2, <4>1, <4>2
      <3>6. QED
        BY <3>4, <3>5
    <2>5. r.core.cash = r.core.pool["YES"] + r.core.pool["NO"] + r.core.pool["INVALID"]
      <3>1. pool["YES"] + pool["NO"] + pool["INVALID"]
            = m.core.pool["YES"] + m.core.pool["NO"] + m.core.pool["INVALID"] + k
        <4>1. PICK p \in Books, i \in Int : p = m.core.pool /\ i = k
          BY <1>0, <1>1
        <4>2. pool = [p EXCEPT ![s] = @ + i] /\ pool \in Books
          BY <1>10, <1>11, <4>1
        <4>3. PoolsAdd(p, pool, i)
          BY <4>2, PoolMoves
        <4>4. QED
          BY <4>1, <4>3, Zenon DEF PoolsAdd
      <3>2. m.core.cash = m.core.pool["YES"] + m.core.pool["NO"] + m.core.pool["INVALID"]
        BY <1>0 DEF VaultAdds
      <3>3. QED
        BY <1>12, <1>14, <1>16, <3>1, <3>2
    <2>6. ASSUME NEW v \in Accounts, r.accounts[v].side = Nobody PROVE r.accounts[v].stake = 0
      <3>1. s # Nobody
        BY Constants
      <3>2. v # u /\ r.accounts[v] = m.accounts[v]
        BY <1>18, <1>19, <2>6, <3>1 DEF SameAccount
      <3>3. QED
        BY <1>0, <2>6, <3>2 DEF VaultAdds
    <2>7. ASSUME NEW i \in Paper!Outcome PROVE FeesOf(r, i) = FeesOf(m, i)
      <3>1. \A v \in Accounts : r.accounts[v].reward = m.accounts[v].reward
        BY <1>20 DEF AllBut, Own
      <3>2. RewardOf(r.accounts, i) = RewardOf(m.accounts, i)
        BY <3>1, SumsAgree
      <3>3. QED
        BY <1>14, <1>16, <1>21, <3>2 DEF FeesOf
    <2>8. r.core.fees = m.core.fees
      BY <1>14, <1>16
    <2>9. QED
      BY <1>0, <1>21, <2>4, <2>5, <2>6, <2>7, <2>8 DEF VaultAdds
  <1>24. Parts(r, n)
    BY <1>21, <1>22, <1>23 DEF Parts, OnParabola, OwedIsKept, Live
  <1>25. /\ Col(r.accounts, "wallet") + m.accounts[u]["wallet"]
            = Col(m.accounts, "wallet") + r.accounts[u]["wallet"]
         /\ Col(r.accounts, "refund") = Col(m.accounts, "refund")
    <2>1. ColsShift(m, r, u) /\ ColsKept(m, r, {"wallet"} \cup {"side", "stake"})
      BY <1>0, <1>17, <1>19, ColsMove
    <2>2. QED
      BY SMTT(20), <2>1 DEF ColsShift, ColsKept, Sums
  <1>26. r.accounts[u].wallet = m.accounts[u].wallet - k /\ m.accounts[u].wallet \in Nat
    BY <1>0, <1>3, <1>18, AccountIs DEF SameAccount, Own
  <1>27. Col(r.accounts, "wallet") \in Nat /\ Col(m.accounts, "wallet") \in Nat
        /\ Col(m.accounts, "refund") \in Nat
    BY <1>0, <1>17, SumsAre
  <1>28. Money(r) = Money(m)
    <2>1. Purses(r) + k = Purses(m)
      BY SMTT(30), <1>25, <1>26, <1>27 DEF Purses
    <2>2. Vaulted(r) = Vaulted(m) + k
      BY <1>1, <1>12, <1>14, <1>16 DEF Vaulted
    <2>3. Traded(r) = Traded(m) /\ Escrow(r) = Escrow(m) /\ Debts(r) = Debts(m)
      BY <1>21 DEF Traded, Escrow, Debts, Pending
    <2>5. Purses(m) \in Nat /\ Purses(r) \in Nat /\ Escrow(m) \in Nat /\ Traded(m) \in Nat /\ Vaulted(m) \in Nat
          /\ Debts(m) \in Nat
      BY <1>0, <1>17, MoneyType
    <2>6. QED
      BY <2>1, <2>2, <2>3, <2>5 DEF Money
  <1>29. QED
    BY <1>17, <1>21, <1>24, <1>28, GoodKept

LEMMA PenaltyIs == ASSUME NEW n \in Nat \ {0} PROVE Paper!Penalty(n) \in Nat /\ Paper!Penalty(n) <= n
  <1>1. PICK y \in Nat : y = (n + 9) \div 10
    <2>1. (n + 9) \div 10 \in Nat
      OBVIOUS
    <2>2. QED
      BY <2>1
  <1>2. \E z \in {n, y} : \A w \in {n, y} : z <= w
    <2>1. CASE n <= y
      BY <2>1
    <2>2. CASE y <= n
      BY <2>2
    <2>3. QED
      BY <2>1, <2>2
  <1>3. Paper!Min({n, y}) \in {n, y} /\ \A w \in {n, y} : Paper!Min({n, y}) <= w
    BY <1>2 DEF Paper!Min
  <1>4. Paper!Penalty(n) = Paper!Min({n, y})
    BY <1>1 DEF Paper!Penalty
  <1>5. QED
    BY <1>3, <1>4

Left(m, u) ==
    LET a == m.accounts[u]
    IN  [m EXCEPT
                !.early.penalty = @ + Paper!Penalty(a.stake),
                !.early.forfeited = [i \in Paper!Outcome |-> @[i] + a.reward[i]],
                !.core.cash = @ - a.stake, !.core.pool[a.side] = @ - a.stake,
                !.accounts[u] = [a EXCEPT !.side = Nobody, !.stake = 0, !.reward = Paper!Nothing, !.claimed
                      = FALSE]]

\* What the parts of the document are when the player has left.
LeftBehind(m, l, u, s, x, p) ==
    /\ Same(m, l, {"early", "core", "accounts"}) /\ WellTyped(l)
       /\ SameAccount(m, l, u, {"side", "stake", "reward", "claimed"})
    /\ l.accounts[u].side = Nobody /\ l.accounts[u].stake = 0 /\ l.accounts[u].reward = Paper!Nothing
       /\ l.accounts[u].claimed = FALSE
    /\ l.early.pending = m.early.pending /\ l.early.penalty = m.early.penalty + p
       /\ l.early.failed = m.early.failed
    /\ \A i \in Paper!Outcome : l.early.forfeited[i] = m.early.forfeited[i] + m.accounts[u].reward[i]
    /\ l.core.cash + x = m.core.cash /\ l.core.fees = m.core.fees /\ l.core.official = m.core.official
    /\ l.core.pool \in Books /\ l.core.pool = [m.core.pool EXCEPT ![s] = @ + (-x)]

LEMMA LeftIs ==
    ASSUME NEW m, WellTyped(m), NEW u \in Accounts, NEW s \in Paper!Outcome, s = m.accounts[u].side,
           NEW x \in Nat, x = m.accounts[u].stake,
           NEW p \in Nat, p = Paper!Penalty(x), x <= m.core.cash, x <= m.core.pool[s], NEW l, l = Left(m, u)
    PROVE  LeftBehind(m, l, u, s, x, p)
  <1>1. m.core \in Cores /\ m.early \in Earlies /\ m.accounts \in [Accounts -> AccountRecords]
        /\ m.core.cash \in Nat
        /\ m.core.pool \in Books /\ m.early.penalty \in Nat /\ m.early.forfeited \in Books
           /\ m.accounts[u].reward \in Books
    BY TypedIs, SumsAre, AccountIs
  <1>2. PICK b : b = [m.accounts[u] EXCEPT !.side = Nobody, !.stake = 0, !.reward = Paper!Nothing, !.claimed
        = FALSE]
    OBVIOUS
  <1>3. Paper!Nothing \in Books
    BY DEF Paper!Nothing, Books
  <1>4. b \in AccountRecords /\ b.side = Nobody /\ b.stake = 0 /\ b.reward = Paper!Nothing /\ b.claimed = FALSE
        /\ \A f \in Own \ {"side", "stake", "reward", "claimed"} : b[f] = m.accounts[u][f]
    BY <1>2, <1>3, AccountIs DEF AccountRecords, Own
  <1>5. PICK as : as = [m.accounts EXCEPT ![u] = b]
    OBVIOUS
  <1>6. as \in [Accounts -> AccountRecords] /\ as[u] = b /\ \A v \in Accounts : v # u => as[v] = m.accounts[v]
    BY <1>1, <1>4, <1>5
  <1>7. PICK pen \in Nat, cc \in Nat : pen = m.early.penalty + p /\ cc = m.core.cash - x
    <2>1. m.early.penalty + p \in Nat /\ m.core.cash - x \in Nat
      BY <1>1
    <2>2. QED
      BY <2>1
  <1>8. PICK ff : ff = [i \in Paper!Outcome |-> m.early.forfeited[i] + m.accounts[u].reward[i]]
    OBVIOUS
  <1>9. ff \in Books /\ \A i \in Paper!Outcome : ff[i] = m.early.forfeited[i] + m.accounts[u].reward[i]
    <2>1. ASSUME NEW i \in Paper!Outcome PROVE m.early.forfeited[i] + m.accounts[u].reward[i] \in Nat
      <3>1. m.early.forfeited[i] \in Nat /\ m.accounts[u].reward[i] \in Nat
        BY <1>1 DEF Books
      <3>2. QED
        BY <3>1
    <2>2. QED
      BY <1>8, <2>1 DEF Books
  <1>10. PICK pp \in Nat : pp = m.core.pool[s] - x
    <2>1. m.core.pool[s] \in Nat
      BY <1>1 DEF Books
    <2>2. m.core.pool[s] - x \in Nat
      BY <2>1
    <2>3. QED
      BY <2>2
  <1>11. PICK pool : pool = [m.core.pool EXCEPT ![s] = pp]
    OBVIOUS
  <1>12. pool \in Books /\ pool = [m.core.pool EXCEPT ![s] = @ + (-x)]
    <2>1. m.core.pool[s] \in Nat
      BY <1>1 DEF Books
    <2>2. pp = m.core.pool[s] + (-x)
      BY <1>10, <2>1
    <2>3. QED
      BY <1>1, <1>11, <2>2 DEF Books
  <1>13. PICK e1 : e1 = [m.early EXCEPT !.penalty = pen]
    OBVIOUS
  <1>14. PICK e : e = [e1 EXCEPT !.forfeited = ff]
    OBVIOUS
  <1>15. e \in Earlies /\ e.pending = m.early.pending /\ e.penalty = pen /\ e.failed = m.early.failed
        /\ e.forfeited = ff
    BY <1>1, <1>9, <1>13, <1>14 DEF Earlies
  <1>16. PICK c1 : c1 = [m.core EXCEPT !.cash = cc]
    OBVIOUS
  <1>17. c1.pool = m.core.pool
    BY <1>1, <1>16 DEF Cores
  <1>18. PICK c : c = [c1 EXCEPT !.pool = pool]
    OBVIOUS
  <1>19. c \in Cores /\ c.cash = cc /\ c.pool = pool /\ c.fees = m.core.fees /\ c.official = m.core.official
    BY <1>1, <1>12, <1>16, <1>18 DEF Cores
  <1>20. l = [m EXCEPT !.early = e, !.core = c, !.accounts = as]
    <2>1. l = [m EXCEPT !.early.penalty = pen, !.early.forfeited = ff, !.core.cash = cc, !.core.pool[s] = pp,
          !.accounts[u] = b]
      BY <1>2, <1>7, <1>8, <1>10 DEF Left
    <2>2. PICK j1 : j1 = [m EXCEPT !.early.penalty = pen]
      OBVIOUS
    <2>3. PICK j2 : j2 = [j1 EXCEPT !.early.forfeited = ff]
      OBVIOUS
    <2>4. PICK j3 : j3 = [j2 EXCEPT !.core.cash = cc]
      OBVIOUS
    <2>5. PICK j4 : j4 = [j3 EXCEPT !.core.pool[s] = pp]
      OBVIOUS
    <2>6. l = [j4 EXCEPT !.accounts[u] = b]
      BY ONLY <2>1, <2>2, <2>3, <2>4, <2>5
    <2>7. j1 = [m EXCEPT !.early = e1] /\ j1.early = e1
      BY <1>13, <2>2, TypedIs, FieldsAre
    <2>8. j2 = [j1 EXCEPT !.early = e]
      BY <1>14, <2>3, <2>7
    <2>9. j2 = [m EXCEPT !.early = e] /\ j2.core = m.core
      <3>1. j2 = [m EXCEPT !.early = e]
        BY <2>7, <2>8
      <3>2. QED
        BY <3>1, TypedIs, FieldsAre
    <2>10. j3 = [j2 EXCEPT !.core = c1]
      BY <1>16, <2>4, <2>9
    <2>11. j3.core = c1
      BY <2>9, <2>10, TypedIs, FieldsAre
    <2>12. c = [c1 EXCEPT !.pool[s] = pp]
      BY <1>11, <1>17, <1>18
    <2>13. j4 = [j3 EXCEPT !.core = c]
      BY <2>5, <2>11, <2>12
    <2>14. j4 = [m EXCEPT !.early = e, !.core = c]
      BY <2>9, <2>10, <2>13
    <2>15. j4.accounts = m.accounts
      BY <2>14, TypedIs, FieldsAre
    <2>16. l = [j4 EXCEPT !.accounts = as]
      BY <1>5, <2>6, <2>15
    <2>17. QED
      BY SMTT(30), <2>14, <2>16
  <1>21. Same(m, l, {"early", "core", "accounts"}) /\ l.early = e /\ l.core = c /\ l.accounts = as
    BY <1>20, TypedIs, FieldsAre DEF Same
  <1>22. WellTyped(l)
    <2>1. l["early"] \in Shape["early"] /\ l["core"] \in Shape["core"] /\ l["accounts"] \in Shape["accounts"]
      BY <1>6, <1>15, <1>19, <1>21 DEF Shape
    <2>2. \A y \in {"early", "core", "accounts"} : l[y] \in Shape[y]
      BY <2>1
    <2>3. QED
      BY <1>21, <2>2, TypedKept
  <1>23. SameAccount(m, l, u, {"side", "stake", "reward", "claimed"})
    BY <1>4, <1>6, <1>21 DEF SameAccount
  <1>24. /\ l.accounts[u].side = Nobody /\ l.accounts[u].stake = 0 /\ l.accounts[u].reward = Paper!Nothing
         /\ l.accounts[u].claimed = FALSE
    BY <1>4, <1>6, <1>21
  <1>25. /\ l.early.pending = m.early.pending /\ l.early.penalty = m.early.penalty + p
            /\ l.early.failed = m.early.failed
         /\ \A i \in Paper!Outcome : l.early.forfeited[i] = m.early.forfeited[i] + m.accounts[u].reward[i]
    BY <1>7, <1>9, <1>15, <1>21
  <1>26. /\ l.core.cash + x = m.core.cash /\ l.core.fees = m.core.fees /\ l.core.official = m.core.official
         /\ l.core.pool \in Books /\ l.core.pool = [m.core.pool EXCEPT ![s] = @ + (-x)]
    <2>1. l.core.cash = cc /\ cc + x = m.core.cash
      BY <1>1, <1>7, <1>19, <1>21
    <2>2. QED
      BY <1>12, <1>19, <1>21, <2>1
  <1>27. QED
    BY <1>21, <1>22, <1>23, <1>24, <1>25, <1>26 DEF LeftBehind

RewardShifts(m, l, u) ==
    \A i \in Paper!Outcome : RewardOf(l.accounts, i) + m.accounts[u].reward[i]
          = RewardOf(m.accounts, i) + l.accounts[u].reward[i]
LEMMA RewardOfMoves ==
    ASSUME NEW m, WellTyped(m), NEW l, WellTyped(l), NEW u \in Accounts, NEW but, SameAccount(m, l, u, but)
    PROVE  RewardShifts(m, l, u)
  BY AccountMoves DEF RewardShifts

LEMMA LeftKeepsVault ==
    ASSUME NEW m, NEW n, WellTyped(m), VaultAdds(m, n), m.phase \in Before, NEW u \in Accounts,
           NEW s \in Paper!Outcome,
           s = m.accounts[u].side, NEW x \in Nat, x = m.accounts[u].stake, NEW p \in Nat, NEW l,
                 LeftBehind(m, l, u, s, x, p)
    PROVE  VaultAdds(l, n)
  <1>0. WellTyped(l) /\ SameAccount(m, l, u, {"side", "stake", "reward", "claimed"}) /\ l.phase = m.phase
    BY FieldsAre DEF LeftBehind, Same
  <1>1. PICK p0 \in Books, p1 \in Books : p0 = m.core.pool /\ p1 = l.core.pool
    BY SumsAre DEF LeftBehind
  <1>1a. -x \in Int /\ p0[s] \in Nat
    BY <1>1 DEF Books
  <1>1b. PICK y \in Int : y = -x
    BY <1>1a
  <1>2. p1 = [p0 EXCEPT ![s] = @ + y]
    BY <1>1, <1>1b DEF LeftBehind
  <1>3. p1[s] + x = p0[s] /\ p1[s] \in Nat /\ \A t \in Paper!Outcome : t # s => p1[t] = p0[t]
    BY <1>1, <1>1a, <1>1b, <1>2 DEF Books
  <1>4. StakeShifts(m, l, u) /\ RewardShifts(m, l, u)
    BY <1>0, StakeOfMoves, RewardOfMoves
  <1>5. s # Nobody
    BY Constants
  <1>6. ASSUME NEW t \in Paper!Outcome PROVE p1[t] = StakeOf(l.accounts, t)
    <2>1. StakeOf(l.accounts, t) + On(m.accounts[u], t) = StakeOf(m.accounts, t) + On(l.accounts[u], t)
      BY <1>4, Zenon DEF StakeShifts
    <2>2. t # Nobody /\ l.accounts[u].side = Nobody
      BY Constants DEF LeftBehind
    <2>3. On(l.accounts[u], t) = 0
      BY <2>2 DEF On
    <2>4. p0[t] = StakeOf(m.accounts, t) /\ StakeOf(m.accounts, t) \in Nat /\ StakeOf(l.accounts, t) \in Nat
      BY <1>0, <1>1, SumsAre DEF VaultAdds
    <2>5. CASE t = s
      <3>1. On(m.accounts[u], t) = x
        BY <2>5 DEF On
      <3>2. QED
        BY <1>3, <2>1, <2>3, <2>4, <2>5, <3>1
    <2>6. CASE t # s
      <3>1. On(m.accounts[u], t) = 0
        BY <2>6 DEF On
      <3>2. QED
        BY <1>3, <2>1, <2>3, <2>4, <2>6, <3>1
    <2>7. QED
      BY <2>5, <2>6
  <1>7. l.core.cash = p1["YES"] + p1["NO"] + p1["INVALID"]
    <2>1. PoolsAdd(p0, p1, y)
      BY <1>2, PoolMoves
    <2>2. PICK a, b, c, d, e, f \in Nat : a = p0["YES"] /\ b = p0["NO"] /\ c = p0["INVALID"] /\ d = p1["YES"]
          /\ e = p1["NO"] /\ f = p1["INVALID"]
      BY <1>1 DEF Books, Paper!Outcome, Paper!Side
    <2>3. d + e + f = a + b + c + y
      BY <2>1, <2>2, Zenon DEF PoolsAdd
    <2>4. m.core.cash = a + b + c
      BY <1>1, <2>2, Zenon DEF VaultAdds
    <2>5. l.core.cash + x = m.core.cash /\ l.core.cash \in Nat
      BY <1>0, SumsAre DEF LeftBehind
    <2>6. l.core.cash = d + e + f
      BY <1>1b, <2>3, <2>4, <2>5
    <2>7. QED
      BY <2>2, <2>6
  <1>8. ASSUME NEW v \in Accounts, l.accounts[v].side = Nobody PROVE l.accounts[v].stake = 0
    <2>1. CASE v = u
      BY <2>1 DEF LeftBehind
    <2>2. CASE v # u
      <3>1. l.accounts[v] = m.accounts[v]
        BY <1>0, <2>2 DEF SameAccount
      <3>2. QED
        BY <1>8, <3>1 DEF VaultAdds
    <2>3. QED
      BY <2>1, <2>2
  <1>9. ASSUME NEW i \in Paper!Outcome PROVE FeesOf(l, i) = FeesOf(m, i)
    <2>1. RewardOf(l.accounts, i) + m.accounts[u].reward[i] = RewardOf(m.accounts, i) + l.accounts[u].reward[i]
      BY <1>4, Zenon DEF RewardShifts
    <2>2. l.accounts[u].reward = Paper!Nothing /\ Paper!Nothing[i] = 0
      BY DEF LeftBehind, Paper!Nothing
    <2>3. /\ l.early.forfeited[i] = m.early.forfeited[i] + m.accounts[u].reward[i]
          /\ l.core.official = m.core.official
      BY DEF LeftBehind
    <2>4. m.accounts[u].reward[i] \in Nat /\ m.early.forfeited[i] \in Nat /\ m.core.official[i] \in Nat
      <3>1. m.accounts[u].reward \in Books /\ m.early.forfeited \in Books /\ m.core.official \in Books
        BY AccountIs, SumsAre
      <3>2. QED
        BY <3>1 DEF Books
    <2>5. RewardOf(l.accounts, i) \in Nat /\ RewardOf(m.accounts, i) \in Nat
      BY <1>0, SumsAre
    <2>6. PICK a, b, c, d, e \in Nat :
            a = m.accounts[u].reward[i] /\ b = m.early.forfeited[i] /\ c = m.core.official[i]
            /\ d = RewardOf(l.accounts, i) /\ e = RewardOf(m.accounts, i)
      BY <2>4, <2>5
    <2>7. d + a = e + 0
      BY <2>1, <2>2, <2>6
    <2>8. FeesOf(l, i) = d + (b + a) + c /\ FeesOf(m, i) = e + b + c
      BY <2>3, <2>6, Zenon DEF FeesOf
    <2>9. QED
      BY <2>7, <2>8
  <1>10. l.core.fees = m.core.fees
    BY DEF LeftBehind
  <1>11. QED
    BY <1>0, <1>1, <1>6, <1>7, <1>8, <1>9, <1>10 DEF VaultAdds

Exited(m, u) == Paper!Receive(Left(m, u), u, m.accounts[u].stake - Paper!Penalty(m.accounts[u].stake))
LEMMA ExitedIsGood ==
    ASSUME NEW m, NEW n, Good(m, n), m.phase \in Live, NEW u \in Accounts, m.accounts[u].stake > 0, NEW r,
           r = Exited(m, u)
    PROVE  Good(r, n)
  <1>0. WellTyped(m) /\ Parts(m, n) /\ OnCurve(m) /\ VaultAdds(m, n) /\ NothingOwed(m) /\ m.phase \in Before
    BY DEF Good, Parts, Live, Before
  <1>1. PICK x \in Nat \ {0} : x = m.accounts[u].stake
    <2>1. m.accounts[u].stake \in Nat
      BY <1>0, AccountIs
    <2>2. QED
      BY <2>1
  <1>2. PICK p \in Nat : p = Paper!Penalty(x)
    BY PenaltyIs
  <1>3. p <= x /\ x \in Nat
    BY <1>2, PenaltyIs
  <1>4. PICK s \in Paper!Outcome : s = m.accounts[u].side
    <2>1. m.accounts[u].side \in Paper!Outcome \cup {Nobody}
      BY <1>0, AccountIs
    <2>2. m.accounts[u].side = Nobody => x = 0
      BY <1>0, <1>1 DEF VaultAdds
    <2>3. QED
      BY <1>1, <2>1, <2>2
  <1>5. x <= m.core.pool[s] /\ x <= m.core.cash
    <2>1. On(m.accounts[u], s) <= StakeOf(m.accounts, s)
      <3>1. m.accounts \in [Accounts -> AccountRecords]
        BY <1>0, TypedIs
      <3>2. QED
        BY <3>1, SumsAreNaturals
    <2>2. On(m.accounts[u], s) = x
      BY <1>1, <1>4 DEF On
    <2>3. x <= m.core.pool[s]
      BY <1>0, <2>1, <2>2 DEF VaultAdds
    <2>4. PICK pool \in Books : pool = m.core.pool
      BY <1>0, SumsAre
    <2>5. pool[s] <= pool["YES"] + pool["NO"] + pool["INVALID"]
      BY DEF Books, Paper!Outcome, Paper!Side
    <2>6. m.core.cash = pool["YES"] + pool["NO"] + pool["INVALID"]
      BY <1>0, <2>4, Zenon DEF VaultAdds
    <2>7. pool[s] \in Nat /\ m.core.cash \in Nat
      BY <1>0, SumsAre DEF Books
    <2>8. QED
      BY <2>3, <2>4, <2>5, <2>6, <2>7
  <1>6. PICK l : l = Left(m, u)
    OBVIOUS
  <1>7. LeftBehind(m, l, u, s, x, p)
    BY <1>0, <1>1, <1>2, <1>3, <1>4, <1>5, <1>6, LeftIs
  <1>8. VaultAdds(l, n)
    BY <1>0, <1>1, <1>3, <1>4, <1>7, LeftKeepsVault
  <1>9. Same(m, l, {"early", "core", "accounts"}) /\ WellTyped(l)
        /\ SameAccount(m, l, u, {"side", "stake", "reward", "claimed"})
    BY <1>7 DEF LeftBehind
  <1>10. /\ l.phase = m.phase /\ l.budget = m.budget /\ l.payouts = m.payouts
         /\ l.R = m.R /\ l.b = m.b /\ l.M0 = m.M0 /\ l.lpSupply = m.lpSupply /\ l.cash = m.cash
         /\ l.lpFees = m.lpFees /\ l.protocolFees = m.protocolFees /\ l.creatorFees = m.creatorFees
    BY <1>9, FieldsAre DEF Same
  <1>11. AllBut(m, l, {"side", "stake", "reward", "claimed"})
    BY <1>9, SameAccountIsAllBut
  <1>12. OnCurve(l)
    <2>1. AllBut(m, l, Own \ {"lp", "held"})
      BY <1>11 DEF AllBut, Own
    <2>2. QED
      BY <1>0, <1>10, <2>1, CurveKept
  <1>13. NothingOwed(l)
    <2>1. Debts(l) = Debts(m)
      BY <1>10 DEF Debts
    <2>2. ASSUME NEW v \in Accounts PROVE ~l.accounts[v].claimed /\ l.payouts[v] = 0
      <3>1. CASE v = u
        BY <1>0, <1>7, <1>10, <3>1 DEF LeftBehind, NothingOwed
      <3>2. CASE v # u
        BY <1>0, <1>9, <1>10, <3>2 DEF SameAccount, NothingOwed
      <3>3. QED
        BY <3>1, <3>2
    <2>3. QED
      BY <1>0, <2>1, <2>2 DEF NothingOwed
  <1>14. Parts(l, n)
    BY <1>8, <1>10, <1>12, <1>13 DEF Parts, OnParabola, OwedIsKept, Live
  <1>15. r = Paper!Receive(l, u, x - p) /\ x - p \in Nat
    BY <1>1, <1>2, <1>3, <1>6 DEF Exited
  <1>16. PICK y \in Nat : y = x - p
    BY <1>15
  <1>17. /\ Same(l, r, {"accounts"}) /\ SameAccount(l, r, u, {"wallet"}) /\ WellTyped(r)
         /\ r.accounts[u].wallet = l.accounts[u].wallet + y
    BY <1>9, <1>15, <1>16, ReceiveGives
  <1>18. Parts(r, n)
    <2>1. AllBut(l, r, {"wallet"})
      BY <1>17, SameAccountIsAllBut
    <2>2. AllBut(l, r, {"wallet", "refund"}) /\ Same(l, r,
          {"accounts", "creatorFees", "protocolFees", "now", "early"})
      BY <1>17, <2>1 DEF AllBut, Same
    <2>3. r.early.forfeited = l.early.forfeited
      BY <1>17, FieldsAre DEF Same
    <2>4. QED
      BY <1>9, <1>14, <1>17, <2>2, <2>3, FrameKept
  <1>19. /\ r.phase = m.phase /\ r.budget = m.budget /\ r.R = m.R /\ r.cash = m.cash /\ r.early = l.early
            /\ r.core = l.core
         /\ r.lpFees = m.lpFees /\ r.protocolFees = m.protocolFees /\ r.creatorFees = m.creatorFees
    BY <1>10, <1>17, FieldsAre DEF Same
  <1>20. /\ Col(r.accounts, "wallet") + l.accounts[u]["wallet"]
            = Col(l.accounts, "wallet") + r.accounts[u]["wallet"]
         /\ Col(r.accounts, "refund") = Col(l.accounts, "refund")
    BY <1>9, <1>17, AccountMoves DEF Sums
  <1>21. Col(l.accounts, "wallet") = Col(m.accounts, "wallet")
        /\ Col(l.accounts, "refund") = Col(m.accounts, "refund")
    <2>1. \A v \in Accounts : l.accounts[v]["wallet"] = m.accounts[v]["wallet"]
          /\ l.accounts[v]["refund"] = m.accounts[v]["refund"]
      BY <1>11 DEF AllBut, Own
    <2>2. QED
      BY <2>1, SumsAgree
  <1>22. /\ Col(r.accounts, "wallet") \in Nat /\ Col(m.accounts, "wallet") \in Nat
            /\ Col(m.accounts, "refund") \in Nat
         /\ l.accounts[u].wallet \in Nat
    BY <1>0, <1>9, <1>17, SumsAre, AccountIs
  <1>23. Money(r) = Money(m)
    <2>1. Purses(r) = Purses(m) + y
      BY <1>17, <1>20, <1>21, <1>22 DEF Purses
    <2>2. Traded(r) = Traded(m) /\ Debts(r) = Debts(m)
      BY <1>19 DEF Traded, Debts
    <2>3. Vaulted(r) + x = Vaulted(m)
      <3>1. l.core.cash + x = m.core.cash /\ l.core.fees = m.core.fees
        BY <1>7 DEF LeftBehind
      <3>2. l.core.cash \in Nat /\ l.core.fees \in Nat
        BY <1>9, SumsAre
      <3>3. QED
        BY <1>3, <1>19, <3>1, <3>2 DEF Vaulted
    <2>4. Escrow(r) = Escrow(m) + p
      <3>1. l.early.pending = m.early.pending /\ l.early.penalty = m.early.penalty + p
            /\ l.early.failed = m.early.failed
        BY <1>7 DEF LeftBehind
      <3>2. Pending(r) = Pending(m) /\ Pending(m) \in Nat /\ m.early.penalty \in Nat /\ m.early.failed \in Nat
        BY <1>0, <1>19, <3>1, SumsAre DEF Pending
      <3>3. QED
        BY <1>19, <3>1, <3>2 DEF Escrow
    <2>5. Purses(m) \in Nat /\ Vaulted(r) \in Nat /\ Escrow(m) \in Nat /\ Traded(m) \in Nat /\ Vaulted(m) \in Nat
          /\ Debts(m) \in Nat
      BY <1>0, <1>17, MoneyType
    <2>6. QED
      BY <1>3, <1>16, <2>1, <2>2, <2>3, <2>4, <2>5 DEF Money
  <1>24. QED
    BY <1>17, <1>18, <1>19, <1>23, GoodKept

-----------------------------------------------------------------------------
(* The settlement. *)
LEMMA TotalStakeIs ==
    ASSUME NEW m, NEW n, WellTyped(m), VaultAdds(m, n), m.phase \in Before
    PROVE  Paper!TotalStake(m) = m.core.cash /\ m.core.cash \in Nat
  <1>1. PICK p \in Books : p = m.core.pool
    BY SumsAre
  <1>2. p \in [Paper!Outcome -> Int]
    BY DEF Books
  <1>3. Paper!SumFunction(p) = p["YES"] + p["NO"] + p["INVALID"]
    BY <1>2, SumOfThree
  <1>4. m.core.cash = p["YES"] + p["NO"] + p["INVALID"]
    BY <1>1, Zenon DEF VaultAdds
  <1>5. QED
    BY <1>1, <1>3, <1>4, SumsAre DEF Paper!TotalStake

LEMMA MajorityIs ==
    ASSUME NEW m, NEW n, WellTyped(m), VaultAdds(m, n), m.phase \in Before
    PROVE  /\ Paper!Majority(m) \in Paper!Outcome
           /\ Paper!Majority(m) # "INVALID" => m.core.pool[Paper!Majority(m)] \in Nat \ {0}
  <1>1. PICK y \in Nat, z \in Nat, t \in Nat : y = m.core.pool["YES"] /\ z = m.core.pool["NO"]
        /\ t = Paper!TotalStake(m)
    <2>1. m.core.pool \in Books
      BY SumsAre
    <2>2. m.core.pool["YES"] \in Nat /\ m.core.pool["NO"] \in Nat
      BY <2>1 DEF Books, Paper!Outcome, Paper!Side
    <2>3. QED
      BY <2>2, TotalStakeIs
  <1>2. Paper!Majority(m) = IF 2 * y > t THEN "YES" ELSE IF 2 * z > t THEN "NO" ELSE "INVALID"
    BY <1>1, Zenon DEF Paper!Majority
  <1>3. CASE 2 * y > t
    <2>1. Paper!Majority(m) = "YES" /\ y \in Nat \ {0}
      BY <1>2, <1>3
    <2>2. QED
      BY <1>1, <2>1 DEF Paper!Outcome, Paper!Side
  <1>4. CASE ~(2 * y > t) /\ 2 * z > t
    <2>1. Paper!Majority(m) = "NO" /\ z \in Nat \ {0}
      BY <1>2, <1>4
    <2>2. QED
      BY <1>1, <2>1 DEF Paper!Outcome, Paper!Side
  <1>5. CASE ~(2 * y > t) /\ ~(2 * z > t)
    <2>1. Paper!Majority(m) = "INVALID"
      BY <1>2, <1>5
    <2>2. QED
      BY <2>1 DEF Paper!Outcome
  <1>6. QED
    BY <1>3, <1>4, <1>5

\* Every stake is in a pool.
LEMMA StakesAdd ==
    ASSUME NEW m, NEW n, WellTyped(m), VaultAdds(m, n), m.phase \in Before
    PROVE  Col(m.accounts, "stake") = m.core.cash
  <1> DEFINE x == [u \in Accounts |-> IF m.accounts[u].side = "YES" THEN m.accounts[u].stake ELSE 0]
             y == [u \in Accounts |-> IF m.accounts[u].side = "NO" THEN m.accounts[u].stake ELSE 0]
             z == [u \in Accounts |-> IF m.accounts[u].side = "INVALID" THEN m.accounts[u].stake ELSE 0]
             w == [u \in Accounts |-> x[u] + y[u]]
             a == [u \in Accounts |-> m.accounts[u]["stake"]]
  <1>1. ASSUME NEW u \in Accounts
        PROVE  /\ x[u] \in Nat /\ y[u] \in Nat /\ z[u] \in Nat /\ w[u] \in Nat /\ w[u] = x[u] + y[u]
                  /\ a[u] = w[u] + z[u]
    <2>1. PICK k \in Nat : k = m.accounts[u].stake
      BY AccountIs
    <2>2. m.accounts[u].side \in {"YES", "NO", "INVALID", Nobody} /\ Nobody \notin {"YES", "NO", "INVALID"}
      BY AccountIs, Constants DEF Paper!Outcome, Paper!Side
    <2>3. m.accounts[u].side = Nobody => k = 0
      BY <2>1 DEF VaultAdds
    <2>4. PICK s : s = m.accounts[u].side
      OBVIOUS
    <2>5. /\ x[u] = IF s = "YES" THEN k ELSE 0
          /\ y[u] = IF s = "NO" THEN k ELSE 0
          /\ z[u] = IF s = "INVALID" THEN k ELSE 0
          /\ w[u] = x[u] + y[u] /\ a[u] = k
      BY <2>1, <2>4
    <2> HIDE DEF x, y, z, w, a
    <2>6. QED
      BY <2>2, <2>3, <2>4, <2>5
  <1>2. /\ Total(x) = StakeOf(m.accounts, "YES") /\ Total(y) = StakeOf(m.accounts, "NO")
        /\ Total(z) = StakeOf(m.accounts, "INVALID") /\ Total(a) = Col(m.accounts, "stake")
    BY DEF StakeOf, Col
  <1> HIDE DEF x, y, z, w, a
  <1>3. Total(w) = Total(x) + Total(y)
    BY <1>1, TotalAdds
  <1>4. Total(a) = Total(w) + Total(z)
    BY <1>1, TotalAdds
  <1>5. /\ m.core.pool["YES"] = StakeOf(m.accounts, "YES") /\ m.core.pool["NO"] = StakeOf(m.accounts, "NO")
        /\ m.core.pool["INVALID"] = StakeOf(m.accounts, "INVALID")
        /\ m.core.cash = m.core.pool["YES"] + m.core.pool["NO"] + m.core.pool["INVALID"]
    BY DEF VaultAdds, Paper!Outcome, Paper!Side
  <1>6. QED
    BY <1>2, <1>3, <1>4, <1>5

\* Who shares in the pot, and in what part.
Stakes2(m, u, i) == IF i = "INVALID" THEN m.accounts[u].stake ELSE On(m.accounts[u], i)
PotBase(m, i) == IF i = "INVALID" THEN Paper!TotalStake(m) ELSE Paper!Base(m, i)
PotPart(m, u, i, pot) ==
    IF i = "INVALID" THEN Paper!Part(pot, m.accounts[u].stake, Paper!TotalStake(m))
    ELSE IF m.accounts[u].side = i THEN Paper!Part(pot, m.accounts[u].stake, Paper!Base(m, i)) ELSE 0

LEMMA PotAdds ==
    ASSUME NEW m, NEW n, WellTyped(m), VaultAdds(m, n), m.phase \in Before, NEW i \in Paper!Outcome,
           NEW pot \in Nat
    PROVE  /\ \A u \in Accounts : PotPart(m, u, i, pot) \in Nat
           /\ Total([u \in Accounts |-> PotPart(m, u, i, pot)]) \in Nat
           /\ PotBase(m, i) \in Nat
           /\ PotBase(m, i) = 0 => Total([u \in Accounts |-> PotPart(m, u, i, pot)]) = 0
           /\ PotBase(m, i) # 0 => /\ Total([u \in Accounts |-> PotPart(m, u, i, pot)]) <= pot
                                   /\ pot <= Total([u \in Accounts |-> PotPart(m, u, i, pot)]) + Players
  <1> DEFINE p == [u \in Accounts |-> Stakes2(m, u, i)]
             q == [u \in Accounts |-> PotPart(m, u, i, pot)]
  <1>1. ASSUME NEW u \in Accounts PROVE p[u] \in Nat /\ p[u] = Stakes2(m, u, i)
    <2>1. m.accounts[u].stake \in Nat
      BY AccountIs
    <2>2. QED
      BY <2>1 DEF Stakes2, On
  <1>2. Total(p) = PotBase(m, i) /\ PotBase(m, i) \in Nat
    <2>1. CASE i = "INVALID"
      <3>1. p = [u \in Accounts |-> m.accounts[u]["stake"]]
        BY <2>1 DEF Stakes2
      <3>2. Total(p) = Col(m.accounts, "stake")
        BY <3>1 DEF Col
      <3>3. PotBase(m, i) = m.core.cash
        BY <2>1, TotalStakeIs DEF PotBase
      <3>4. QED
        BY <3>2, <3>3, StakesAdd, TotalStakeIs
    <2>2. CASE i # "INVALID"
      <3>1. p = [u \in Accounts |-> IF m.accounts[u].side = i THEN m.accounts[u].stake ELSE 0]
        BY <2>2 DEF Stakes2, On
      <3>2. Total(p) = StakeOf(m.accounts, i)
        BY <3>1 DEF StakeOf
      <3>3. PotBase(m, i) = StakeOf(m.accounts, i)
        BY <2>2 DEF PotBase, Paper!Base, VaultAdds
      <3>4. QED
        BY <3>2, <3>3, SumsAre
    <2>3. QED
      BY <2>1, <2>2
  <1>3. ASSUME NEW u \in Accounts PROVE q[u] = Paper!Part(pot, p[u], PotBase(m, i))
        /\ q[u] = PotPart(m, u, i, pot)
    <2>1. CASE i = "INVALID"
      BY <2>1 DEF PotPart, PotBase, Stakes2
    <2>2. CASE i # "INVALID" /\ m.accounts[u].side = i
      BY <2>2 DEF PotPart, PotBase, Stakes2, On
    <2>3. CASE i # "INVALID" /\ m.accounts[u].side # i
      <3>1. p[u] = 0 /\ q[u] = 0
        BY <2>3 DEF PotPart, Stakes2, On
      <3>2. Paper!Part(pot, 0, PotBase(m, i)) = 0
        BY <1>2, PartType
      <3>3. QED
        BY <3>1, <3>2
    <2>4. QED
      BY <2>1, <2>2, <2>3
  <1> HIDE DEF p
  <1>4. q = [u \in Accounts |-> PotPart(m, u, i, pot)]
    OBVIOUS
  <1> HIDE DEF q
  <1>5. PICK D \in Nat : D = PotBase(m, i)
    BY <1>2
  <1>6. /\ \A u \in Accounts : q[u] \in Nat
        /\ Total(q) \in Nat
        /\ D > 0 => Total(q) <= pot /\ pot <= Total(q) + Players
        /\ D = 0 => Total(q) = 0
    <2>1. \A u \in Accounts : p[u] \in Nat /\ q[u] = Paper!Part(pot, p[u], D)
      BY <1>1, <1>3, <1>5
    <2>2. Total(p) = D
      BY <1>2, <1>5
    <2>3. QED
      BY <2>1, <2>2, PartsAdd
  <1>7. D # 0 => D > 0
    OBVIOUS
  <1>8. QED
    BY <1>3, <1>4, <1>5, <1>6, <1>7

Pot(m) == m.core.cash + m.early.penalty + m.early.failed
\* All that is lost of the pot, and of what was forfeited, is less than a unit for each player.
PaidOut(m, i) ==
    LET T == Total([u \in Accounts |-> Paper!CorePayout(m, u, i)])
    IN  /\ \A u \in Accounts : Paper!CorePayout(m, u, i) \in Nat
        /\ T \in Nat /\ Paper!Unclaimed(m, i) \in Nat /\ Pot(m) \in Nat /\ FeesOf(m, i) \in Nat
        /\ T + Paper!Unclaimed(m, i) <= Pot(m) + FeesOf(m, i)
        /\ Pot(m) + FeesOf(m, i) <= T + Paper!Unclaimed(m, i) + 2 * Players

LEMMA PayoutsAdd ==
    ASSUME NEW m, NEW n, WellTyped(m), VaultAdds(m, n), m.phase \in Before, NEW i, i = Paper!Majority(m)
    PROVE  PaidOut(m, i)
  <1>0. i \in Paper!Outcome /\ (i # "INVALID" => m.core.pool[i] \in Nat \ {0}) /\ Players \in Nat
    BY MajorityIs, UsersFinite
  <1>1. PICK cash \in Nat, pen \in Nat, bad \in Nat : cash = m.core.cash /\ pen = m.early.penalty
        /\ bad = m.early.failed
    BY SumsAre
  <1>2. PICK pot \in Nat : pot = cash + pen + bad
    <2>1. cash + pen + bad \in Nat
      OBVIOUS
    <2>2. QED
      BY <2>1
  <1>3. Pot(m) = pot
    BY <1>1, <1>2 DEF Pot
  <1>4. PICK f \in Nat, o \in Nat : f = m.early.forfeited[i] /\ o = m.core.official[i]
    <2>1. m.early.forfeited \in Books /\ m.core.official \in Books
      BY SumsAre
    <2>2. QED
      BY <1>0, <2>1 DEF Books
  <1>5. PoolsAreStakes(m)
    BY DEF VaultAdds, PoolsAreStakes
  <1> DEFINE a == [u \in Accounts |-> PotPart(m, u, i, pot)]
             w == [u \in Accounts |-> m.accounts[u].reward[i]]
             c == [u \in Accounts |-> Paper!Credited(m, u, i, f)]
             aw == [u \in Accounts |-> a[u] + w[u]]
             t == [u \in Accounts |-> Paper!CorePayout(m, u, i)]
  <1>6. ASSUME NEW u \in Accounts
        PROVE  /\ a[u] \in Nat /\ w[u] \in Nat /\ c[u] \in Nat /\ aw[u] \in Nat /\ aw[u] = a[u] + w[u]
               /\ t[u] = aw[u] + c[u] /\ t[u] = Paper!CorePayout(m, u, i)
    <2>1. PICK x \in Nat : x = PotPart(m, u, i, pot)
      BY <1>0, PotAdds
    <2>2. PICK y \in Nat : y = m.accounts[u].reward[i]
      <3>1. m.accounts[u].reward \in Books
        BY AccountIs
      <3>2. QED
        BY <1>0, <3>1 DEF Books
    <2>3. PICK z \in Nat : z = Paper!Credited(m, u, i, f)
      BY <1>0, <1>5, CreditedAdds
    <2>4. Paper!CorePayout(m, u, i) = x + y + z
      BY <1>1, <1>2, <1>4, <2>1, <2>2, <2>3 DEF Paper!CorePayout, PotPart, Paper!Credited
    <2>5. a[u] = x /\ w[u] = y /\ c[u] = z /\ aw[u] = a[u] + w[u] /\ t[u] = Paper!CorePayout(m, u, i)
      BY <2>1, <2>2, <2>3
    <2> HIDE DEF a, w, c, aw, t
    <2>6. QED
      BY <2>4, <2>5
  <1>7. Total(w) = RewardOf(m.accounts, i)
    BY DEF RewardOf
  <1>8. /\ Total(a) \in Nat
        /\ PotBase(m, i) = 0 => Total(a) = 0
        /\ PotBase(m, i) # 0 => Total(a) <= pot /\ pot <= Total(a) + Players
    BY <1>0, PotAdds
  <1>9. /\ Total(c) \in Nat
        /\ Paper!Base(m, i) = 0 => Total(c) = 0
        /\ Paper!Base(m, i) # 0 => Total(c) <= f /\ f <= Total(c) + Players
    BY <1>0, <1>5, CreditedAdds
  <1>10. t = [u \in Accounts |-> Paper!CorePayout(m, u, i)]
    OBVIOUS
  <1> HIDE DEF a, w, c, aw, t
  <1>11. Total(aw) = Total(a) + Total(w) /\ Total(t) = Total(aw) + Total(c)
    BY <1>6, TotalAdds
  <1>12. PICK A \in Nat, W \in Nat, C \in Nat : A = Total(a) /\ W = Total(w) /\ C = Total(c)
    BY <1>0, <1>7, <1>8, <1>9, SumsAre
  <1>13. Total(t) = A + W + C
    BY <1>11, <1>12
  <1>14. Paper!TotalStake(m) = 0 <=> PotBase(m, i) = 0
    <2>1. CASE i = "INVALID"
      BY <2>1 DEF PotBase
    <2>2. CASE i # "INVALID"
      <3>1. PotBase(m, i) = m.core.pool[i] /\ m.core.pool[i] \in Nat \ {0}
        BY <1>0, <2>2 DEF PotBase, Paper!Base
      <3>2. PICK p \in Books : p = m.core.pool
        BY SumsAre
      <3>3. cash = p["YES"] + p["NO"] + p["INVALID"]
        BY <1>1, <3>2, Zenon DEF VaultAdds
      <3>4. p[i] <= p["YES"] + p["NO"] + p["INVALID"]
        BY <1>0 DEF Books, Paper!Outcome, Paper!Side
      <3>5. cash # 0
        BY <3>1, <3>2, <3>3, <3>4
      <3>6. QED
        BY <1>1, <3>1, <3>5, TotalStakeIs
    <2>3. QED
      BY <2>1, <2>2
  <1>15. PICK P \in Nat : P = A + IF Paper!TotalStake(m) = 0 THEN pen + bad ELSE 0
    <2>1. A + (IF Paper!TotalStake(m) = 0 THEN pen + bad ELSE 0) \in Nat
      OBVIOUS
    <2>2. QED
      BY <2>1
  <1>16. P <= pot /\ pot <= P + Players
    <2>1. CASE Paper!TotalStake(m) = 0
      <3>1. cash = 0
        BY <1>1, <2>1, TotalStakeIs
      <3>2. A = 0
        BY <1>8, <1>12, <1>14, <2>1
      <3>3. P = pen + bad
        BY <1>15, <2>1, <3>2
      <3>4. QED
        BY <1>0, <1>2, <3>1, <3>3
    <2>2. CASE Paper!TotalStake(m) # 0
      <3>1. P = A
        BY <1>15, <2>2
      <3>2. QED
        BY <1>8, <1>12, <1>14, <2>2, <3>1
    <2>3. QED
      BY <2>1, <2>2
  <1>17. PICK F \in Nat : F = C + IF Paper!Base(m, i) = 0 THEN f ELSE 0
    <2>1. C + (IF Paper!Base(m, i) = 0 THEN f ELSE 0) \in Nat
      OBVIOUS
    <2>2. QED
      BY <2>1
  <1>18. F <= f /\ f <= F + Players
    <2>1. CASE Paper!Base(m, i) = 0
      <3>1. C = 0 /\ F = C + f
        BY <1>9, <1>12, <1>17, <2>1
      <3>2. QED
        BY <1>0, <3>1
    <2>2. CASE Paper!Base(m, i) # 0
      <3>1. F = C
        BY <1>17, <2>2
      <3>2. QED
        BY <1>9, <1>12, <2>2, <3>1
    <2>3. QED
      BY <2>1, <2>2
  <1>19. PICK p1 \in Nat, f1 \in Nat : /\ p1 = (IF Paper!TotalStake(m) = 0 THEN pen + bad ELSE 0)
                                       /\ f1 = (IF Paper!Base(m, i) = 0 THEN f ELSE 0)
    OBVIOUS
  <1>20. Paper!Unclaimed(m, i) = o + f1 + p1
    BY <1>1, <1>4, <1>19, Zenon DEF Paper!Unclaimed
  <1>21. P = A + p1 /\ F = C + f1
    BY <1>15, <1>17, <1>19
  <1>22. FeesOf(m, i) = W + f + o
    BY <1>4, <1>7, <1>12, Zenon DEF FeesOf
  <1>23. PICK T \in Nat, U \in Nat, G \in Nat : T = A + W + C /\ U = o + f1 + p1 /\ G = W + f + o
    <2>1. A + W + C \in Nat /\ o + f1 + p1 \in Nat /\ W + f + o \in Nat
      OBVIOUS
    <2>2. QED
      BY <2>1
  <1>24. T + U <= pot + G /\ pot + G <= T + U + 2 * Players
    BY <1>0, <1>16, <1>18, <1>21, <1>23
  <1>25. \A u \in Accounts : Paper!CorePayout(m, u, i) \in Nat
    BY <1>6
  <1>26. Total([u \in Accounts |-> Paper!CorePayout(m, u, i)]) = T /\ Paper!Unclaimed(m, i) = U
        /\ FeesOf(m, i) = G
    BY <1>10, <1>13, <1>20, <1>22, <1>23
  <1>27. QED
    BY <1>3, <1>24, <1>25, <1>26 DEF PaidOut

\* What each player holds adds up to what the outcome is worth, but for halves of a unit.
Redeemable(m, i) ==
    LET v == [u \in Accounts |-> Paper!Value(m.accounts[u].held, i)]
    IN  /\ \A u \in Accounts : v[u] \in Nat
        /\ Total(v) \in Nat /\ Paper!Value(Quantities(m), i) \in Nat
        /\ Covers(Paper!Value(Quantities(m), i), Total(v))

LEMMA HalvesAdd ==
    ASSUME NEW t \in Nat, NEW w \in Nat, 2 * t <= w, w <= 2 * t + Players
    PROVE  Covers(w \div 2, t)
  <1>1. PICK k \in Nat : k = Players
    BY UsersFinite
  <1>2. w <= 2 * t + k
    BY <1>1
  <1>3. PICK h \in Nat : h = w \div 2
    OBVIOUS
  <1>4. 2 * h <= w /\ w <= 2 * h + 1
    BY <1>3
  <1>5. t <= h /\ h <= t + k
    BY <1>2, <1>4
  <1>6. QED
    BY <1>1, <1>3, <1>5 DEF Covers

LEMMA OutcomesAdd ==
    ASSUME NEW m, WellTyped(m), NEW i \in Paper!Outcome
    PROVE  Redeemable(m, i)
  <1> DEFINE v == [u \in Accounts |-> Paper!Value(m.accounts[u].held, i)]
             y == [u \in Accounts |-> m.accounts[u].held["YES"]]
             z == [u \in Accounts |-> m.accounts[u].held["NO"]]
             w == [u \in Accounts |-> y[u] + z[u]]
             d == [u \in Accounts |-> v[u] + v[u]]
             one == [u \in Accounts |-> 1]
             e == [u \in Accounts |-> d[u] + one[u]]
  <1>0. Players \in Nat
    BY UsersFinite
  <1>1. PICK Y \in Nat, Z \in Nat : Y = HeldOf(m.accounts, "YES") /\ Z = HeldOf(m.accounts, "NO")
    BY SumsAre DEF Paper!Side
  <1>2. Quantities(m) = [s \in Paper!Side |-> IF s = "YES" THEN Y ELSE Z]
    BY <1>1 DEF Quantities, Paper!Side
  <1>3. \A u \in Accounts : y[u] \in Nat /\ z[u] \in Nat
    <2>1. \A u \in Accounts : m.accounts[u].held \in [Paper!Side -> Nat]
      BY AccountIs
    <2>2. QED
      BY <2>1 DEF Paper!Side
  <1>4. Total(y) = Y /\ Total(z) = Z
    BY <1>1 DEF HeldOf
  <1>5. CASE i = "INVALID"
    <2>1. ASSUME NEW u \in Accounts
          PROVE  /\ v[u] \in Nat /\ w[u] \in Nat /\ d[u] \in Nat /\ one[u] \in Nat /\ e[u] \in Nat
                 /\ w[u] = y[u] + z[u] /\ d[u] = v[u] + v[u] /\ e[u] = d[u] + one[u]
                 /\ d[u] <= w[u] /\ w[u] <= e[u]
      <3>1. PICK a \in Nat, b \in Nat : a = y[u] /\ b = z[u]
        BY <1>3
      <3>2. v[u] = (a + b) \div 2
        BY <1>5, <3>1 DEF Paper!Value
      <3>3. PICK h \in Nat : h = (a + b) \div 2
        OBVIOUS
      <3>4. 2 * h <= a + b /\ a + b <= 2 * h + 1
        BY <3>3
      <3>5. w[u] = a + b /\ d[u] = h + h /\ one[u] = 1 /\ e[u] = h + h + 1 /\ v[u] = h
        BY <3>1, <3>2, <3>3
      <3> HIDE DEF v, w, d, one, e, y, z
      <3>6. QED
        BY <3>1, <3>4, <3>5
    <2>2. Total(one) = Players
      BY OnesAdd
    <2>3. v = [u \in Accounts |-> Paper!Value(m.accounts[u].held, i)]
      OBVIOUS
    <2> HIDE DEF v, y, z, w, d, e, one
    <2>4. Total(w) = Y + Z
      BY <1>3, <1>4, <2>1, TotalAdds
    <2>5. Total(d) = Total(v) + Total(v)
      BY <2>1, TotalAdds
    <2>6. Total(e) = Total(d) + Total(one)
      BY <2>1, TotalAdds
    <2>7. Total(d) <= Total(w) /\ Total(w) <= Total(e)
      BY <2>1, TotalAtMost
    <2>8. PICK t \in Nat : t = Total(v)
      BY <2>1, TotalType
    <2>9. 2 * t <= Y + Z /\ Y + Z <= 2 * t + Players
      BY <1>0, <2>2, <2>4, <2>5, <2>6, <2>7, <2>8
    <2>10. Covers((Y + Z) \div 2, t)
      <3>1. Y + Z \in Nat
        OBVIOUS
      <3>2. QED
        BY <2>9, <3>1, HalvesAdd
    <2>11. Paper!Value(Quantities(m), i) = (Y + Z) \div 2 /\ (Y + Z) \div 2 \in Nat
      BY <1>2, <1>5 DEF Paper!Value, Paper!Side
    <2>12. QED
      BY <2>1, <2>3, <2>8, <2>10, <2>11 DEF Redeemable
  <1>6. CASE i # "INVALID"
    <2>1. i \in Paper!Side
      BY <1>6 DEF Paper!Outcome
    <2>2. Paper!Value(Quantities(m), i) = HeldOf(m.accounts, i)
          /\ \A u \in Accounts : v[u] = m.accounts[u].held[i]
      BY <1>6, <2>1 DEF Paper!Value, Quantities
    <2>3. v = [u \in Accounts |-> m.accounts[u].held[i]]
      BY <2>2
    <2>4. Total(v) = HeldOf(m.accounts, i)
      BY <2>3 DEF HeldOf
    <2>5. HeldOf(m.accounts, i) \in Nat /\ \A u \in Accounts : v[u] \in Nat
      <3>1. \A u \in Accounts : m.accounts[u].held \in [Paper!Side -> Nat]
        BY AccountIs
      <3>2. QED
        BY <2>1, <2>2, <3>1, SumsAre
    <2>6. QED
      BY <1>0, <2>2, <2>4, <2>5 DEF Redeemable, Covers
  <1>7. QED
    BY <1>5, <1>6

LEMMA CashCovers ==
    ASSUME Paper!SlackIsBounded, NEW m, WellTyped(m), OnCurve(m), m.phase \in Live, NEW i \in Paper!Outcome
    PROVE  Paper!Value(Quantities(m), i) <= m.cash
  <1>1. PICK q \in [Paper!Side -> Nat] : q = Quantities(m)
    BY QType
  <1>2. PICK b \in Nat : b = m.b
    BY TypedIs
  <1>3. b # 0 /\ m.cash = b + Paper!Cost(q, b) - Slack(0, b)
    BY <1>1, <1>2 DEF OnCurve
  <1>4. PICK c \in Nat : c = Paper!Cost(q, b) /\ q["YES"] <= c /\ q["NO"] <= c
    <2>1. b \in Nat \ {0}
      BY <1>3
    <2>2. QED
      BY <2>1, CostIs DEF Paper!Side
  <1>5. PICK k \in Nat : k = Slack(0, b) /\ k <= b
    <2>1. b \in Nat \ {0}
      BY <1>3
    <2>2. Slack(0, b) \in 0..b
      BY <2>1 DEF Paper!SlackIsBounded
    <2>3. QED
      BY <2>2
  <1>6. m.cash = b + c - k /\ c <= m.cash
    BY <1>3, <1>4, <1>5
  <1>7. PICK y \in Nat, z \in Nat : y = q["YES"] /\ z = q["NO"]
    BY DEF Paper!Side
  <1>8. (y + z) \div 2 <= c
    BY <1>4, <1>7
  <1>9. Paper!Value(q, i) \in {y, z, (y + z) \div 2}
    BY <1>7 DEF Paper!Value, Paper!Outcome, Paper!Side
  <1>10. Paper!Value(q, i) <= c
    BY <1>4, <1>7, <1>8, <1>9
  <1>11. m.cash \in Nat /\ Paper!Value(q, i) \in Nat
    BY <1>7, <1>9, TypedIs
  <1>12. QED
    BY <1>1, <1>6, <1>10, <1>11

LEMMA MaxWithZero == ASSUME NEW x \in Nat PROVE Paper!Max({0, x}) = x
  <1>1. x \in {0, x} /\ \A w \in {0, x} : x >= w
    OBVIOUS
  <1>2. \A z \in {0, x} : (\A w \in {0, x} : z >= w) => z = x
    OBVIOUS
  <1>3. QED
    BY <1>1, <1>2 DEF Paper!Max

\* The books that a settlement opens.
NetValue(m) == m.cash + m.lpFees - Paper!Value(Quantities(m), Paper!Majority(m))
Opened(m, r) ==
    /\ Same(m, r, {"phase", "result", "cash", "lpFees", "budget", "initial", "payouts", "early", "core"})
       /\ WellTyped(r)
    /\ r.phase = "SETTLED" /\ r.result = Paper!Majority(m) /\ r.cash = 0 /\ r.lpFees = 0
    /\ NetValue(m) \in Nat /\ r.budget.lp = NetValue(m)
       /\ r.budget.outcomes = Paper!Value(Quantities(m), Paper!Majority(m))
    /\ r.budget.failed = 0 /\ r.budget.core = Total(r.payouts)
       /\ r.budget.official = Paper!Unclaimed(m, Paper!Majority(m))
    /\ r.initial.lp = NetValue(m) /\ r.initial.supply = m.lpSupply
    /\ r.payouts = [u \in Accounts |-> Paper!CorePayout(m, u, Paper!Majority(m))]
    /\ r.early.pending = m.early.pending /\ r.early.penalty = 0 /\ r.early.failed = 0
    /\ r.core.cash = 0 /\ r.core.fees = 0

LEMMA SettleOpens ==
    ASSUME Paper!SlackIsBounded, NEW m, NEW n, Good(m, n), m.phase \in Live, NEW r, r = Paper!Settle(m)
    PROVE  Opened(m, r)
  <1>0. WellTyped(m) /\ VaultAdds(m, n) /\ OnCurve(m) /\ m.phase \in Before
    BY DEF Good, Parts, Live, Before
  <1>1. PICK i \in Paper!Outcome : i = Paper!Majority(m)
    BY <1>0, MajorityIs
  <1>2. PICK owed \in Nat : owed = Paper!Value(Quantities(m), i)
    <2>1. Redeemable(m, i)
      BY <1>0, OutcomesAdd
    <2>2. QED
      BY <2>1, Zenon DEF Redeemable
  <1>3. PICK c \in Nat, f \in Nat : c = m.cash /\ f = m.lpFees
    BY <1>0, TypedIs
  <1>4. owed <= c
    BY <1>0, <1>2, <1>3, CashCovers
  <1>5. PICK nav \in Nat : nav = c + f - owed
    <2>1. c + f - owed \in Nat
      BY <1>4
    <2>2. QED
      BY <2>1
  <1>6. NetValue(m) = nav /\ Paper!Max({0, c + f - owed}) = nav
    BY <1>1, <1>2, <1>3, <1>5, MaxWithZero DEF NetValue
  <1>7. PaidOut(m, i)
    BY <1>0, <1>1, PayoutsAdd
  <1>8. PICK pays \in [Accounts -> Nat] : pays = [u \in Accounts |-> Paper!CorePayout(m, u, i)]
    <2>1. \A u \in Accounts : Paper!CorePayout(m, u, i) \in Nat
      BY <1>7, Zenon DEF PaidOut
    <2>2. QED
      BY <2>1
  <1>9. PICK T \in Nat : T = Total(pays)
    BY <1>7, <1>8, Zenon DEF PaidOut
  <1>10. PICK U \in Nat : U = Paper!Unclaimed(m, i)
    BY <1>7, Zenon DEF PaidOut
  <1>11. Paper!SumFunction(pays) = T
    BY <1>9, TotalIs
  <1>12. PICK s \in Nat : s = m.lpSupply
    <2>1. m.lpSupply = Col(m.accounts, "lp")
      BY <1>0 DEF OnCurve
    <2>2. QED
      BY <1>0, <2>1, SumsAre
  <1>13. PICK bud : bud = [lp |-> nav, outcomes |-> owed, failed |-> 0, core |-> T, official |-> U]
    OBVIOUS
  <1>14. PICK ini : ini = [lp |-> nav, supply |-> s]
    OBVIOUS
  <1>15. PICK e : e = [m.early EXCEPT !.penalty = 0, !.failed = 0, !.forfeited = Paper!Nothing]
    OBVIOUS
  <1>16. PICK k : k = [m.core EXCEPT !.cash = 0, !.fees = 0]
    OBVIOUS
  <1>17. m.early \in Earlies /\ m.core \in Cores
    BY <1>0, TypedIs
  <1>18. e \in Earlies /\ e.pending = m.early.pending /\ e.penalty = 0 /\ e.failed = 0
    <2>1. Paper!Nothing \in Books
      BY DEF Paper!Nothing, Books
    <2>2. QED
      BY <1>15, <1>17, <2>1 DEF Earlies
  <1>19. k \in Cores /\ k.cash = 0 /\ k.fees = 0
    BY <1>16, <1>17 DEF Cores
  <1>20. bud \in BudgetBooks /\ ini \in [lp : Nat, supply : Nat]
    BY <1>13, <1>14 DEF BudgetBooks
  <1>21. /\ bud.lp = nav /\ bud.outcomes = owed /\ bud.failed = 0 /\ bud.core = T /\ bud.official = U
         /\ ini.lp = nav /\ ini.supply = s
    BY <1>13, <1>14
  <1>22. Paper!Coordinates(m) = Quantities(m)
    BY QIs
  <1>23. r = [m EXCEPT !.phase = "SETTLED", !.result = i, !.cash = 0, !.lpFees = 0, !.budget = bud, !.initial
        = ini,
                       !.payouts = pays, !.early.penalty = 0, !.early.failed = 0, !.early.forfeited
                             = Paper!Nothing,
                       !.core.cash = 0, !.core.fees = 0]
    BY <1>1, <1>2, <1>3, <1>6, <1>8, <1>10, <1>11, <1>12, <1>13, <1>14, <1>22, Zenon DEF Paper!Settle
  <1>24. PICK j : j = [m EXCEPT !.phase = "SETTLED", !.result = i, !.cash = 0, !.lpFees = 0, !.budget = bud,
        !.initial = ini,
                               !.payouts = pays]
    OBVIOUS
  <1>25. /\ Same(m, j, {"phase", "result", "cash", "lpFees", "budget", "initial", "payouts"})
         /\ j.phase = "SETTLED" /\ j.result = i /\ j.cash = 0 /\ j.lpFees = 0 /\ j.budget = bud /\ j.initial = ini
         /\ j.payouts = pays
    BY <1>0, <1>24, TypedIs, FieldsAre DEF Same
  <1>26. r = [j EXCEPT !.early.penalty = 0, !.early.failed = 0, !.early.forfeited = Paper!Nothing,
                       !.core.cash = 0, !.core.fees = 0]
    BY ONLY <1>23, <1>24
  <1>27. "early" \in DOMAIN j /\ "core" \in DOMAIN j /\ j.early = m.early /\ j.core = m.core
    BY <1>25, FieldsAre DEF Same
  <1>28. r = [j EXCEPT !.early = e, !.core = k]
    BY <1>15, <1>16, <1>26, <1>27
  <1>29. /\ Same(j, r, {"early", "core"}) /\ r.early = e /\ r.core = k
    BY <1>25, <1>28, FieldsAre DEF Same
  <1>30. Same(m, r, {"phase", "result", "cash", "lpFees", "budget", "initial", "payouts", "early", "core"})
    BY <1>25, <1>29, FieldsAre DEF Same
  <1>31. /\ r.phase = "SETTLED" /\ r.result = i /\ r.cash = 0 /\ r.lpFees = 0 /\ r.budget = bud /\ r.initial = ini
         /\ r.payouts = pays
    BY <1>25, <1>29, FieldsAre DEF Same
  <1>32. WellTyped(r)
    <2>1. r["phase"] \in Shape["phase"] /\ r["result"] \in Shape["result"] /\ r["cash"] \in Shape["cash"]
      BY <1>31 DEF Shape
    <2>2. r["lpFees"] \in Shape["lpFees"] /\ r["budget"] \in Shape["budget"] /\ r["initial"] \in Shape["initial"]
      BY <1>20, <1>31 DEF Shape
    <2>3. r["payouts"] \in Shape["payouts"] /\ r["early"] \in Shape["early"] /\ r["core"] \in Shape["core"]
      BY <1>18, <1>19, <1>29, <1>31 DEF Shape
    <2>4. \A h \in {"phase", "result", "cash", "lpFees", "budget", "initial", "payouts", "early",
          "core"} : r[h] \in Shape[h]
      BY <2>1, <2>2, <2>3
    <2>5. QED
      BY <1>0, <1>30, <2>4, TypedKept
  <1>33. QED
    BY <1>1, <1>2, <1>6, <1>8, <1>9, <1>10, <1>12, <1>18, <1>19, <1>21, <1>29, <1>30, <1>31, <1>32,
       Zenon DEF Opened

LEMMA SettleKeepsMoney ==
    ASSUME NEW m, NEW n \in Nat, Good(m, n), m.phase \in Live, NEW r, Opened(m, r)
    PROVE  MoneyIsKept(r, n)
  <1>0. WellTyped(m) /\ WellTyped(r) /\ VaultAdds(m, n) /\ OnCurve(m) /\ NothingOwed(m) /\ m.phase \in Before
        /\ Players \in Nat
    BY UsersFinite DEF Good, Parts, Live, Before, Opened
  <1>1. PICK i \in Paper!Outcome : i = Paper!Majority(m)
    BY <1>0, MajorityIs
  <1>2. PaidOut(m, i)
    BY <1>0, <1>1, PayoutsAdd
  <1>3. r.payouts = [u \in Accounts |-> Paper!CorePayout(m, u, i)]
    BY <1>1 DEF Opened
  <1>4. PICK T \in Nat, U \in Nat, pot \in Nat, G \in Nat :
          T = Total(r.payouts) /\ U = Paper!Unclaimed(m, i) /\ pot = Pot(m) /\ G = FeesOf(m, i)
    BY <1>2, <1>3, Zenon DEF PaidOut
  <1>5. T + U <= pot + G /\ pot + G <= T + U + 2 * Players
    BY <1>2, <1>3, <1>4, Zenon DEF PaidOut
  <1>6. PICK fees \in Nat, core \in Nat, pen \in Nat, bad \in Nat :
          fees = m.core.fees /\ core = m.core.cash /\ pen = m.early.penalty /\ bad = m.early.failed
    BY <1>0, SumsAre
  <1>7. PICK nn \in Nat : nn = Players * n
    <2>1. Players * n \in Nat
      BY <1>0
    <2>2. QED
      BY <2>1
  <1>8. G <= fees /\ fees <= G + nn
    <2>1. G <= fees /\ fees <= G + Players * n
      BY <1>0, <1>1, <1>4, <1>6, Zenon DEF VaultAdds
    <2>2. QED
      BY <1>7, <2>1, Zenon
  <1>9. pot = core + pen + bad
    BY <1>4, <1>6 DEF Pot
  <1>10. PICK c \in Nat, f \in Nat, cf \in Nat, pf \in Nat :
           c = m.cash /\ f = m.lpFees /\ cf = m.creatorFees /\ pf = m.protocolFees
    BY <1>0, TypedIs
  <1>11. m.R = 0
    BY DEF Good, Parts, OnCurve
  <1>12. PICK owed \in Nat, nav \in Nat : owed = Paper!Value(Quantities(m), i) /\ nav = NetValue(m)
    <2>1. Redeemable(m, i)
      BY <1>0, OutcomesAdd
    <2>2. Paper!Value(Quantities(m), i) \in Nat
      BY <2>1, Zenon DEF Redeemable
    <2>3. NetValue(m) \in Nat
      BY DEF Opened
    <2>4. QED
      BY <2>2, <2>3
  <1>13. nav + owed = c + f
    <2>1. nav = c + f - owed
      BY <1>1, <1>10, <1>12, Zenon DEF NetValue
    <2>2. QED
      BY <2>1
  <1>14. /\ r.accounts = m.accounts /\ r.R = 0 /\ r.creatorFees = cf /\ r.protocolFees = pf /\ r.cash = 0
            /\ r.lpFees = 0
         /\ r.early.pending = m.early.pending /\ r.early.penalty = 0 /\ r.early.failed = 0
         /\ r.core.cash = 0 /\ r.core.fees = 0
    BY <1>10, <1>11, FieldsAre DEF Opened, Same
  <1>15. PICK p \in Nat, e \in Nat : p = Purses(m) /\ e = Pending(m)
    BY <1>0, MoneyType, SumsAre
  <1>16. Purses(r) = p /\ Pending(r) = e
    BY <1>14, <1>15 DEF Purses, Pending
  <1>17. Escrow(r) = e /\ Escrow(m) = e + pen + bad
    BY <1>6, <1>14, <1>15, <1>16 DEF Escrow
  <1>18. Traded(r) = cf + pf /\ Traded(m) = c + f + cf + pf
    BY <1>10, <1>11, <1>14 DEF Traded
  <1>19. Vaulted(r) = 0 /\ Vaulted(m) = core + fees
    BY <1>6, <1>14 DEF Vaulted
  <1>20. Debts(r) = nav + owed + T + U /\ Debts(m) = 0
    <2>1. /\ r.budget.lp = nav /\ r.budget.outcomes = owed /\ r.budget.failed = 0 /\ r.budget.core = T
          /\ r.budget.official = U
      BY <1>1, <1>4, <1>12 DEF Opened
    <2>2. Debts(m) = 0
      BY <1>0 DEF NothingOwed
    <2>3. QED
      BY <2>1, <2>2 DEF Debts
  <1>21. PICK a \in Nat, b \in Nat : a = Money(m) /\ b = Money(r)
    BY <1>0, MoneyType
  <1>22. a = p + e + pen + bad + c + f + cf + pf + core + fees
    BY <1>15, <1>17, <1>18, <1>19, <1>20, <1>21 DEF Money
  <1>23. b = p + e + cf + pf + nav + owed + T + U
    BY <1>16, <1>17, <1>18, <1>19, <1>20, <1>21 DEF Money
  <1>24. b <= a /\ a <= b + 2 * Players + nn
    BY <1>0, <1>5, <1>8, <1>9, <1>13, <1>22, <1>23
  <1>25. PICK g \in Nat : g = Grant * Players
    <2>1. Grant * Players \in Nat
      BY <1>0, Constants
    <2>2. QED
      BY <2>1
  <1>26. a <= g /\ g <= a + 3 * n
    <2>1. Drift(m, n) = 3 * n
      BY DEF Drift, Live
    <2>2. a <= g /\ g <= a + Drift(m, n)
      BY <1>21, <1>25, Zenon DEF Good, MoneyIsKept
    <2>3. QED
      BY <2>1, <2>2
  <1>27. Drift(r, n) = 3 * n + nn + 2 * Players
    <2>1. Drift(r, n) = (3 + Players) * n + 2 * Players
      BY DEF Drift, Opened
    <2>2. (3 + Players) * n = 3 * n + Players * n
      BY <1>0
    <2>3. QED
      BY <1>0, <1>7, <2>1, <2>2
  <1>28. b <= g /\ g <= b + (3 * n + nn + 2 * Players)
    BY <1>0, <1>24, <1>26
  <1>29. QED
    BY <1>21, <1>25, <1>27, <1>28, Zenon DEF MoneyIsKept

LEMMA SettleCoversClaims ==
    ASSUME NEW m, NEW n \in Nat, Good(m, n), m.phase \in Live, NEW r, Opened(m, r)
    PROVE  OwedIsKept(r)
  <1>0. WellTyped(m) /\ WellTyped(r) /\ VaultAdds(m, n) /\ OnCurve(m) /\ NothingOwed(m) /\ m.phase \in Before
        /\ Players \in Nat
    BY UsersFinite DEF Good, Parts, Live, Before, Opened
  <1>1. PICK i \in Paper!Outcome : i = Paper!Majority(m)
    BY <1>0, MajorityIs
  <1>2. /\ r.accounts = m.accounts /\ r.phase = "SETTLED" /\ r.result = i /\ r.initial.lp = NetValue(m)
        /\ r.initial.supply = m.lpSupply /\ r.budget.lp = NetValue(m)
           /\ r.budget.outcomes = Paper!Value(Quantities(m), i)
        /\ r.budget.failed = 0 /\ r.budget.core = Total(r.payouts)
    BY <1>1, FieldsAre DEF Opened, Same
  <1>3. PICK nav \in Nat, s \in Nat : nav = NetValue(m) /\ s = m.lpSupply /\ s # 0 /\ s = Col(m.accounts, "lp")
    <2>1. m.lpSupply = Col(m.accounts, "lp") /\ m.lpSupply # 0
      BY <1>0 DEF OnCurve
    <2>2. QED
      BY <1>0, <2>1, SumsAre DEF Opened
  <1>4. Covers(r.budget.lp, OwedLp(r))
    <2> DEFINE p == [u \in Accounts |-> m.accounts[u]["lp"]]
               q == [u \in Accounts |-> Paper!ClaimPreview(r, u).lp]
    <2>1. ASSUME NEW u \in Accounts PROVE p[u] \in Nat /\ q[u] = Paper!Part(nav, p[u], s)
      <3>1. p[u] \in Nat
        BY <1>0, AccountIs
      <3>2. q[u] = Paper!Part(nav, p[u], s)
        BY <1>2, <1>3 DEF Paper!ClaimPreview, Paper!LPPart
      <3>3. QED
        BY <3>1, <3>2
    <2>2. Total(p) = s /\ Total(q) = OwedLp(r)
      BY <1>3 DEF Col, OwedLp
    <2> HIDE DEF p, q
    <2>3. s > 0 /\ Total(q) <= nav /\ nav <= Total(q) + Players
      BY <1>3, <2>1, <2>2, PartsAdd
    <2>4. QED
      BY <1>2, <1>3, <2>2, <2>3 DEF Covers
  <1>5. Covers(r.budget.outcomes, OwedOutcomes(r))
    <2>1. Redeemable(m, i)
      BY <1>0, OutcomesAdd
    <2>2. [u \in Accounts |-> Paper!ClaimPreview(r, u).outcomes]
          = [u \in Accounts |-> Paper!Value(m.accounts[u].held, i)]
      BY <1>2 DEF Paper!ClaimPreview
    <2>3. OwedOutcomes(r) = Total([u \in Accounts |-> Paper!Value(m.accounts[u].held, i)])
      BY <2>2, Zenon DEF OwedOutcomes
    <2>4. Covers(Paper!Value(Quantities(m), i), Total([u \in Accounts |-> Paper!Value(m.accounts[u].held, i)]))
      BY <2>1, Zenon DEF Redeemable
    <2>5. QED
      BY <1>2, <2>3, <2>4, Zenon
  <1>6. Covers(r.budget.failed, OwedFailed(r))
    <2> DEFINE f == [u \in Accounts |-> Paper!ClaimPreview(r, u).failed]
    <2>1. \A u \in Accounts : f[u] = 0
      BY <1>2 DEF Paper!ClaimPreview
    <2>2. OwedFailed(r) = Total(f)
      BY DEF OwedFailed
    <2> HIDE DEF f
    <2>3. OwedFailed(r) = 0
      BY <2>1, <2>2, TotalZero
    <2>4. QED
      BY <1>0, <1>2, <2>3 DEF Covers
  <1>7. r.budget.core = OwedCore(r)
    <2> DEFINE f == [u \in Accounts |-> IF r.accounts[u].claimed THEN 0 ELSE r.payouts[u]]
    <2>1. \A u \in Accounts : f[u] = r.payouts[u]
      BY <1>0, <1>2 DEF NothingOwed
    <2>2. OwedCore(r) = Total(f)
      BY DEF OwedCore
    <2> HIDE DEF f
    <2>3. Total(f) = Total(r.payouts)
      BY <2>1, TotalAgrees
    <2>4. QED
      BY <1>2, <2>2, <2>3
  <1>8. QED
    BY <1>1, <1>2, <1>4, <1>5, <1>6, <1>7 DEF OwedIsKept

LEMMA SettleIsGood ==
    ASSUME Paper!SlackIsBounded, NEW m, NEW n \in Nat, Good(m, n), m.phase \in Live, NEW r, r = Paper!Settle(m)
    PROVE  Good(r, n)
  <1>1. Opened(m, r)
    BY SettleOpens
  <1>2. MoneyIsKept(r, n) /\ OwedIsKept(r)
    BY <1>1, SettleKeepsMoney, SettleCoversClaims
  <1>3. OnParabola(r, n) /\ OnCurve(r) /\ VaultAdds(r, n) /\ NothingOwed(r)
    BY <1>1 DEF Opened, OnParabola, OnCurve, VaultAdds, NothingOwed, Live, Before
  <1>4. QED
    BY <1>1, <1>2, <1>3 DEF Good, Parts, Opened

LEMMA FinalizedIsGood ==
    ASSUME Paper!SlackIsBounded, NEW m, NEW n \in Nat, Good(m, n), NEW r, r = Paper!Finalized(m)
    PROVE  Good(r, n)
  BY SettleIsGood DEF Paper!Finalized, Live

LEMMA AdvanceIsGood ==
    ASSUME Paper!SlackIsBounded, NEW m, NEW n \in Nat, Good(m, n), NEW t \in Nat
    PROVE  Good(Paper!Advance(m, t), n)
  <1>1. PICK a : a = [m EXCEPT !.now = Paper!Max({t, @})]
    OBVIOUS
  <1>2. Good(a, n)
    BY <1>1, LaterIsGood
  <1>3. PICK b : b = Paper!Expired(a)
    OBVIOUS
  <1>4. Good(b, n)
    BY <1>2, <1>3, ExpiredIsGood
  <1>5. PICK c : c = Paper!Halted(b)
    OBVIOUS
  <1>6. Good(c, n)
    BY <1>4, <1>5, HaltedIsGood
  <1>7. Good(Paper!Finalized(c), n)
    BY <1>6, FinalizedIsGood
  <1>8. QED
    BY <1>1, <1>3, <1>5, <1>7, Zenon DEF Paper!Advance

\* The request is answered: the bond goes back, or it is lost.
RequestKept(m) == [[m EXCEPT !.early.pending = Nobody] EXCEPT !.accounts[m.early.pending.proposer].refund
      = @ + Bond]
RequestLost(m) == [[m EXCEPT !.early.pending = Nobody] EXCEPT !.early.failed = @ + Bond]

LEMMA LostIsGood ==
    ASSUME NEW m, NEW n, Good(m, n), m.early.pending # Nobody, NEW r, r = RequestLost(m)
    PROVE  Good(r, n) /\ r.phase = m.phase
  <1>0. WellTyped(m) /\ Bond \in Nat \ {0}
    BY Constants DEF Good
  <1>1. m.early \in Earlies /\ m.early.failed \in Nat /\ m.early.penalty \in Nat /\ "early" \in DOMAIN m
    BY <1>0, TypedIs, SumsAre, FieldsAre
  <1>2. PICK x \in Nat : x = m.early.failed + Bond
    <2>1. m.early.failed + Bond \in Nat
      BY <1>0, <1>1
    <2>2. QED
      BY <2>1
  <1>3. PICK e : e = [m.early EXCEPT !.pending = Nobody, !.failed = x]
    OBVIOUS
  <1>4. e \in Earlies /\ e.pending = Nobody /\ e.failed = x /\ e.penalty = m.early.penalty
        /\ e.forfeited = m.early.forfeited
    BY <1>1, <1>3 DEF Earlies
  <1>5. r = [m EXCEPT !["early"] = e]
    BY <1>1, <1>2, <1>3 DEF RequestLost
  <1>6. Same(m, r, {"early"}) /\ WellTyped(r) /\ r.early = e
    <2>1. "early" \in Fields /\ e \in Shape["early"]
      BY <1>4, FieldsAre DEF Shape
    <2>2. Put(m, r, "early", e)
      BY <1>0, <1>5, <2>1, NewField
    <2>3. QED
      BY <2>2 DEF Put
  <1>7. /\ r.phase = m.phase /\ Traded(r) = Traded(m) /\ Vaulted(r) = Vaulted(m) /\ Debts(r) = Debts(m)
        /\ r.accounts = m.accounts /\ Purses(r) = Purses(m)
    BY <1>6, FieldsAre DEF Same, Traded, Vaulted, Debts, Purses
  <1>8. Escrow(r) = Escrow(m)
    BY <1>0, <1>1, <1>2, <1>4, <1>6 DEF Escrow, Pending
  <1>9. Money(r) = Money(m)
    BY <1>7, <1>8 DEF Money
  <1>10. Parts(r, n)
    <2>1. Same(m, r, {"accounts", "creatorFees", "protocolFees", "now", "early"})
      BY <1>6 DEF Same
    <2>2. AllBut(m, r, {"wallet", "refund"})
      BY <1>7 DEF AllBut
    <2>3. QED
      BY <1>0, <1>4, <1>6, <2>1, <2>2, FrameKept DEF Good
  <1>11. QED
    BY <1>6, <1>7, <1>9, <1>10, GoodKept

LEMMA KeptIsGood ==
    ASSUME NEW m, NEW n, Good(m, n), m.early.pending # Nobody, NEW r, r = RequestKept(m)
    PROVE  Good(r, n) /\ r.phase = m.phase
  <1>0. WellTyped(m) /\ Bond \in Nat \ {0}
    BY Constants DEF Good
  <1>1. m.early \in Earlies /\ m.early.pending \in Proposals /\ "early" \in DOMAIN m
    BY <1>0, TypedIs, SumsAre, FieldsAre
  <1>2. PICK u \in Accounts : u = m.early.pending.proposer
    BY <1>1 DEF Proposals
  <1>3. PICK e : e = [m.early EXCEPT !.pending = Nobody]
    OBVIOUS
  <1>4. e \in Earlies /\ e.pending = Nobody /\ e.failed = m.early.failed /\ e.penalty = m.early.penalty
        /\ e.forfeited = m.early.forfeited
    BY <1>1, <1>3 DEF Earlies
  <1>5. PICK d : d = [m EXCEPT !["early"] = e]
    OBVIOUS
  <1>6. Same(m, d, {"early"}) /\ WellTyped(d) /\ d.early = e
    <2>1. "early" \in Fields /\ e \in Shape["early"]
      BY <1>4, FieldsAre DEF Shape
    <2>2. Put(m, d, "early", e)
      BY <1>0, <1>5, <2>1, NewField
    <2>3. QED
      BY <2>2 DEF Put
  <1>7. d = [m EXCEPT !.early.pending = Nobody]
    BY <1>1, <1>3, <1>5
  <1>8. PICK a : a = [d.accounts[u] EXCEPT !.refund = @ + Bond]
    OBVIOUS
  <1>9. r = [d EXCEPT !.accounts[u] = a]
    <2>1. r = [d EXCEPT !.accounts[u].refund = @ + Bond]
      BY <1>2, <1>7, Zenon DEF RequestKept
    <2>2. QED
      BY <1>6, <1>8, <2>1, TypedIs, FieldsAre
  <1>10. a \in AccountRecords /\ a.refund = d.accounts[u].refund + Bond
        /\ \A f \in Own \ {"refund"} : a[f] = d.accounts[u][f]
    BY <1>0, <1>6, <1>8, AccountIs DEF AccountRecords, Own
  <1>11. Rewritten(d, r, u, a)
    BY <1>6, <1>9, <1>10, NewAccount
  <1>12. Same(d, r, {"accounts"}) /\ SameAccount(d, r, u, {"refund"}) /\ WellTyped(r)
    BY <1>10, <1>11 DEF Rewritten, SameAccount
  <1>13. Same(m, r, {"accounts", "early"}) /\ r.early = e /\ d.accounts = m.accounts
    BY <1>6, <1>12, FieldsAre DEF Same
  <1>14. SameAccount(m, r, u, {"refund"}) /\ r.accounts[u].refund = m.accounts[u].refund + Bond
    BY <1>10, <1>11, <1>12, <1>13 DEF SameAccount, Rewritten
  <1>15. /\ r.phase = m.phase /\ Traded(r) = Traded(m) /\ Vaulted(r) = Vaulted(m) /\ Debts(r) = Debts(m)
    BY <1>13, FieldsAre DEF Same, Traded, Vaulted, Debts
  <1>16. /\ Col(r.accounts, "wallet") = Col(m.accounts, "wallet")
         /\ Col(r.accounts, "refund") + m.accounts[u].refund = Col(m.accounts, "refund") + r.accounts[u].refund
    <2>1. /\ \A f \in Sums : Col(r.accounts, f) + m.accounts[u][f] = Col(m.accounts, f) + r.accounts[u][f]
          /\ \A f \in Sums \ {"refund"} : Col(r.accounts, f) = Col(m.accounts, f)
      BY <1>0, <1>12, <1>14, AccountMoves
    <2>2. QED
      BY <2>1 DEF Sums
  <1>17. Purses(r) = Purses(m) + Bond
    <2>1. /\ Col(m.accounts, "wallet") \in Nat /\ Col(m.accounts, "refund") \in Nat
             /\ Col(r.accounts, "refund") \in Nat
          /\ m.accounts[u].refund \in Nat
      BY <1>0, <1>12, SumsAre, AccountIs
    <2>2. QED
      BY <1>0, <1>14, <1>16, <2>1 DEF Purses
  <1>18. Escrow(m) = Escrow(r) + Bond
    <2>1. m.early.penalty \in Nat /\ m.early.failed \in Nat
      BY <1>0, SumsAre
    <2>2. QED
      BY <1>0, <1>4, <1>13, <2>1 DEF Escrow, Pending
  <1>19. Money(r) = Money(m)
    <2>1. Purses(m) \in Nat /\ Escrow(r) \in Nat /\ Traded(m) \in Nat /\ Vaulted(m) \in Nat /\ Debts(m) \in Nat
      BY <1>0, <1>12, MoneyType
    <2>2. QED
      BY <1>0, <1>15, <1>17, <1>18, <2>1 DEF Money
  <1>20. Parts(r, n)
    <2>1. Same(m, r, {"accounts", "creatorFees", "protocolFees", "now", "early"})
      BY <1>13 DEF Same
    <2>2. AllBut(m, r, {"wallet", "refund"})
      BY <1>14 DEF AllBut, SameAccount
    <2>3. QED
      BY <1>0, <1>4, <1>12, <1>13, <2>1, <2>2, FrameKept DEF Good
  <1>21. QED
    BY <1>12, <1>15, <1>19, <1>20, GoodKept

LEMMA ProcessedIsGood ==
    ASSUME Paper!SlackIsBounded, NEW m, NEW n \in Nat, Good(m, n), Paper!ProcessEarly(m)
    PROVE  acts' = acts - 1 /\ time' = time /\ Good(book', n)
  <1>1. m.phase \in Live /\ m.early.pending # Nobody
    BY DEF Paper!ProcessEarly, Paper!EarlyDue, Live
  <1>2. PICK k, l : k = RequestKept(m) /\ l = RequestLost(m)
    OBVIOUS
  <1>3. Good(k, n) /\ k.phase \in Live /\ Good(l, n) /\ l.phase \in Live
    BY <1>1, <1>2, KeptIsGood, LostIsGood
  <1>4. Good(Paper!Settle(k), n) /\ Good(Paper!Settle(l), n)
    BY <1>3, SettleIsGood
  <1>5. Paper!Store(IF Paper!Majority(m) = m.early.pending.side THEN Paper!Settle(k) ELSE
        IF m.now >= TC THEN Paper!Settle(l) ELSE l)
    BY <1>2, Zenon DEF Paper!ProcessEarly, RequestKept, RequestLost
  <1>6. book' \in {Paper!Settle(k), Paper!Settle(l), l} /\ acts' = acts - 1 /\ time' = time
    BY <1>5 DEF Paper!Store
  <1>7. QED
    BY <1>3, <1>4, <1>6

-----------------------------------------------------------------------------
(* Every order leaves a good document behind. *)
Keeps(n) == acts' = acts - 1 /\ time' = time /\ Good(book', n + 1)

LEMMA StoreKeeps == ASSUME NEW n, NEW r, Good(r, n + 1), Paper!Store(r) PROVE Keeps(n)
  BY DEF Paper!Store, Keeps

LEMMA GenesisKeeps ==
    ASSUME Paper!SlackIsBounded, NEW m, NEW n \in Nat, Good(m, n), n <= K, NEW u \in Accounts, NEW k \in Shares,
           Paper!GenesisBuy(m, u, k) \/ Paper!GenesisSell(m, u, k)
    PROVE  Keeps(n)
  <1>0. k \in Nat \ {0}
    BY Constants
  <1>1. CASE Paper!GenesisBuy(m, u, k)
    <2>1. m.phase = "GENESIS" /\ Paper!QuoteBuy(m, k) <= m.accounts[u].wallet
          /\ Paper!Store(Paper!Bought(m, u, k))
      BY <1>1 DEF Paper!GenesisBuy, Paper!GenesisOpen
    <2>2. PICK r : r = Paper!Bought(m, u, k)
      OBVIOUS
    <2>3. Good(r, n + 1)
      BY <1>0, <2>1, <2>2, BoughtIsGood
    <2>4. QED
      BY <2>1, <2>2, <2>3, StoreKeeps
  <1>2. CASE Paper!GenesisSell(m, u, k)
    <2>1. PICK x : x = Paper!QuoteSell(m, k)
      OBVIOUS
    <2>2. m.phase = "GENESIS" /\ k <= m.accounts[u].g /\ Paper!Store(Sale(m, u, k, x))
      BY <1>2, <2>1, Zenon DEF Paper!GenesisSell, Paper!GenesisOpen, Sale
    <2>3. PICK r : r = Sale(m, u, k, x)
      OBVIOUS
    <2>4. Good(r, n + 1)
      BY <1>0, <2>1, <2>2, <2>3, SoldIsGood
    <2>5. QED
      BY <2>2, <2>3, <2>4, StoreKeeps
  <1>3. QED
    BY <1>1, <1>2

LEMMA MaxIsMember ==
    ASSUME NEW A, IsFiniteSet(A), A # {}, A \subseteq Int
    PROVE  Paper!Max(A) \in A
  <1> DEFINE P == {T \in SUBSET A : T # {} => \E x \in T : \A y \in T : x >= y}
  <1>1. ASSUME NEW T \in SUBSET A, \A U \in SUBSET T : U # T => U \in P
        PROVE  T \in P
    <2>1. CASE T = {}
      BY <2>1
    <2>2. CASE T # {}
      <3>1. PICK x \in T : TRUE
        BY <2>2
      <3>2. PICK U : U = T \ {x}
        OBVIOUS
      <3>3. U \in P
        BY <1>1, <3>1, <3>2
      <3>4. CASE U = {}
        <4>1. \A y \in T : x >= y
          BY <3>1, <3>2, <3>4
        <4>2. QED
          BY <3>1, <4>1
      <3>5. CASE U # {}
        <4>1. PICK z \in U : \A y \in U : z >= y
          BY <3>3, <3>5
        <4>2. x \in Int /\ z \in Int /\ \A y \in T : y \in Int /\ (y = x \/ y \in U)
          BY <3>1, <3>2
        <4>3. PICK w \in {x, z} : w >= x /\ w >= z
          BY <4>2
        <4>4. w \in T /\ \A y \in T : w >= y
          BY <3>2, <4>1, <4>2, <4>3
        <4>5. QED
          BY <4>4
      <3>6. QED
        BY <3>4, <3>5
    <2>3. QED
      BY <2>1, <2>2
  <1> HIDE DEF P
  <1>2. \A T \in SUBSET A : T \in P
    BY <1>1, SubsetInduction
  <1>3. A \in P
    BY <1>2
  <1>4. \E x \in A : \A y \in A : x >= y
    BY <1>3 DEF P
  <1>5. QED
    BY <1>4 DEF Paper!Max

\* The bisection names tokens that the budget buys.
LEMMA AffordableIs ==
    ASSUME NEW m, NEW s, NEW x, Paper!Affordable(m, s, x) # {}
    PROVE  LET k == Paper!Max(Paper!Affordable(m, s, x))
           IN  k \in Lots /\ Paper!CurveDelta(m, s, k) > 0 /\ Paper!QuoteFormalBuy(m, s, k) <= x
  <1>1. PICK A : A = Paper!Affordable(m, s, x)
    OBVIOUS
  <1>2. A \subseteq Lots /\ A # {} /\ IsFiniteSet(A) /\ A \subseteq Int
    <2>1. A \subseteq Lots
      BY <1>1 DEF Paper!Affordable
    <2>2. IsFiniteSet(Lots) /\ Lots \subseteq Nat
      BY PaperAssumption, CountingIs DEF Paper!PaperMarketAssumption
    <2>3. A \in SUBSET Lots /\ IsFiniteSet(Lots)
      BY <2>1, <2>2
    <2>4. IsFiniteSet(A)
      BY <2>3, FS_Subset
    <2>5. A \subseteq Int
      BY <2>1, <2>2
    <2>6. QED
      BY <1>1, <2>1, <2>4, <2>5
  <1>3. PICK k : k = Paper!Max(A)
    OBVIOUS
  <1>4. k \in A
    BY <1>2, <1>3, MaxIsMember
  <1>5. k \in Lots /\ Paper!CurveDelta(m, s, k) > 0 /\ Paper!QuoteFormalBuy(m, s, k) <= x
    BY <1>1, <1>4 DEF Paper!Affordable
  <1>6. QED
    BY <1>1, <1>3, <1>5

LEMMA FormalKeeps ==
    ASSUME Paper!SlackIsBounded, NEW m, NEW n \in Nat, Good(m, n), NEW u \in Accounts, NEW s \in Paper!Side,
           NEW k \in Lots,
           Paper!FormalBuyShares(m, u, s, k) \/ Paper!FormalSell(m, u, s, k)
    PROVE  Keeps(n)
  <1>0. k \in Nat \ {0}
    BY Constants
  <1>1. CASE Paper!FormalBuyShares(m, u, s, k)
    <2>1. /\ m.phase = "FORMAL" /\ Paper!CurveDelta(m, s, k) > 0
             /\ Paper!QuoteFormalBuy(m, s, k) <= m.accounts[u].wallet
          /\ Paper!Store(Paper!FormalBought(m, u, s, k))
      BY <1>1 DEF Paper!FormalBuyShares, Paper!FormalOpen
    <2>2. PICK r : r = Paper!FormalBought(m, u, s, k)
      OBVIOUS
    <2>3. Good(r, n + 1)
      BY <1>0, <2>1, <2>2, FormalBoughtIsGood
    <2>4. QED
      BY <2>1, <2>2, <2>3, StoreKeeps
  <1>2. CASE Paper!FormalSell(m, u, s, k)
    <2>1. PICK p : p = Paper!QuoteFormalSell(m, s, k)
      OBVIOUS
    <2>2. m.phase = "FORMAL" /\ k <= m.accounts[u].held[s] /\ p > 0 /\ Paper!Store(FormalSale(m, u, s, k, p))
      BY <1>2, <2>1, Zenon DEF Paper!FormalSell, Paper!FormalOpen, FormalSale
    <2>3. PICK r : r = FormalSale(m, u, s, k, p)
      OBVIOUS
    <2>4. Good(r, n + 1)
      BY <1>0, <2>1, <2>2, <2>3, FormalSoldIsGood
    <2>5. QED
      BY <2>2, <2>3, <2>4, StoreKeeps
  <1>3. QED
    BY <1>1, <1>2

LEMMA BudgetKeeps ==
    ASSUME Paper!SlackIsBounded, NEW m, NEW n \in Nat, Good(m, n), NEW u \in Accounts, NEW s \in Paper!Side,
           NEW x \in Budgets,
           Paper!FormalBuy(m, u, s, x)
    PROVE  Keeps(n)
  <1>1. PICK k : k = Paper!Max(Paper!Affordable(m, s, x))
    OBVIOUS
  <1>2. /\ m.phase = "FORMAL" /\ x <= m.accounts[u].wallet /\ Paper!Affordable(m, s, x) # {}
        /\ Paper!Store(Paper!FormalBought(m, u, s, k))
    BY <1>1 DEF Paper!FormalBuy, Paper!FormalOpen
  <1>3. k \in Lots /\ Paper!CurveDelta(m, s, k) > 0 /\ Paper!QuoteFormalBuy(m, s, k) <= x
    BY <1>1, <1>2, AffordableIs
  <1>4. k \in Nat \ {0} /\ WellTyped(m)
    BY <1>3, Constants DEF Good
  <1>5. Paper!QuoteFormalBuy(m, s, k) <= m.accounts[u].wallet
    <2>1. PICK d \in Int : d = Paper!CurveDelta(m, s, k)
      <3>1. OnCurve(m) /\ m.phase \in Live
        BY <1>2 DEF Good, Parts, Live
      <3>2. k \in Nat /\ k \in Int /\ WellTyped(m)
        BY <1>4
      <3>3. PICK q \in [Paper!Side -> Nat] : q = [Quantities(m) EXCEPT ![s] = @ + k]
        <4>1. Quantities(m) \in [Paper!Side -> Nat]
          BY <1>4, QType
        <4>2. [Quantities(m) EXCEPT ![s] = @ + k] \in [Paper!Side -> Nat]
          BY <3>2, <4>1
        <4>3. QED
          BY <4>2
      <3>4. CurveReaches(m, s, k, q)
        BY <3>1, <3>2, <3>3, CurveMoves
      <3>5. QED
        BY <3>4 DEF CurveReaches
    <2>2. PICK a \in Nat, w \in Nat : a = x /\ w = m.accounts[u].wallet
      BY <1>4, Constants, AccountIs
    <2>3. (100 * d) \div 98 <= a /\ a <= w
      BY <1>2, <1>3, <2>1, <2>2 DEF Paper!QuoteFormalBuy
    <2>4. (100 * d) \div 98 <= w
      BY <2>3
    <2>5. QED
      BY <2>1, <2>2, <2>4 DEF Paper!QuoteFormalBuy
  <1>6. PICK r : r = Paper!FormalBought(m, u, s, k)
    OBVIOUS
  <1>7. Good(r, n + 1)
    BY <1>2, <1>3, <1>4, <1>5, <1>6, FormalBoughtIsGood
  <1>8. QED
    BY <1>2, <1>6, <1>7, StoreKeeps

LEMMA PairsKeep ==
    ASSUME Paper!SlackIsBounded, NEW m, NEW n \in Nat, Good(m, n), NEW u \in Accounts, NEW k \in Lots,
           Paper!RedeemPairs(m, u, k)
    PROVE  Keeps(n)
  <1>1. k \in Nat \ {0}
    BY Constants
  <1>2. /\ m.phase \in Live /\ (\A s \in Paper!Side : k <= m.accounts[u].held[s]) /\ k <= m.cash
        /\ Paper!Store(Redeemed(m, u, k))
    BY DEF Paper!RedeemPairs, Live, Redeemed
  <1>3. PICK r : r = Redeemed(m, u, k)
    OBVIOUS
  <1>4. Good(r, n)
    BY <1>1, <1>2, <1>3, RedeemedIsGood
  <1>5. QED
    BY <1>2, <1>3, <1>4, GoodGrows, StoreKeeps

LEMMA VaultKeeps ==
    ASSUME NEW m, NEW n \in Nat, Good(m, n), NEW u \in Accounts,
           \/ \E s \in Paper!Outcome, k \in Stakes : Paper!CoreStake(m, u, s, k)
           \/ Paper!CoreExit(m, u)
           \/ \E s \in Paper!Side : Paper!ProposeEarly(m, u, s)
    PROVE  Keeps(n)
  <1>1. ASSUME NEW s \in Paper!Outcome, NEW k \in Stakes, Paper!CoreStake(m, u, s, k) PROVE Keeps(n)
    <2>1. k \in Nat \ {0}
      BY Constants
    <2>2. /\ m.phase \in Live /\ m.accounts[u].side \in {Nobody, s} /\ k <= m.accounts[u].wallet
          /\ Paper!Store(Paper!Staked(m, u, s, k))
      BY <1>1 DEF Paper!CoreStake, Paper!CoreOpen, Live
    <2>3. PICK r : r = Paper!Staked(m, u, s, k)
      OBVIOUS
    <2>4. Good(r, n)
      BY <2>1, <2>2, <2>3, StakedIsGood
    <2>5. QED
      BY <2>2, <2>3, <2>4, GoodGrows, StoreKeeps
  <1>2. CASE Paper!CoreExit(m, u)
    <2>1. m.phase \in Live /\ m.accounts[u].stake > 0 /\ Paper!Store(Exited(m, u))
      BY <1>2, Zenon DEF Paper!CoreExit, Paper!CoreOpen, Live, Exited, Left
    <2>2. PICK r : r = Exited(m, u)
      OBVIOUS
    <2>3. Good(r, n)
      BY <2>1, <2>2, ExitedIsGood
    <2>4. QED
      BY <2>1, <2>2, <2>3, GoodGrows, StoreKeeps
  <1>3. ASSUME NEW s \in Paper!Side, Paper!ProposeEarly(m, u, s) PROVE Keeps(n)
    <2>1. m.early.pending = Nobody /\ Bond <= m.accounts[u].wallet /\ Paper!Store(Paper!Proposed(m, u, s))
      BY <1>3 DEF Paper!ProposeEarly
    <2>2. PICK r : r = Paper!Proposed(m, u, s)
      OBVIOUS
    <2>3. Good(r, n)
      BY <2>1, <2>2, ProposedIsGood
    <2>4. QED
      BY <2>1, <2>2, <2>3, GoodGrows, StoreKeeps
  <1>4. QED
    BY <1>1, <1>2, <1>3

LEMMA ClaimsKeep ==
    ASSUME NEW m, NEW n \in Nat, Good(m, n), NEW u \in Accounts,
           Paper!ClaimEarlyBond(m, u) \/ Paper!Claim(m, u) \/ Paper!ClaimCore(m, u) \/ Paper!ClaimCreatorFees(m)
    PROVE  Keeps(n)
  <1>1. CASE Paper!ClaimEarlyBond(m, u)
    <2>1. Paper!Store(Paper!Receive([m EXCEPT !.accounts[u].refund = 0], u, m.accounts[u].refund))
      BY <1>1 DEF Paper!ClaimEarlyBond
    <2>2. PICK r : r = Paper!Receive([m EXCEPT !.accounts[u].refund = 0], u, m.accounts[u].refund)
      OBVIOUS
    <2>3. Good(r, n)
      BY <2>2, EarlyBondIsGood
    <2>4. Paper!Store(r)
      BY <2>1, <2>2, Zenon
    <2>5. QED
      BY <2>3, <2>4, GoodGrows, StoreKeeps
  <1>2. CASE Paper!Claim(m, u)
    <2> DEFINE p == Paper!ClaimPreview(m, u)
    <2>1. m.phase \in Terminal /\ Paper!Store(ClaimPaid(m, u, p))
      BY <1>2, Zenon DEF Paper!Claim, Terminal, ClaimPaid
    <2>2. PICK r : r = ClaimPaid(m, u, p)
      OBVIOUS
    <2>3. Good(r, n)
      BY <2>1, <2>2, ClaimIsGood
    <2>4. Paper!Store(r)
      BY <2>1, <2>2, Zenon
    <2>5. QED
      BY <2>3, <2>4, GoodGrows, StoreKeeps
  <1>3. CASE Paper!ClaimCore(m, u)
    <2>1. /\ m.phase = "SETTLED" /\ ~m.accounts[u].claimed
          /\ Paper!Store(CorePaid(m, u))
      BY <1>3, Zenon DEF Paper!ClaimCore, CorePaid
    <2>2. PICK r : r = CorePaid(m, u)
      OBVIOUS
    <2>3. Good(r, n)
      BY <2>1, <2>2, ClaimCoreIsGood
    <2>4. Paper!Store(r)
      BY <2>1, <2>2, Zenon
    <2>5. QED
      BY <2>3, <2>4, GoodGrows, StoreKeeps
  <1>4. CASE Paper!ClaimCreatorFees(m)
    <2>1. Paper!Store(Paper!Receive([m EXCEPT !.creatorFees = 0], Creator, m.creatorFees))
      BY <1>4 DEF Paper!ClaimCreatorFees
    <2>2. PICK r : r = Paper!Receive([m EXCEPT !.creatorFees = 0], Creator, m.creatorFees)
      OBVIOUS
    <2>3. Good(r, n)
      BY <2>2, CreatorFeesAreGood
    <2>4. Paper!Store(r)
      BY <2>1, <2>2, Zenon
    <2>5. QED
      BY <2>3, <2>4, GoodGrows, StoreKeeps
  <1>5. QED
    BY <1>1, <1>2, <1>3, <1>4

-----------------------------------------------------------------------------
(* The markets to start from. *)
LEMMA NewMarketIsTyped == WellTyped(Paper!NewMarket)
  <1> DEFINE m == Paper!NewMarket
  <1>0. Grant \in Nat
    BY Constants
  <1>1. Paper!Nothing \in Books
    BY DEF Paper!Nothing, Books
  <1>2. Paper!Account \in AccountRecords
    BY <1>0, <1>1 DEF Paper!Account, AccountRecords
  <1>3. Fields \subseteq DOMAIN m
    BY FieldsAre DEF Paper!NewMarket
  <1>4. /\ m["phase"] \in Shape["phase"] /\ m["now"] \in Shape["now"] /\ m["R"] \in Shape["R"]
           /\ m["S"] \in Shape["S"]
        /\ m["b"] \in Shape["b"] /\ m["M0"] \in Shape["M0"] /\ m["cash"] \in Shape["cash"]
    BY DEF Paper!NewMarket, Shape
  <1>5. /\ m["lpFees"] \in Shape["lpFees"] /\ m["creatorFees"] \in Shape["creatorFees"]
        /\ m["protocolFees"] \in Shape["protocolFees"] /\ m["lpSupply"] \in Shape["lpSupply"]
        /\ m["result"] \in Shape["result"]
    BY DEF Paper!NewMarket, Shape
  <1>6. m["accounts"] \in Shape["accounts"]
    BY <1>2 DEF Paper!NewMarket, Shape
  <1>7. m["core"] \in Shape["core"] /\ m["early"] \in Shape["early"]
    BY <1>1 DEF Paper!NewMarket, Shape, Cores, Earlies
  <1>8. m["budget"] \in Shape["budget"] /\ m["initial"] \in Shape["initial"] /\ m["payouts"] \in Shape["payouts"]
    BY DEF Paper!NewMarket, Shape, BudgetBooks
  <1> HIDE DEF m
  <1>9. \A f \in Fields : m[f] \in Shape[f]
    BY <1>4, <1>5, <1>6, <1>7, <1>8, FieldsAre
  <1>10. QED
    BY <1>3, <1>9 DEF WellTyped, m

LEMMA NewMarketIsGood == Good(Paper!NewMarket, 0)
  <1>1. WellTyped(Paper!NewMarket)
    BY NewMarketIsTyped
  <1>2. PICK m : m = Paper!NewMarket
    OBVIOUS
  <1>3. /\ m.phase = "GENESIS" /\ m.R = 0 /\ m.S = 0 /\ m.cash = 0 /\ m.lpFees = 0 /\ m.creatorFees = 0
        /\ m.protocolFees = 0 /\ m.early.pending = Nobody /\ m.early.penalty = 0 /\ m.early.failed = 0
        /\ m.core.cash = 0 /\ m.core.fees = 0
    BY <1>2 DEF Paper!NewMarket
  <1>4. /\ m.budget.lp = 0 /\ m.budget.outcomes = 0 /\ m.budget.failed = 0 /\ m.budget.core = 0
           /\ m.budget.official = 0
        /\ \A u \in Accounts : m.payouts[u] = 0
    BY <1>2 DEF Paper!NewMarket
  <1>5. \A i \in Paper!Outcome : m.core.pool[i] = 0 /\ m.core.official[i] = 0 /\ m.early.forfeited[i] = 0
    BY <1>2 DEF Paper!NewMarket, Paper!Nothing
  <1>6. m.accounts = [u \in Accounts |-> Paper!Account]
    BY <1>2 DEF Paper!NewMarket
  <1>7. \A u \in Accounts : /\ m.accounts[u].g = 0 /\ m.accounts[u].refund = 0 /\ m.accounts[u].side = Nobody
                         /\ m.accounts[u].stake = 0 /\ ~m.accounts[u].claimed /\ m.accounts[u].wallet = Grant
    BY <1>6 DEF Paper!Account
  <1>8. \A u \in Accounts : /\ \A s \in Paper!Side : m.accounts[u].held[s] = 0
                         /\ \A i \in Paper!Outcome : m.accounts[u].reward[i] = 0
    BY <1>6 DEF Paper!Account, Paper!Nothing
  <1>9. Col(m.accounts, "g") = 0 /\ Col(m.accounts, "refund") = 0
    <2>1. \A u \in Accounts : m.accounts[u]["g"] = 0 /\ m.accounts[u]["refund"] = 0
      BY <1>7
    <2>2. \A u \in Accounts : /\ [v \in Accounts |-> m.accounts[v]["g"]][u] = 0
                           /\ [v \in Accounts |-> m.accounts[v]["refund"]][u] = 0
      BY <2>1
    <2>3. QED
      BY <2>2, TotalZero DEF Col
  <1>10. ASSUME NEW s \in Paper!Side PROVE HeldOf(m.accounts, s) = 0
    <2>1. \A u \in Accounts : [v \in Accounts |-> m.accounts[v].held[s]][u] = 0
      BY <1>8
    <2>2. QED
      BY <2>1, TotalZero DEF HeldOf
  <1>11. ASSUME NEW i \in Paper!Outcome PROVE RewardOf(m.accounts, i) = 0 /\ StakeOf(m.accounts, i) = 0
    <2>1. \A u \in Accounts : /\ [v \in Accounts |-> m.accounts[v].reward[i]][u] = 0
                           /\ [v \in Accounts |-> IF m.accounts[v].side = i THEN m.accounts[v].stake ELSE 0][u]
                              = 0
      BY <1>7, <1>8
    <2>2. QED
      BY <2>1, TotalZero DEF RewardOf, StakeOf
  <1>12. Col(m.accounts, "wallet") = Grant * Players
    <2>1. \A u \in Accounts : m.accounts[u]["wallet"] = Grant
      BY <1>7
    <2>2. [u \in Accounts |-> m.accounts[u]["wallet"]] = [u \in Accounts |-> Grant]
      BY <2>1
    <2>3. Total([u \in Accounts |-> Grant]) = Grant * Players
      BY Constants, TotalConstant
    <2>4. QED
      BY <2>2, <2>3, Zenon DEF Col
  <1>13. Players \in Nat /\ Grant * Players \in Nat
    <2>1. Players \in Nat /\ Grant \in Nat
      BY UsersFinite, Constants
    <2>2. QED
      BY <2>1
  <1>14. MoneyIsKept(m, 0)
    <2>1. PICK x \in Nat : x = Grant * Players
      BY <1>13
    <2>2. Purses(m) = x /\ Escrow(m) = 0 /\ Traded(m) = 0 /\ Vaulted(m) = 0 /\ Debts(m) = 0
      BY <1>3, <1>4, <1>9, <1>12, <2>1 DEF Purses, Escrow, Traded, Vaulted, Debts, Pending
    <2>3. Money(m) = x
      BY <2>2 DEF Money
    <2>4. Drift(m, 0) = 0
      BY <1>3 DEF Drift
    <2>5. QED
      BY <2>1, <2>3, <2>4 DEF MoneyIsKept
  <1>15. OnParabola(m, 0)
    <2>1. K * 0 * 0 = 0
      BY Constants
    <2>2. QED
      BY <1>3, <1>9, <1>10, <2>1 DEF OnParabola
  <1>16. VaultAdds(m, 0)
    <2>1. \A i \in Paper!Outcome : FeesOf(m, i) = 0
      BY <1>5, <1>11 DEF FeesOf
    <2>2. Players * 0 = 0
      BY <1>13
    <2>3. \A s \in Paper!Outcome : m.core.pool[s] = StakeOf(m.accounts, s)
      BY <1>5, <1>11
    <2>4. m.core.cash = m.core.pool["YES"] + m.core.pool["NO"] + m.core.pool["INVALID"]
      BY <1>3, <1>5 DEF Paper!Outcome, Paper!Side
    <2>5. QED
      BY <1>3, <1>7, <2>1, <2>2, <2>3, <2>4 DEF VaultAdds
  <1>17. NothingOwed(m)
    <2>1. Debts(m) = 0
      BY <1>4 DEF Debts
    <2>2. QED
      BY <1>4, <1>7, <2>1 DEF NothingOwed
  <1>18. OnCurve(m) /\ OwedIsKept(m)
    BY <1>3 DEF OnCurve, OwedIsKept, Live
  <1>19. QED
    BY <1>1, <1>2, <1>14, <1>15, <1>16, <1>17, <1>18 DEF Good, Parts

LEMMA StakesAndLots ==
    Paper!Max(Shares) \in Nat \ {0} /\ Paper!Max(Lots) \in Nat \ {0} /\ Paper!Max(Stakes) \in Nat \ {0}
  <1>1. \A S \in {Shares, Lots, Stakes} : IsFiniteSet(S) /\ S # {} /\ S \subseteq Int /\ S \subseteq Nat \ {0}
    BY PaperAssumption, CountingIs DEF Paper!PaperMarketAssumption
  <1>2. Paper!Max(Shares) \in Shares /\ Paper!Max(Lots) \in Lots /\ Paper!Max(Stakes) \in Stakes
    BY <1>1, MaxIsMember
  <1>3. QED
    BY <1>1, <1>2

LEMMA GraduatedIsGood ==
    ASSUME Paper!SlackIsBounded, NEW v \in Accounts
    PROVE  Good(Paper!Graduated(v), 2) /\ Paper!Graduated(v).phase = "FORMAL"
  <1>1. PICK n \in Nat \ {0} : n = Paper!Max(Shares)
    BY StakesAndLots
  <1>2. PICK m, first, second : m = Paper!NewMarket /\ first = Paper!Bought(m, Creator, n)
        /\ second = Paper!Bought(first, v, n)
    OBVIOUS
  <1>3. second = Paper!Graduated(v)
    BY <1>1, <1>2 DEF Paper!Graduated
  <1>4. Paper!StartsAreReached
    BY PaperAssumption
  <1>5. /\ Paper!QuoteBuy(m, n) <= Grant /\ first.phase = "GENESIS"
        /\ Paper!QuoteBuy(first, n) <= first.accounts[v].wallet /\ second.phase = "FORMAL"
    BY <1>1, <1>2, <1>3, <1>4, Zenon DEF Paper!StartsAreReached
  <1>6. Good(m, 0) /\ m.phase = "GENESIS" /\ m.accounts[Creator].wallet = Grant /\ Creator \in Accounts
    <2>1. m.phase = "GENESIS" /\ \A u \in Accounts : m.accounts[u].wallet = Grant
      BY <1>2 DEF Paper!NewMarket, Paper!Account
    <2>2. QED
      BY <1>2, <2>1, NewMarketIsGood, Constants
  <1>7. Good(first, 0 + 1)
    BY <1>2, <1>5, <1>6, BoughtIsGood
  <1>8. Good(first, 1)
    BY <1>7
  <1>9. Good(second, 1 + 1)
    BY <1>2, <1>5, <1>8, BoughtIsGood
  <1>10. QED
    BY <1>3, <1>5, <1>9

LEMMA RunningIsGood ==
    ASSUME Paper!SlackIsBounded, NEW v \in Accounts, v # Creator, NEW s \in Paper!Outcome
    PROVE  Good(Paper!Running(v, s), 4) /\ Paper!Running(v, s).early.pending = Nobody
           /\ Bond <= Paper!Running(v, s).accounts[v].wallet
  <1>1. PICK stake \in Nat \ {0}, lot \in Nat \ {0} : stake = Paper!Max(Stakes) /\ lot = Paper!Max(Lots)
    BY StakesAndLots
  <1>2. PICK second, one, both, third, last :
          /\ second = Paper!Graduated(v) /\ one = Paper!Staked(second, Creator, "YES", stake)
             /\ both = Paper!Staked(one, v, s, stake)
          /\ third = Paper!FormalBought(both, Creator, "YES", lot)
             /\ last = Paper!FormalBought(third, v, "NO", lot)
    OBVIOUS
  <1>3. last = Paper!Running(v, s)
    BY <1>1, <1>2, Zenon DEF Paper!Running
  <1>4. Paper!StartsAreReached
    BY PaperAssumption
  <1>5. /\ second.accounts[Creator].side \in {Nobody, "YES"} /\ stake <= second.accounts[Creator].wallet
        /\ one.accounts[v].side \in {Nobody, s} /\ stake <= one.accounts[v].wallet
        /\ Paper!CurveDelta(both, "YES", lot) > 0
        /\ Paper!QuoteFormalBuy(both, "YES", lot) <= both.accounts[Creator].wallet
        /\ Paper!CurveDelta(third, "NO", lot) > 0
        /\ Paper!QuoteFormalBuy(third, "NO", lot) <= third.accounts[v].wallet
        /\ last.early.pending = Nobody /\ Bond <= last.accounts[v].wallet
    BY <1>1, <1>2, <1>3, <1>4, Zenon DEF Paper!StartsAreReached
  <1>6. Creator \in Accounts /\ "YES" \in Paper!Side /\ "NO" \in Paper!Side /\ "YES" \in Paper!Outcome
    BY Constants DEF Paper!Side, Paper!Outcome
  <1>7. Good(second, 2) /\ second.phase = "FORMAL"
    BY <1>2, GraduatedIsGood
  <1>8. Good(one, 2) /\ one.phase = "FORMAL"
    BY <1>2, <1>5, <1>6, <1>7, StakedIsGood DEF Live
  <1>9. Good(both, 2) /\ both.phase = "FORMAL"
    BY <1>2, <1>5, <1>6, <1>8, StakedIsGood DEF Live
  <1>10. Good(third, 2 + 1) /\ third.phase = "FORMAL"
    BY <1>2, <1>5, <1>6, <1>9, FormalBoughtIsGood
  <1>11. Good(third, 3)
    BY <1>10
  <1>12. Good(last, 3 + 1)
    BY <1>2, <1>5, <1>6, <1>10, <1>11, FormalBoughtIsGood
  <1>13. QED
    BY <1>3, <1>5, <1>12

LEMMA StartIsGood == ASSUME Paper!SlackIsBounded, Paper!Init PROVE Good(book, 4)
  <1>1. ASSUME NEW m, Good(m, 2) PROVE Good(m, 4)
    <2>1. Good(m, 2 + 1)
      BY <1>1, GoodGrows
    <2>2. Good(m, 3)
      BY <2>1
    <2>3. Good(m, 3 + 1)
      BY <2>2, GoodGrows
    <2>4. QED
      BY <2>3
  <1>2. CASE book = Paper!NewMarket
    <2>1. Good(book, 0)
      BY <1>2, NewMarketIsGood
    <2>2. Good(book, 0 + 1)
      BY <2>1, GoodGrows
    <2>3. Good(book, 1)
      BY <2>2
    <2>4. Good(book, 1 + 1)
      BY <2>3, GoodGrows
    <2>5. Good(book, 2)
      BY <2>4
    <2>6. QED
      BY <1>1, <2>5
  <1>3. ASSUME NEW v \in Accounts, book = Paper!Graduated(v) PROVE Good(book, 4)
    BY <1>1, <1>3, GraduatedIsGood
  <1>4. ASSUME NEW v \in Accounts \ {Creator}, NEW s \in Paper!Outcome, book = Paper!Running(v, s)
        PROVE Good(book, 4)
    BY <1>4, RunningIsGood
  <1>5. ASSUME NEW v \in Accounts \ {Creator}, NEW s \in Paper!Outcome,
        book = Paper!Proposed(Paper!Running(v, s), v, "NO") PROVE Good(book, 4)
    <2>1. PICK m, r : m = Paper!Running(v, s) /\ r = Paper!Proposed(m, v, "NO")
      OBVIOUS
    <2>2. Good(m, 4) /\ m.early.pending = Nobody /\ Bond <= m.accounts[v].wallet /\ v \in Accounts
          /\ "NO" \in Paper!Side
      BY <2>1, RunningIsGood DEF Paper!Side
    <2>3. Good(r, 4)
      BY <2>1, <2>2, ProposedIsGood
    <2>4. QED
      BY <1>5, <2>1, <2>3
  <1>6. QED
    BY <1>2, <1>3, <1>4, <1>5 DEF Paper!Init, Paper!Outcome, Paper!Side

-----------------------------------------------------------------------------
(* A good document passes the assertion. *)
LEMMA ProductIsMonotone ==
    ASSUME NEW a \in Nat, NEW x \in Nat, NEW y \in Nat, x <= y
    PROVE  a * x \in Nat /\ a * y \in Nat /\ a * x <= a * y
  <1>1. PICK d \in Nat : y = x + d
    <2>1. y - x \in Nat /\ y = x + (y - x)
      OBVIOUS
    <2>2. QED
      BY <2>1
  <1>2. a * x \in Nat /\ a * y \in Nat /\ a * d \in Nat /\ a * y = a * x + a * d
    BY <1>1
  <1>3. QED
    BY <1>2

LEMMA EpsCovers ==
    ASSUME NEW m, NEW n \in Nat, n <= MaxOrders + 4
    PROVE  Drift(m, n) \in Nat /\ Drift(m, n) <= Eps /\ n <= Eps /\ Players <= Eps /\ Eps \in Nat
  <1>1. PICK k \in Nat, o \in Nat, e \in Nat : k = Players /\ o = MaxOrders + 4 /\ e = Eps
    <2>1. Players \in Nat /\ MaxOrders + 4 \in Nat /\ Eps \in Nat
      BY UsersFinite, Constants
    <2>2. QED
      BY <2>1
  <1>2. e >= (3 + k) * o + 2 * k
    BY <1>1, Constants
  <1>3. (3 + k) * n <= (3 + k) * o /\ (3 + k) * n \in Nat /\ (3 + k) * o \in Nat
    <2>1. 3 + k \in Nat /\ n <= o
      BY <1>1
    <2>2. QED
      BY <1>1, <2>1, ProductIsMonotone
  <1>4. 3 * n <= (3 + k) * n /\ k * n \in Nat
    <2>1. (3 + k) * n = 3 * n + k * n /\ k * n \in Nat
      OBVIOUS
    <2>2. QED
      BY <2>1
  <1>5. 3 * n <= e /\ (3 + k) * n + 2 * k <= e /\ n <= e /\ k <= e
    BY <1>2, <1>3, <1>4
  <1>6. Drift(m, n) \in {3 * n, (3 + k) * n + 2 * k}
    BY <1>1 DEF Drift
  <1>7. Drift(m, n) \in Nat /\ Drift(m, n) <= e
    BY <1>3, <1>5, <1>6
  <1>8. QED
    BY <1>1, <1>5, <1>7

LEMMA NearIs == ASSUME NEW x \in Int, NEW y \in Int, x <= y + Eps, y <= x + Eps PROVE Paper!Near(x, y)
  <1>1. Eps \in Nat
    BY Constants
  <1>2. QED
    BY <1>1 DEF Paper!Near

LEMMA BalancesArePositive == ASSUME NEW m, WellTyped(m) PROVE \A x \in Paper!Balances(m) : x >= -Eps
  <1>1. m.R \in Nat /\ m.cash \in Nat /\ m.core.cash \in Nat /\ m.core.fees \in Nat
    BY TypedIs, SumsAre
  <1>2. \A k \in DOMAIN m.budget : m.budget[k] \in Nat
    <2>1. m.budget \in BudgetBooks
      BY TypedIs
    <2>2. \A b \in BudgetBooks : \A k \in DOMAIN b : b[k] \in Nat
      BY DEF BudgetBooks
    <2>3. QED
      BY <2>1, <2>2
  <1>3. \A u \in Accounts : m.accounts[u].wallet \in Nat
    BY AccountIs
  <1>4. Paper!Balances(m) \subseteq Nat
    BY <1>1, <1>2, <1>3 DEF Paper!Balances
  <1>5. Eps \in Nat
    BY Constants
  <1>6. QED
    BY <1>4, <1>5

LEMMA GoodAdds ==
    ASSUME Paper!SlackIsBounded, NEW m, NEW n \in Nat, Good(m, n), n <= MaxOrders + 4
    PROVE  Paper!LedgerAdds(m)
  <1>0. WellTyped(m) /\ OnParabola(m, n) /\ OnCurve(m) /\ MoneyIsKept(m, n) /\ Eps \in Nat /\ Players \in Nat
    BY UsersFinite, Constants DEF Good, Parts
  <1>1. \A x \in Paper!Balances(m) : x >= -Eps
    BY <1>0, BalancesArePositive
  <1>2. Paper!Near(Paper!Wallets(m) + Paper!Reserves(m), Grant * Cardinality(Accounts))
    <2>1. PICK a \in Nat, d \in Nat : a = Money(m) /\ d = Drift(m, n) /\ d <= Eps
      BY <1>0, MoneyType, EpsCovers
    <2>2. PICK g \in Nat : g = Grant * Players
      <3>1. Grant * Players \in Nat
        BY <1>0, Constants
      <3>2. QED
        BY <3>1
    <2>3. a <= g /\ g <= a + d
      BY <1>0, <2>1, <2>2, Zenon DEF MoneyIsKept
    <2>4. a <= g + Eps /\ g <= a + Eps
      BY <1>0, <2>1, <2>3
    <2>5. Paper!Near(a, g)
      BY <2>4, NearIs
    <2>6. Paper!Wallets(m) + Paper!Reserves(m) = a /\ g = Grant * Cardinality(Accounts)
      BY <1>0, <2>1, <2>2, MoneyIs DEF Players
    <2>7. QED
      BY <2>5, <2>6
  <1>3. ASSUME m.phase = "GENESIS"
        PROVE  Paper!SumFunction([u \in Accounts |-> m.accounts[u].g]) = m.S /\ Paper!Near(m.R, K * m.S * m.S)
    <2>1. m.R \in Nat /\ m.S \in Nat /\ Col(m.accounts, "g") = m.S /\ m.R <= K * m.S * m.S
          /\ K * m.S * m.S <= m.R + n
      BY <1>0, <1>3, TypedIs DEF OnParabola
    <2>2. Paper!SumFunction([u \in Accounts |-> m.accounts[u].g]) = m.S
      BY <2>1, TotalIs DEF Col
    <2>3. PICK x \in Nat, y \in Nat : x = m.R /\ y = K * m.S * m.S
      <3>1. \A s \in Nat : K * s * s \in Nat
        BY Constants
      <3>2. QED
        BY <2>1, <3>1
    <2>4. x <= y + Eps /\ y <= x + Eps
      <3>1. n <= Eps
        BY EpsCovers
      <3>2. QED
        BY <1>0, <2>1, <2>3, <3>1
    <2>5. Paper!Near(x, y)
      BY <2>4, NearIs
    <2>6. QED
      BY <2>2, <2>3, <2>5
  <1>4. ASSUME m.phase \in Live
        PROVE  /\ Paper!SumFunction([u \in Accounts |-> m.accounts[u].lp]) = m.lpSupply
               /\ \A s \in Paper!Side : Quantities(m)[s] <= m.cash + Eps
               /\ Paper!Near(m.cash, m.M0 + Paper!Cost(Quantities(m), m.b) - Paper!Cost([s \in Paper!Side |-> 0],
                  m.b))
    <2>1. /\ m.b # 0 /\ m.M0 = m.b /\ m.cash = m.b + Paper!Cost(Quantities(m), m.b) - Slack(0, m.b)
             /\ Col(m.accounts, "lp") = m.lpSupply
          /\ m.cash \in Nat /\ m.b \in Nat \ {0} /\ Quantities(m) \in [Paper!Side -> Nat]
      BY <1>0, <1>4, TypedIs, QType DEF OnCurve
    <2>2. Paper!SumFunction([u \in Accounts |-> m.accounts[u].lp]) = m.lpSupply
      BY <2>1, TotalIs DEF Col
    <2>3. Paper!Cost([s \in Paper!Side |-> 0], m.b) = Slack(0, m.b)
      <3>1. PICK k \in Nat : k = Slack(0, m.b)
        BY <2>1, SlackType
      <3>2. Paper!Cost([s \in Paper!Side |-> 0], m.b) = 0 + k
        BY <3>1 DEF Paper!Cost, Paper!Side
      <3>3. QED
        BY <3>1, <3>2
    <2>4. Paper!Near(m.cash, m.cash)
      BY <1>0, <2>1, NearIs
    <2>5. m.M0 + Paper!Cost(Quantities(m), m.b) - Paper!Cost([s \in Paper!Side |-> 0], m.b) = m.cash
      BY <2>1, <2>3, Zenon
    <2>6. ASSUME NEW s \in Paper!Side PROVE Quantities(m)[s] <= m.cash + Eps
      <3>1. s \in Paper!Outcome /\ s # "INVALID"
        BY DEF Paper!Outcome, Paper!Side
      <3>2. Paper!Value(Quantities(m), s) <= m.cash
        BY <1>0, <1>4, <3>1, CashCovers
      <3>3. Quantities(m)[s] <= m.cash /\ Quantities(m)[s] \in Nat
        BY <2>1, <3>1, <3>2 DEF Paper!Value
      <3>4. QED
        BY <1>0, <2>1, <3>3
    <2>7. QED
      BY <2>2, <2>4, <2>5, <2>6
  <1>5. Paper!Coordinates(m) = Quantities(m)
    BY QIs
  <1>6. QED
    BY <1>1, <1>2, <1>3, <1>4, <1>5, CountingIs DEF Paper!LedgerAdds, Live

LEMMA OwedIs ==
    ASSUME NEW m
    PROVE  Paper!Owed(m) = [lp |-> OwedLp(m), outcomes |-> OwedOutcomes(m), failed |-> OwedFailed(m),
           core |-> OwedCore(m)]
  <1>1. Paper!SumFunction([u \in Accounts |-> Paper!ClaimPreview(m, u).lp]) = OwedLp(m)
    BY TotalIs DEF OwedLp
  <1>2. Paper!SumFunction([u \in Accounts |-> Paper!ClaimPreview(m, u).outcomes]) = OwedOutcomes(m)
    BY TotalIs DEF OwedOutcomes
  <1>3. Paper!SumFunction([u \in Accounts |-> Paper!ClaimPreview(m, u).failed]) = OwedFailed(m)
    BY TotalIs DEF OwedFailed
  <1>4. Paper!SumFunction([u \in Accounts |-> IF m.accounts[u].claimed THEN 0 ELSE m.payouts[u]]) = OwedCore(m)
    BY TotalIs DEF OwedCore
  <1>5. QED
    BY <1>1, <1>2, <1>3, <1>4, Zenon DEF Paper!Owed

\* Before the end nothing is owed, and nothing is kept for it.
LEMMA NothingIsOwed ==
    ASSUME NEW m, WellTyped(m), NothingOwed(m), m.phase \in Before
    PROVE  OwedLp(m) = 0 /\ OwedOutcomes(m) = 0 /\ OwedFailed(m) = 0 /\ OwedCore(m) = 0
  <1>1. \A u \in Accounts : Paper!ClaimPreview(m, u).lp = 0 /\ Paper!ClaimPreview(m, u).outcomes = 0
        /\ Paper!ClaimPreview(m, u).failed = 0
    BY DEF Paper!ClaimPreview, Paper!LPPart, Before
  <1>2. \A u \in Accounts : m.payouts[u] = 0
    BY DEF NothingOwed
  <1>3. \A u \in Accounts : /\ [v \in Accounts |-> Paper!ClaimPreview(m, v).lp][u] = 0
                         /\ [v \in Accounts |-> Paper!ClaimPreview(m, v).outcomes][u] = 0
                         /\ [v \in Accounts |-> Paper!ClaimPreview(m, v).failed][u] = 0
                         /\ [v \in Accounts |-> IF m.accounts[v].claimed THEN 0 ELSE m.payouts[v]][u] = 0
    BY <1>1, <1>2
  <1>4. QED
    BY <1>3, TotalZero DEF OwedLp, OwedOutcomes, OwedFailed, OwedCore

LEMMA OwedType ==
    ASSUME NEW m, WellTyped(m), m.phase = "SETTLED" => m.result \in Paper!Outcome
    PROVE  OwedLp(m) \in Nat /\ OwedOutcomes(m) \in Nat /\ OwedFailed(m) \in Nat
  <1>1. \A u \in Accounts : /\ Paper!ClaimPreview(m, u).lp \in Nat /\ Paper!ClaimPreview(m, u).outcomes \in Nat
                         /\ Paper!ClaimPreview(m, u).failed \in Nat
    BY PreviewType
  <1>2. \A u \in Accounts : /\ [v \in Accounts |-> Paper!ClaimPreview(m, v).lp][u] \in Nat
                         /\ [v \in Accounts |-> Paper!ClaimPreview(m, v).outcomes][u] \in Nat
                         /\ [v \in Accounts |-> Paper!ClaimPreview(m, v).failed][u] \in Nat
    BY <1>1
  <1>3. QED
    BY <1>2, TotalType DEF OwedLp, OwedOutcomes, OwedFailed

LEMMA CoversIsNear == ASSUME NEW x \in Nat, NEW y, Covers(x, y), y \in Nat, Players <= Eps PROVE Paper!Near(x, y)
  <1>1. Players \in Nat /\ Eps \in Nat
    BY UsersFinite, Constants
  <1>2. y <= x /\ x <= y + Players
    BY DEF Covers
  <1>3. x <= y + Eps /\ y <= x + Eps
    BY <1>1, <1>2
  <1>4. QED
    BY <1>3, NearIs

LEMMA GoodOwes ==
    ASSUME NEW m, NEW n \in Nat, Good(m, n), n <= MaxOrders + 4
    PROVE  \A k \in DOMAIN Paper!Owed(m) : Paper!Near(m.budget[k], Paper!Owed(m)[k])
  <1>0. WellTyped(m) /\ NothingOwed(m) /\ OwedIsKept(m) /\ Players <= Eps /\ Eps \in Nat /\ Players \in Nat
    BY UsersFinite, EpsCovers DEF Good, Parts
  <1>1. /\ m.budget.lp \in Nat /\ m.budget.outcomes \in Nat /\ m.budget.failed \in Nat /\ m.budget.core \in Nat
    BY <1>0, SumsAre
  <1>2. /\ Paper!Near(m.budget.lp, OwedLp(m)) /\ Paper!Near(m.budget.outcomes, OwedOutcomes(m))
        /\ Paper!Near(m.budget.failed, OwedFailed(m)) /\ Paper!Near(m.budget.core, OwedCore(m))
    <2>1. CASE m.phase \in Before
      <3>1. OwedLp(m) = 0 /\ OwedOutcomes(m) = 0 /\ OwedFailed(m) = 0 /\ OwedCore(m) = 0
        BY <1>0, <2>1, NothingIsOwed
      <3>2. m.budget.lp = 0 /\ m.budget.outcomes = 0 /\ m.budget.failed = 0 /\ m.budget.core = 0
        BY <1>0, <2>1, NoDebts DEF NothingOwed
      <3>3. Paper!Near(0, 0)
        BY <1>0, NearIs
      <3>4. QED
        BY <3>1, <3>2, <3>3
    <2>2. CASE m.phase \notin Before
      <3>1. m.phase \in {"SETTLED", "FAILED"}
        BY <1>0, <2>2, TypedIs DEF Before
      <3>2. /\ Covers(m.budget.lp, OwedLp(m)) /\ Covers(m.budget.outcomes, OwedOutcomes(m))
            /\ Covers(m.budget.failed, OwedFailed(m)) /\ m.budget.core = OwedCore(m)
        BY <1>0, <3>1 DEF OwedIsKept
      <3>3. OwedLp(m) \in Nat /\ OwedOutcomes(m) \in Nat /\ OwedFailed(m) \in Nat
        BY <1>0, <3>1, OwedType DEF OwedIsKept
      <3>4. Paper!Near(m.budget.core, m.budget.core)
        BY <1>0, <1>1, NearIs
      <3>5. QED
        BY <1>0, <1>1, <3>2, <3>3, <3>4, CoversIsNear
    <2>3. QED
      BY <2>1, <2>2
  <1>3. Paper!Owed(m) = [lp |-> OwedLp(m), outcomes |-> OwedOutcomes(m), failed |-> OwedFailed(m),
        core |-> OwedCore(m)]
    BY OwedIs
  <1>4. DOMAIN Paper!Owed(m) = {"lp", "outcomes", "failed", "core"}
    BY <1>3
  <1>5. ASSUME NEW k \in DOMAIN Paper!Owed(m) PROVE Paper!Near(m.budget[k], Paper!Owed(m)[k])
    BY <1>2, <1>3, <1>4
  <1>6. QED
    BY <1>5

-----------------------------------------------------------------------------
BookInv == acts \in 0..MaxOrders /\ time \in Nat /\ Good(book, 4 + (MaxOrders - acts))

LEMMA InitBook == ASSUME Paper!SlackIsBounded, Paper!Init PROVE BookInv
  <1>1. acts = MaxOrders /\ time = 0 /\ MaxOrders \in Nat
    BY Constants DEF Paper!Init
  <1>2. Good(book, 4)
    BY StartIsGood
  <1>3. 4 + (MaxOrders - acts) = 4 /\ acts \in 0..MaxOrders
    BY <1>1
  <1>4. QED
    BY <1>1, <1>2, <1>3 DEF BookInv

LEMMA OrderKeeps ==
    ASSUME Paper!SlackIsBounded, NEW m, NEW n \in Nat, Good(m, n), n <= K,
           \/ Paper!ProcessEarly(m) \/ Paper!ClaimCreatorFees(m)
           \/ \E u \in Accounts : Paper!CoreExit(m, u) \/ Paper!ClaimEarlyBond(m, u) \/ Paper!Claim(m, u)
              \/ Paper!ClaimCore(m, u)
           \/ \E u \in Accounts, k \in Shares : Paper!GenesisBuy(m, u, k) \/ Paper!GenesisSell(m, u, k)
           \/ \E u \in Accounts, s \in Paper!Side, k \in Lots : Paper!FormalBuyShares(m, u, s, k)
              \/ Paper!FormalSell(m, u, s, k)
           \/ \E u \in Accounts, s \in Paper!Side, x \in Budgets : Paper!FormalBuy(m, u, s, x)
           \/ \E u \in Accounts, k \in Lots : Paper!RedeemPairs(m, u, k)
           \/ \E u \in Accounts, s \in Paper!Outcome, k \in Stakes : Paper!CoreStake(m, u, s, k)
           \/ \E u \in Accounts, s \in Paper!Side : Paper!ProposeEarly(m, u, s)
    PROVE  Keeps(n)
  <1>1. CASE Paper!ProcessEarly(m)
    <2>1. acts' = acts - 1 /\ time' = time /\ Good(book', n)
      BY <1>1, ProcessedIsGood
    <2>2. Good(book', n + 1)
      BY <2>1, GoodGrows
    <2>3. QED
      BY <2>1, <2>2 DEF Keeps
  <1>2. CASE Paper!ClaimCreatorFees(m)
    <2>1. Creator \in Accounts
      BY Constants
    <2>2. QED
      BY <1>2, <2>1, ClaimsKeep
  <1>3. ASSUME NEW u \in Accounts, Paper!CoreExit(m, u) \/ Paper!ClaimEarlyBond(m, u) \/ Paper!Claim(m, u)
        \/ Paper!ClaimCore(m, u) PROVE Keeps(n)
    BY <1>3, VaultKeeps, ClaimsKeep
  <1>4. ASSUME NEW u \in Accounts, NEW k \in Shares, Paper!GenesisBuy(m, u, k) \/ Paper!GenesisSell(m, u, k)
        PROVE Keeps(n)
    BY <1>4, GenesisKeeps
  <1>5. ASSUME NEW u \in Accounts, NEW s \in Paper!Side, NEW k \in Lots,
        Paper!FormalBuyShares(m, u, s, k) \/ Paper!FormalSell(m, u, s, k)
        PROVE  Keeps(n)
    BY <1>5, FormalKeeps
  <1>6. ASSUME NEW u \in Accounts, NEW s \in Paper!Side, NEW x \in Budgets, Paper!FormalBuy(m, u, s, x)
        PROVE Keeps(n)
    BY <1>6, BudgetKeeps
  <1>7. ASSUME NEW u \in Accounts, NEW k \in Lots, Paper!RedeemPairs(m, u, k) PROVE Keeps(n)
    BY <1>7, PairsKeep
  <1>8. ASSUME NEW u \in Accounts, NEW s \in Paper!Outcome, NEW k \in Stakes, Paper!CoreStake(m, u, s, k)
        PROVE Keeps(n)
    BY <1>8, VaultKeeps
  <1>9. ASSUME NEW u \in Accounts, NEW s \in Paper!Side, Paper!ProposeEarly(m, u, s) PROVE Keeps(n)
    BY <1>9, VaultKeeps
  <1>10. QED
    BY <1>1, <1>2, <1>3, <1>4, <1>5, <1>6, <1>7, <1>8, <1>9

LEMMA NextBook == ASSUME Paper!SlackIsBounded, BookInv, [Paper!Next]_(Paper!vars) PROVE BookInv'
  <1>0. acts \in 0..MaxOrders /\ time \in Nat /\ MaxOrders \in Nat /\ K \in Nat /\ K >= MaxOrders + 4
    BY Constants DEF BookInv
  <1>1. PICK n \in Nat : n = 4 + (MaxOrders - acts)
    <2>1. 4 + (MaxOrders - acts) \in Nat
      BY <1>0
    <2>2. QED
      BY <2>1
  <1>2. Good(book, n)
    BY <1>1 DEF BookInv
  <1>3. CASE UNCHANGED Paper!vars
    BY <1>3 DEF Paper!vars, BookInv
  <1>4. CASE Paper!Tick
    <2>1. acts' = acts /\ book' = book /\ time' \in Nat
      BY <1>0, <1>4 DEF Paper!Tick
    <2>2. QED
      BY <1>0, <1>1, <1>2, <2>1 DEF BookInv
  <1>5. ASSUME acts > 0, NEW m, m = Paper!Now, Keeps(n) PROVE BookInv'
    <2>1. acts' = acts - 1 /\ time' = time /\ Good(book', n + 1)
      BY <1>5 DEF Keeps
    <2>2. acts' \in 0..MaxOrders /\ n + 1 = 4 + (MaxOrders - acts')
      BY <1>0, <1>1, <1>5, <2>1
    <2>3. QED
      BY <1>0, <2>1, <2>2 DEF BookInv
  <1>6. CASE acts > 0 /\ Paper!Next /\ ~Paper!Tick
    <2>1. PICK m : m = Paper!Now /\
             \/ Paper!ProcessEarly(m) \/ Paper!ClaimCreatorFees(m)
             \/ \E u \in Accounts : Paper!CoreExit(m, u) \/ Paper!ClaimEarlyBond(m, u) \/ Paper!Claim(m, u)
                \/ Paper!ClaimCore(m, u)
             \/ \E u \in Accounts, k \in Shares : Paper!GenesisBuy(m, u, k) \/ Paper!GenesisSell(m, u, k)
             \/ \E u \in Accounts, s \in Paper!Side, k \in Lots : Paper!FormalBuyShares(m, u, s, k)
                \/ Paper!FormalSell(m, u, s, k)
             \/ \E u \in Accounts, s \in Paper!Side, x \in Budgets : Paper!FormalBuy(m, u, s, x)
             \/ \E u \in Accounts, k \in Lots : Paper!RedeemPairs(m, u, k)
             \/ \E u \in Accounts, s \in Paper!Outcome, k \in Stakes : Paper!CoreStake(m, u, s, k)
             \/ \E u \in Accounts, s \in Paper!Side : Paper!ProposeEarly(m, u, s)
      BY <1>6, Zenon DEF Paper!Next
    <2>2. Good(m, n)
      BY <1>0, <1>1, <1>2, <2>1, AdvanceIsGood DEF Paper!Now
    <2>3. n <= K
      BY <1>0, <1>1, <1>6
    <2>4. Keeps(n)
      BY <2>1, <2>2, <2>3, OrderKeeps
    <2>5. QED
      BY <1>5, <1>6, <2>1, <2>4
  <1>7. QED
    BY <1>3, <1>4, <1>6 DEF Paper!Next

LEMMA BookInvHolds == ASSUME Paper!SlackIsBounded, BookInv PROVE Paper!LedgerHolds
  <1>0. acts \in 0..MaxOrders /\ time \in Nat /\ MaxOrders \in Nat /\ TC \in Nat
    BY Constants DEF BookInv
  <1>1. PICK n \in Nat : n = 4 + (MaxOrders - acts) /\ n <= MaxOrders + 4
    <2>1. 4 + (MaxOrders - acts) \in Nat /\ 4 + (MaxOrders - acts) <= MaxOrders + 4
      BY <1>0
    <2>2. QED
      BY <2>1
  <1>2. Good(book, n)
    BY <1>1 DEF BookInv
  <1>3. ASSUME NEW m \in {Paper!Now, Paper!Advance(book, TC)}
        PROVE  Paper!LedgerAdds(m) /\ \A k \in DOMAIN Paper!Owed(m) : Paper!Near(m.budget[k], Paper!Owed(m)[k])
    <2>1. Good(m, n)
      BY <1>0, <1>2, <1>3, AdvanceIsGood DEF Paper!Now
    <2>2. QED
      BY <1>1, <2>1, GoodAdds, GoodOwes
  <1>4. QED
    BY <1>3 DEF Paper!LedgerHolds

-----------------------------------------------------------------------------
(* The market by itself. *)

\* The book of a market on the paper server adds up whatever the players do, in whatever
\* order, early, late or after several deadlines at once: the assertion that ends every
\* order never fails, and the budgets of a settled market are what may still be claimed.
\* Of the logarithm it is known that b ln(1 + e^(-d/b)) is at most b.
THEOREM PaperBookInvariance ==
    ASSUME Paper!SlackIsBounded
    PROVE  Paper!Spec => []Paper!LedgerHolds
  <1>1. Paper!Init => BookInv
    BY InitBook
  <1>2. BookInv /\ [Paper!Next]_(Paper!vars) => BookInv'
    BY NextBook
  <1>3. BookInv => Paper!LedgerHolds
    BY BookInvHolds
  <1>4. QED
    BY <1>1, <1>2, <1>3, PTL DEF Paper!Spec
===============================================================================
