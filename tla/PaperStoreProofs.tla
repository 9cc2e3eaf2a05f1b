--------------------------- MODULE PaperStoreProofs ---------------------------
(***************************************************************************)
(* Proofs about PaperStore, for every number of users, tabs, attempts,      *)
(* connections and markets: types, that every step is a step of the ledger   *)
(* (PaperLedger), that the journal explains the wallets and no money is lost, *)
(* that tabs hear the answers that were stored, and the snapshot quota.      *)
(*                                                                         *)
(* The refinement rests on LockedReadsAreCurrent: what an attempt read under *)
(* a row lock is still the row when its COMMIT overwrites it.  CommitReady   *)
(* says what the buffered writes are made of, and DistinctMarkets that two   *)
(* markets created at the same time are two.  Answers and quotas rest on      *)
(* StillNew and StillInQuota: what was looked up under the wallet's lock     *)
(* still holds when the row is written.                                      *)
(***************************************************************************)
EXTENDS PaperStore, SumLemmas

(* An order that may be sent: its market exists, or it creates one. *)
Sendable(o) ==
    /\ o \in Order
    /\ o.op = "create" => o = OrderOf(o.user, o.id, "create", None, 0, 0)
    /\ o.op # "create" => o.market \in Markets /\ markets[o.market] # None

PastLogin == {"open", "wallet", "lookup", "market", "execute", "commit", "insert"}

HoldsWallet(s) == pc[s] \in {"grant", "lookup", "market", "execute", "commit", "insert"}
HoldsMarket(s) == pc[s] \in {"execute", "commit"} /\ order[s].op \in TradeOps

LockedReadsAreCurrent(s) ==
    /\ HoldsWallet(s) => /\ walletLock[order[s].user] = s
                         /\ balance[s] = wallet[order[s].user]
    /\ HoldsMarket(s) => /\ marketLock[order[s].market] = s
                         /\ document[s] = markets[order[s].market]

(* What the callback left for COMMIT to write. *)
Created(s) ==
    /\ update[s].market \in Markets /\ markets[update[s].market] = None
    /\ update[s] = [market |-> update[s].market, document |-> NewDocument(order[s].user),
                    wallet |-> balance[s]]
Computed(s) ==
    \E late \in BOOLEAN :
        LET o == order[s]
            d == Advance(document[s], late)
        IN /\ late => o.market \in due
           /\ d.revision = o.revision
           /\ Allowed(d, o, balance[s])
           /\ update[s] = [market |-> o.market, document |-> Traded(d, o, balance[s]),
                           wallet |-> WalletAfter(d, o, balance[s])]
CommitReady(s) ==
    pc[s] = "commit" => IF order[s].op = "create" THEN Created(s) ELSE Computed(s)

Attempt(s) ==
    /\ pc[s] # "free" => Sendable(order[s])
    /\ pc[s] \in PastLogin => order[s].user \in granted
    /\ pc[s] = "market" => order[s].op \in TradeOps
    /\ pc[s] \in {"execute", "commit"} => order[s].op # "share"
    /\ pc[s] = "insert" => order[s].op = "share" /\ update[s] \in Responses
    /\ LockedReadsAreCurrent(s)
    /\ CommitReady(s)

DistinctMarkets ==
    \A s, r \in Slots :
        /\ s # r /\ pc[s] = "commit" /\ pc[r] = "commit"
        /\ order[s].op = "create" /\ order[r].op = "create"
        => update[s].market # update[r].market

OrdersSendable ==
    \A t \in Tabs : tab[t].state # "idle" \/ tab[t].slot # None => Sendable(tab[t].order)

IInv ==
    /\ TypeOK
    /\ \A s \in Slots : Attempt(s)
    /\ OrdersSendable
    /\ DistinctMarkets
-----------------------------------------------------------------------------
(* The engine. *)

LEMMA Division ==
    ASSUME NEW a \in Nat, NEW d \in Nat, d > 0
    PROVE  a \div d \in Nat /\ d * (a \div d) <= a
  OBVIOUS

LEMMA Product ==
    ASSUME NEW a \in Nat, NEW b \in Nat
    PROVE  a * b \in Nat
  OBVIOUS

(* A withdrawal is a whole number and leaves a fraction that is not negative. *)
LEMMA WithdrawableType ==
    ASSUME NEW f \in Nat
    PROVE  Withdrawable(f) \in Nat /\ f - Fine * Withdrawable(f) \in Nat
  <1>1. CASE f = 0
    <2>1. Fine * 0 = 0
      BY EngineAssumption
    <2>2. QED
      BY <1>1, <2>1 DEF Withdrawable
  <1>2. CASE f # 0
    <2>1. f - 1 \in Nat /\ Fine \in Nat /\ Fine > 0
      BY <1>2, EngineAssumption
    <2>2. (f - 1) \div Fine \in Nat /\ Fine * ((f - 1) \div Fine) <= f - 1
      BY <2>1, Division
    <2>3. Fine * ((f - 1) \div Fine) \in Nat
      BY <2>1, <2>2, Product
    <2>4. QED
      BY <1>2, <2>2, <2>3 DEF Withdrawable
  <1>3. QED
    BY <1>1, <1>2

LEMMA NewDocumentType ==
    ASSUME NEW u \in Users
    PROVE  NewDocument(u) \in Document
  BY DEF NewDocument, Document

LEMMA ClosedType ==
    ASSUME NEW d \in Document
    PROVE  Closed(d) \in Document
  <1>1. /\ d.creator \in Users /\ d.revision + 1 \in Nat /\ d.cash \in Int
        /\ d.held \in [Users -> Nat] /\ d.dust \in [Users -> Nat]
    BY DEF Document
  <1>2. QED
    BY <1>1 DEF Closed, Document

LEMMA OrderType ==
    ASSUME NEW o \in Order
    PROVE  /\ o.user \in Users /\ o.id \in Ids /\ o.op \in Ops
           /\ o.market \in Markets \cup {None} /\ o.amount \in Nat /\ o.revision \in Nat
           /\ o.amount \in Amounts \cup {0}
           /\ o = OrderOf(o.user, o.id, o.op, o.market, o.amount, o.revision)
  <1>1. /\ o.user \in Users /\ o.id \in Ids /\ o.op \in Ops
        /\ o.market \in Markets \cup {None} /\ o.amount \in Amounts \cup {0}
        /\ o.revision \in Nat
    BY DEF Order
  <1>2. o = OrderOf(o.user, o.id, o.op, o.market, o.amount, o.revision)
    BY DEF Order, OrderOf
  <1>3. o.amount \in Nat
    <2>1. Amounts \subseteq Nat
      BY EngineAssumption
    <2>2. CASE o.amount \in Amounts
      BY <2>1, <2>2
    <2>3. CASE o.amount = 0
      BY <2>3
    <2>4. QED
      BY <1>1, <2>2, <2>3
  <1>4. QED
    BY <1>1, <1>2, <1>3

LEMMA FundsType ==
    ASSUME NEW d \in Document, NEW o \in Order, NEW w \in Nat, Allowed(d, o, w)
    PROVE  Funds(d, o, w) \in Nat /\ Proceeds(d, o) \in Int /\ o.amount * Fine \in Nat
  <1>1. o.user \in Users /\ o.amount \in Nat /\ Fine \in Nat
    BY OrderType, EngineAssumption
  <1>2. d.dust[o.user] \in Nat /\ d.held[o.user] \in Nat
    BY <1>1 DEF Document
  <1>3. w * Fine \in Nat /\ o.amount * Fine \in Nat
    BY <1>1, Product
  <1>4. Credit(d, o, w) \in Nat
    BY <1>2, <1>3 DEF Credit
  <1>5. CASE o.op = "buy"
    <2> DEFINE price == o.amount * Fine
    <2>1. Proceeds(d, o) = -price /\ price <= Credit(d, o, w)
      BY <1>5 DEF Proceeds, Allowed
    <2>2. price \in Nat
      BY <1>3
    <2> HIDE DEF price
    <2>3. Funds(d, o, w) \in Nat /\ Proceeds(d, o) \in Int
      BY <1>4, <2>1, <2>2 DEF Funds
    <2>4. QED
      BY <1>3, <2>3
  <1>6. CASE o.op # "buy"
    <2>1. Proceeds(d, o) = d.held[o.user] - 1 /\ d.held[o.user] > 0
      BY <1>6 DEF Proceeds, Allowed
    <2>2. QED
      BY <1>2, <1>3, <1>4, <2>1 DEF Funds
  <1>7. QED
    BY <1>5, <1>6

LEMMA TradedType ==
    ASSUME NEW d \in Document, NEW o \in Order, NEW w \in Nat, Allowed(d, o, w)
    PROVE  WalletAfter(d, o, w) \in Nat /\ Traded(d, o, w) \in Document
  <1>1. Funds(d, o, w) \in Nat /\ Proceeds(d, o) \in Int /\ o.amount * Fine \in Nat
    BY FundsType
  <1>2. WalletAfter(d, o, w) \in Nat /\ Funds(d, o, w) - Fine * WalletAfter(d, o, w) \in Nat
    BY <1>1, WithdrawableType DEF WalletAfter
  <1>3. o.user \in Users /\ d.held \in [Users -> Nat] /\ d.dust \in [Users -> Nat]
    BY OrderType DEF Document
  <1>4. HeldAfter(d, o) \in Nat /\ DustAfter(d, o, w) \in Nat /\ d.cash - Proceeds(d, o) \in Int
    BY <1>1, <1>2, <1>3 DEF HeldAfter, DustAfter, Document
  <1>5. [d.held EXCEPT ![o.user] = HeldAfter(d, o)] \in [Users -> Nat]
    BY <1>3, <1>4
  <1>6. [d.dust EXCEPT ![o.user] = DustAfter(d, o, w)] \in [Users -> Nat]
    BY <1>3, <1>4
  <1>7. d.creator \in Users /\ d.phase \in {"OPEN", "CLOSED"} /\ d.revision + 1 \in Nat
    BY DEF Document
  <1>8. QED
    BY <1>2, <1>4, <1>5, <1>6, <1>7 DEF Traded, Document
-----------------------------------------------------------------------------
(* What a step of one attempt leaves alone. *)

(* The registers of the other attempts, and the locks they hold. *)
Alone(s) ==
    \A r \in Slots \ {s} :
        /\ pc'[r] = pc[r] /\ order'[r] = order[r] /\ balance'[r] = balance[r]
        /\ document'[r] = document[r] /\ update'[r] = update[r]
        /\ \A u \in Users : walletLock[u] = r => walletLock'[u] = r
        /\ \A m \in Markets : marketLock[m] = r => marketLock'[m] = r

(* Rows are added, never removed. *)
Growing ==
    /\ granted \subseteq granted' /\ due \subseteq due'
    /\ \A m \in Markets : markets[m] # None => markets'[m] # None

(* What r has locked or is about to create is not touched. *)
Untouched(r) ==
    /\ HoldsWallet(r) => wallet'[order[r].user] = wallet[order[r].user]
    /\ HoldsMarket(r) => markets'[order[r].market] = markets[order[r].market]
    /\ pc[r] = "commit" /\ order[r].op = "create" => markets'[update[r].market] = None

LEMMA SendableKept ==
    ASSUME NEW o, Sendable(o), Growing
    PROVE  Sendable(o)'
  BY DEF Sendable, Growing

(* An attempt that does not move keeps its part of the invariant. *)
LEMMA AttemptKept ==
    ASSUME NEW s, NEW r \in Slots \ {s}, Attempt(r), Alone(s), Growing, Untouched(r)
    PROVE  Attempt(r)'
  <1>1. /\ pc'[r] = pc[r] /\ order'[r] = order[r] /\ balance'[r] = balance[r]
        /\ document'[r] = document[r] /\ update'[r] = update[r]
    BY DEF Alone
  <1>2. PICK o : o = order[r]
    OBVIOUS
  <1>3. pc'[r] # "free" => Sendable(order[r])'
    BY <1>1, <1>2, SendableKept DEF Attempt, Sendable
  <1>4. pc'[r] \in PastLogin => order'[r].user \in granted'
    BY <1>1 DEF Attempt, Growing
  <1>5. LockedReadsAreCurrent(r)'
    <2>1. HoldsWallet(r) => order[r].user \in Users
      BY OrderType DEF Attempt, Sendable, HoldsWallet
    <2>2. HoldsMarket(r) => order[r].market \in Markets
      BY DEF Attempt, Sendable, HoldsMarket, TradeOps
    <2>3. HoldsWallet(r) => walletLock'[order[r].user] = r /\ balance[r] = wallet'[order[r].user]
      BY <2>1 DEF Attempt, LockedReadsAreCurrent, Alone, Untouched
    <2>4. HoldsMarket(r) => marketLock'[order[r].market] = r /\ document[r] = markets'[order[r].market]
      BY <2>2 DEF Attempt, LockedReadsAreCurrent, Alone, Untouched
    <2>5. QED
      BY <1>1, <2>3, <2>4 DEF LockedReadsAreCurrent, HoldsWallet, HoldsMarket
  <1>6. CommitReady(r)'
    <2>1. CASE pc[r] = "commit" /\ order[r].op = "create"
      BY <1>1, <2>1 DEF Attempt, CommitReady, Created, Untouched
    <2>2. CASE pc[r] = "commit" /\ order[r].op # "create"
      <3>1. Computed(r)
        BY <2>2 DEF Attempt, CommitReady
      <3>2. Computed(r)'
        BY <1>1, <3>1 DEF Computed, Growing
      <3>3. QED
        BY <1>1, <2>2, <3>2 DEF CommitReady
    <2>3. CASE pc[r] # "commit"
      BY <1>1, <2>3 DEF CommitReady
    <2>4. QED
      BY <2>1, <2>2, <2>3
  <1>7. QED
    BY <1>1, <1>3, <1>4, <1>5, <1>6 DEF Attempt

LEMMA FreeAttempt ==
    ASSUME NEW s, pc'[s] = "free"
    PROVE  Attempt(s)'
  <1>1. LockedReadsAreCurrent(s)'
    BY DEF LockedReadsAreCurrent, HoldsWallet, HoldsMarket
  <1>2. CommitReady(s)'
    BY DEF CommitReady
  <1>3. QED
    BY <1>1, <1>2 DEF Attempt, PastLogin

(* Rows that do not change are untouched. *)
LEMMA SameRows ==
    ASSUME NEW r \in Slots, Attempt(r), UNCHANGED <<wallet, granted, markets, due>>
    PROVE  Growing /\ Untouched(r)
  <1>1. Growing
    BY DEF Growing
  <1>2. pc[r] = "commit" /\ order[r].op = "create" => markets[update[r].market] = None
    BY DEF Attempt, CommitReady, Created
  <1>3. QED
    BY <1>1, <1>2 DEF Untouched
-----------------------------------------------------------------------------
(* The end of an attempt. *)

LEMMA EndAlone ==
    ASSUME NEW s \in Slots, NEW state, NEW answer, AttemptsOK, End(s, state, answer)
    PROVE  Alone(s) /\ pc'[s] = "free"
  <1>1. /\ pc'[s] = "free"
        /\ \A r \in Slots \ {s} :
             /\ pc'[r] = pc[r] /\ order'[r] = order[r] /\ balance'[r] = balance[r]
             /\ document'[r] = document[r] /\ update'[r] = update[r]
    BY DEF End, AttemptsOK
  <1>2. \A r \in Slots \ {s} :
          /\ \A u \in Users : walletLock[u] = r => walletLock'[u] = r
          /\ \A m \in Markets : marketLock[m] = r => marketLock'[m] = r
    BY DEF End, Unlock
  <1>3. QED
    BY <1>1, <1>2 DEF Alone

LEMMA UnlockType ==
    ASSUME NEW s \in Slots, AttemptsOK, Unlock(s)
    PROVE  /\ walletLock' \in [Users -> Slots \cup {None}]
           /\ marketLock' \in [Markets -> Slots \cup {None}]
  BY DEF AttemptsOK, Unlock

LEMMA ReplyType ==
    ASSUME NEW s \in Slots, NEW state \in Answers, NEW answer \in Responses \cup {None},
           TabsOK, Reply(s, state, answer)
    PROVE  TabsOK'
  <1>1. SUFFICES ASSUME NEW t \in Tabs
                 PROVE  tab'[t] \in [state : Answers, order : Order \cup {None},
                                     slot : Slots \cup {None},
                                     answer : Responses \cup {None}, sent : Nat]
    BY DEF TabsOK, Reply
  <1>2. tab[t] \in [state : Answers, order : Order \cup {None}, slot : Slots \cup {None},
                    answer : Responses \cup {None}, sent : Nat]
    BY DEF TabsOK
  <1>3. CASE tab[t].slot = s
    <2>1. tab'[t] = [tab[t] EXCEPT !.state = state, !.slot = None, !.answer = answer]
      BY <1>3 DEF Reply
    <2>2. QED
      BY <1>2, <2>1
  <1>4. CASE tab[t].slot # s
    BY <1>2, <1>4 DEF Reply
  <1>5. QED
    BY <1>3, <1>4

LEMMA EndType ==
    ASSUME NEW s \in Slots, NEW state \in Answers, NEW answer \in Responses \cup {None},
           AttemptsOK, TabsOK, End(s, state, answer)
    PROVE  AttemptsOK' /\ TabsOK'
  <1>1. TabsOK'
    BY ReplyType DEF End
  <1>2. AttemptsOK'
    BY UnlockType DEF End, AttemptsOK, Statements
  <1>3. QED
    BY <1>1, <1>2

LEMMA EndOrders ==
    ASSUME NEW s \in Slots, NEW state, NEW answer, TabsOK, OrdersSendable, Growing,
           End(s, state, answer)
    PROVE  OrdersSendable'
  <1>1. SUFFICES ASSUME NEW t \in Tabs, tab'[t].state # "idle" \/ tab'[t].slot # None
                 PROVE  Sendable(tab[t].order)'
    BY DEF OrdersSendable
  <1>2. tab'[t].order = tab[t].order /\ (tab[t].state # "idle" \/ tab[t].slot # None)
    <2>1. CASE tab[t].slot = s
      <3>1. tab'[t] = [tab[t] EXCEPT !.state = state, !.slot = None, !.answer = answer]
        BY <2>1 DEF End, Reply
      <3>2. tab'[t].order = tab[t].order
        BY <3>1 DEF TabsOK
      <3>3. QED
        BY <2>1, <3>2, SlotsAssumption
    <2>2. CASE tab[t].slot # s
      BY <1>1, <2>2 DEF End, Reply
    <2>3. QED
      BY <2>1, <2>2
  <1>3. PICK o : o = tab[t].order
    OBVIOUS
  <1>4. Sendable(o)'
    BY <1>2, <1>3, SendableKept DEF OrdersSendable
  <1>5. QED
    BY <1>2, <1>3, <1>4
-----------------------------------------------------------------------------
(* One step of one attempt. *)

Unpooled == {"free", "login", "open"}

LEMMA PoolKept ==
    ASSUME NEW s \in Slots, TypeOK, Alone(s),
           pc[s] \notin Unpooled \/ pc'[s] \in Unpooled \/ PoolFree
    PROVE  (Cardinality(Connected) <= PoolSize)'
  <1>1. IsFiniteSet(Connected) /\ Cardinality(Connected) \in Nat
    <2>1. Connected \subseteq Slots
      BY DEF Connected
    <2>2. IsFiniteSet(Connected)
      BY <2>1, SlotsAssumption, FS_Subset
    <2>3. QED
      BY <2>2, FS_CardinalityType
  <1>2. PoolSize \in Nat /\ Cardinality(Connected) <= PoolSize
    BY PoolAssumption DEF TypeOK
  <1>3. Connected' \subseteq Connected \cup {s}
    BY DEF Connected, Alone
  <1>4. IsFiniteSet(Connected \cup {s}) /\ IsFiniteSet(Connected')
    BY <1>1, <1>3, FS_AddElement, FS_Subset
  <1>5. CASE PoolFree
    <2>1. Cardinality(Connected \cup {s}) <= Cardinality(Connected) + 1
      <3>1. Cardinality(Connected \cup {s}) = IF s \in Connected THEN Cardinality(Connected)
                                                             ELSE Cardinality(Connected) + 1
        BY <1>1, FS_AddElement
      <3>2. QED
        BY <1>1, <3>1
    <2>2. Cardinality(Connected') <= Cardinality(Connected \cup {s})
      <3>1. PICK S, T : S = Connected \cup {s} /\ T = Connected'
        OBVIOUS
      <3>2. IsFiniteSet(S) /\ T \in SUBSET S
        BY <1>3, <1>4, <3>1
      <3>3. Cardinality(T) <= Cardinality(S)
        BY <3>2, FS_Subset
      <3>4. QED
        BY <3>1, <3>3
    <2>3. Cardinality(Connected') \in Nat /\ Cardinality(Connected \cup {s}) \in Nat
      BY <1>4, FS_CardinalityType
    <2>4. QED
      BY <1>1, <1>2, <1>5, <2>1, <2>2, <2>3 DEF PoolFree
  <1>6. CASE pc[s] \notin Unpooled \/ pc'[s] \in Unpooled
    <2>1. Connected' \subseteq Connected
      BY <1>6 DEF Connected, Alone, Unpooled
    <2>2. Cardinality(Connected') <= Cardinality(Connected) /\ Cardinality(Connected') \in Nat
      BY <1>1, <1>4, <2>1, FS_Subset, FS_CardinalityType
    <2>3. QED
      BY <1>1, <1>2, <2>2
  <1>7. QED
    BY <1>5, <1>6

(* What has to be shown of a step of s, the rest of the invariant follows. *)
LEMMA StepKeeps ==
    ASSUME IInv, NEW s \in Slots, Alone(s), Growing, \A r \in Slots \ {s} : Untouched(r),
           RowsOK', AttemptsOK', TabsOK', OrdersSendable', Attempt(s)',
           pc[s] \notin Unpooled \/ pc'[s] \in Unpooled \/ PoolFree,
           pc'[s] = "commit" /\ order'[s].op = "create" =>
             \A r \in Slots \ {s} :
               pc[r] = "commit" /\ order[r].op = "create" => update[r].market # update'[s].market
    PROVE  IInv'
  <1>1. TypeOK'
    BY PoolKept DEF TypeOK, IInv
  <1>2. \A r \in Slots : Attempt(r)'
    BY AttemptKept DEF IInv
  <1>3. DistinctMarkets'
    BY DEF DistinctMarkets, IInv, Alone
  <1>4. QED
    BY <1>1, <1>2, <1>3 DEF IInv

LEMMA EndKeeps ==
    ASSUME IInv, NEW s \in Slots, NEW state \in Answers, NEW answer \in Responses \cup {None},
           End(s, state, answer), RowsOK', Growing, \A r \in Slots \ {s} : Untouched(r)
    PROVE  IInv'
  <1>1. Alone(s) /\ pc'[s] = "free"
    BY EndAlone DEF IInv, TypeOK
  <1>2. AttemptsOK' /\ TabsOK'
    BY EndType DEF IInv, TypeOK
  <1>3. OrdersSendable'
    BY EndOrders DEF IInv, TypeOK
  <1>4. Attempt(s)'
    BY <1>1, FreeAttempt
  <1>5. QED
    BY <1>1, <1>2, <1>3, <1>4, StepKeeps DEF Unpooled

LEMMA EndQuiet ==
    ASSUME IInv, NEW s \in Slots, NEW state \in Answers, NEW answer \in Responses \cup {None},
           End(s, state, answer), UNCHANGED rows
    PROVE  IInv'
  <1>1. RowsOK'
    BY DEF IInv, TypeOK, RowsOK, rows
  <1>2. Growing /\ \A r \in Slots \ {s} : Untouched(r)
    <2>1. Growing
      BY DEF Growing, rows
    <2>2. QED
      BY <2>1, SameRows DEF IInv, rows
  <1>3. QED
    BY <1>1, <1>2, EndKeeps

(* A step that only moves s. *)
LEMMA QuietKeeps ==
    ASSUME IInv, NEW s \in Slots, Alone(s), UNCHANGED <<rows, tab>>, AttemptsOK', Attempt(s)',
           pc[s] \notin Unpooled \/ pc'[s] \in Unpooled \/ PoolFree,
           pc'[s] = "commit" /\ order'[s].op = "create" =>
             \A r \in Slots \ {s} :
               pc[r] = "commit" /\ order[r].op = "create" => update[r].market # update'[s].market
    PROVE  IInv'
  <1>1. RowsOK' /\ TabsOK'
    BY DEF IInv, TypeOK, RowsOK, TabsOK, rows
  <1>2. Growing
    BY DEF Growing, rows
  <1>3. \A r \in Slots \ {s} : Untouched(r)
    BY SameRows DEF IInv, rows
  <1>4. OrdersSendable'
    <2>1. SUFFICES ASSUME NEW t \in Tabs, tab[t].state # "idle" \/ tab[t].slot # None
                   PROVE  Sendable(tab[t].order)'
      BY DEF OrdersSendable
    <2>2. PICK o : o = tab[t].order
      OBVIOUS
    <2>3. Sendable(o)'
      BY <1>2, <2>1, <2>2, SendableKept DEF OrdersSendable, IInv
    <2>4. QED
      BY <2>2, <2>3
  <1>5. QED
    BY <1>1, <1>2, <1>3, <1>4, StepKeeps
-----------------------------------------------------------------------------
(* The steps that only move s. *)

LEMMA Known ==
    ASSUME IInv, NEW s \in Slots, pc[s] # "free"
    PROVE  /\ Sendable(order[s]) /\ order[s] \in Order
           /\ order[s].user \in Users /\ order[s].id \in Ids /\ order[s].op \in Ops
           /\ order[s].op # "create" => order[s].market \in Markets
                                       /\ markets[order[s].market] \in Document
  <1>1. Sendable(order[s]) /\ order[s] \in Order
    BY DEF IInv, Attempt, Sendable
  <1>2. order[s].op # "create" => order[s].market \in Markets
                                /\ markets[order[s].market] \in Document
    BY <1>1 DEF Sendable, IInv, TypeOK, RowsOK
  <1>3. QED
    BY <1>1, <1>2, OrderType

LEMMA StillSendable ==
    ASSUME IInv, NEW s \in Slots, pc[s] # "free", UNCHANGED <<rows, order>>
    PROVE  Sendable(order[s])'
  BY Known DEF Sendable, rows

LEMMA LoginKeeps ==
    ASSUME IInv, NEW s \in Slots, Login(s) \/ Open(s)
    PROVE  IInv'
  <1>1. /\ pc[s] \in {"login", "open"} /\ PoolFree
        /\ pc' = [pc EXCEPT ![s] = IF pc[s] = "login" THEN "upsert" ELSE "wallet"]
        /\ UNCHANGED <<rows, locks, order, reads, tab>>
    BY DEF Login, Open, Step
  <1>2. Alone(s)
    BY <1>1 DEF Alone, IInv, TypeOK, AttemptsOK, locks, reads
  <1>3. AttemptsOK'
    BY <1>1 DEF IInv, TypeOK, AttemptsOK, Statements, locks, reads
  <1>4. pc'[s] \in {"upsert", "wallet"} /\ (pc'[s] = "wallet" => pc[s] = "open")
    BY <1>1 DEF IInv, TypeOK, AttemptsOK
  <1>5. Attempt(s)'
    <2>1. Sendable(order[s])'
      BY <1>1, StillSendable
    <2>2. pc'[s] = "wallet" => order'[s].user \in granted'
      BY <1>1, <1>4 DEF IInv, Attempt, PastLogin, rows
    <2>3. LockedReadsAreCurrent(s)' /\ CommitReady(s)'
      BY <1>4 DEF LockedReadsAreCurrent, HoldsWallet, HoldsMarket, CommitReady
    <2>4. QED
      BY <1>4, <2>1, <2>2, <2>3 DEF Attempt, PastLogin
  <1>6. QED
    BY <1>1, <1>2, <1>3, <1>4, <1>5, QuietKeeps

LEMMA LockWalletKeeps ==
    ASSUME IInv, NEW s \in Slots, Upsert(s) \/ LockWallet(s)
    PROVE  IInv'
  <1> DEFINE u == order[s].user
  <1>1. /\ pc[s] \in {"upsert", "wallet"} /\ walletLock[u] = None
        /\ pc' = [pc EXCEPT ![s] = IF pc[s] = "upsert" THEN "grant" ELSE "lookup"]
        /\ walletLock' = [walletLock EXCEPT ![u] = s]
        /\ balance' = [balance EXCEPT ![s] = wallet[u]]
        /\ UNCHANGED <<rows, marketLock, order, document, update, tab>>
    BY DEF Upsert, LockWallet, Step
  <1>2. u \in Users /\ wallet[u] \in Nat
    BY <1>1, Known DEF IInv, TypeOK, RowsOK
  <1> HIDE DEF u
  <1>3. Alone(s)
    BY <1>1, <1>2, SlotsAssumption DEF Alone, IInv, TypeOK, AttemptsOK
  <1>4. AttemptsOK'
    BY <1>1, <1>2 DEF IInv, TypeOK, AttemptsOK, Statements
  <1>5. pc'[s] \in {"grant", "lookup"} /\ (pc'[s] = "lookup" => pc[s] = "wallet")
    BY <1>1 DEF IInv, TypeOK, AttemptsOK
  <1>6. Attempt(s)'
    <2>1. Sendable(order[s])'
      BY <1>1, StillSendable
    <2>2. pc'[s] = "lookup" => order'[s].user \in granted'
      BY <1>1, <1>5 DEF IInv, Attempt, PastLogin, rows
    <2>3. walletLock'[u] = s /\ balance'[s] = wallet'[u] /\ order'[s].user = u
      BY <1>1, <1>2 DEF IInv, TypeOK, AttemptsOK, rows, u
    <2>4. LockedReadsAreCurrent(s)' /\ CommitReady(s)'
      BY <1>5, <2>3 DEF LockedReadsAreCurrent, HoldsMarket, CommitReady
    <2>5. QED
      BY <1>5, <2>1, <2>2, <2>4 DEF Attempt, PastLogin
  <1>7. QED
    BY <1>1, <1>3, <1>4, <1>5, <1>6, QuietKeeps DEF Unpooled

(* The registers and the wallet's lock stay. *)
LEMMA WalletStillHeld ==
    ASSUME IInv, NEW s \in Slots, pc[s] # "free", HoldsWallet(s),
           UNCHANGED <<rows, walletLock, order, balance>>
    PROVE  /\ Sendable(order[s])'
           /\ walletLock'[order'[s].user] = s /\ balance'[s] = wallet'[order'[s].user]
           /\ pc[s] # "grant" => order'[s].user \in granted'
  <1>1. Sendable(order[s])'
    BY StillSendable
  <1>2. Attempt(s)
    BY DEF IInv
  <1>3. QED
    BY <1>1, <1>2 DEF Attempt, LockedReadsAreCurrent, HoldsWallet, PastLogin, rows

LEMMA LookupKeeps ==
    ASSUME IInv, NEW s \in Slots, Lookup(s)
    PROVE  IInv'
  <1>1. /\ pc[s] = "lookup" /\ order[s].op # "share"
        /\ pc' = [pc EXCEPT ![s] = IF order[s].op = "create" THEN "execute" ELSE "market"]
        /\ UNCHANGED <<rows, locks, order, reads, tab>>
    BY DEF Lookup, Step
  <1>2. Alone(s)
    BY <1>1 DEF Alone, IInv, TypeOK, AttemptsOK, locks, reads
  <1>3. AttemptsOK'
    BY <1>1 DEF IInv, TypeOK, AttemptsOK, Statements, locks, reads
  <1>4. pc'[s] = IF order[s].op = "create" THEN "execute" ELSE "market"
    BY <1>1 DEF IInv, TypeOK, AttemptsOK
  <1>5. Attempt(s)'
    <2>1. /\ Sendable(order[s])'
          /\ walletLock'[order'[s].user] = s /\ balance'[s] = wallet'[order'[s].user]
          /\ order'[s].user \in granted'
      BY <1>1, WalletStillHeld DEF HoldsWallet, locks, reads
    <2>2. order[s].op \in Ops /\ order' = order
      BY <1>1, Known
    <2>3. LockedReadsAreCurrent(s)' /\ CommitReady(s)'
      BY <1>4, <2>1, <2>2 DEF LockedReadsAreCurrent, HoldsMarket, CommitReady, TradeOps
    <2>4. pc'[s] = "market" => order'[s].op \in TradeOps
      BY <1>1, <1>4, <2>2 DEF Ops
    <2>5. QED
      BY <1>1, <1>4, <2>1, <2>2, <2>3, <2>4 DEF Attempt
  <1>6. QED
    BY <1>1, <1>2, <1>3, <1>4, <1>5, QuietKeeps DEF Unpooled

LEMMA LockMarketKeeps ==
    ASSUME IInv, NEW s \in Slots, LockMarket(s)
    PROVE  IInv'
  <1> DEFINE m == order[s].market
  <1>1. /\ pc[s] = "market" /\ marketLock[m] = None
        /\ pc' = [pc EXCEPT ![s] = "execute"]
        /\ marketLock' = [marketLock EXCEPT ![m] = s]
        /\ document' = [document EXCEPT ![s] = markets[m]]
        /\ UNCHANGED <<rows, walletLock, order, balance, update, tab>>
    BY DEF LockMarket, Step
  <1>2. order[s].op \in TradeOps /\ m \in Markets /\ markets[m] \in Document
    <2>1. order[s].op \in TradeOps
      BY <1>1 DEF IInv, Attempt
    <2>2. QED
      BY <1>1, <2>1, Known DEF TradeOps
  <1> HIDE DEF m
  <1>3. Alone(s)
    BY <1>1, <1>2, SlotsAssumption DEF Alone, IInv, TypeOK, AttemptsOK
  <1>4. AttemptsOK'
    BY <1>1, <1>2 DEF IInv, TypeOK, AttemptsOK, Statements
  <1>5. pc'[s] = "execute"
    BY <1>1 DEF IInv, TypeOK, AttemptsOK
  <1>6. Attempt(s)'
    <2>1. /\ Sendable(order[s])'
          /\ walletLock'[order'[s].user] = s /\ balance'[s] = wallet'[order'[s].user]
          /\ order'[s].user \in granted'
      BY <1>1, WalletStillHeld DEF HoldsWallet
    <2>2. marketLock'[m] = s /\ document'[s] = markets'[m] /\ order'[s].market = m
      BY <1>1, <1>2 DEF IInv, TypeOK, AttemptsOK, rows, m
    <2>3. LockedReadsAreCurrent(s)' /\ CommitReady(s)'
      BY <1>5, <2>1, <2>2 DEF LockedReadsAreCurrent, CommitReady
    <2>4. order'[s].op # "share"
      BY <1>1, <1>2 DEF TradeOps
    <2>5. QED
      BY <1>5, <2>1, <2>3, <2>4 DEF Attempt
  <1>7. QED
    BY <1>1, <1>3, <1>4, <1>5, <1>6, QuietKeeps DEF Unpooled

LEMMA ExecuteCreateKeeps ==
    ASSUME IInv, NEW s \in Slots, ExecuteCreate(s)
    PROVE  IInv'
  <1>1. /\ pc[s] = "execute" /\ order[s].op = "create"
        /\ pc' = [pc EXCEPT ![s] = "commit"]
        /\ UNCHANGED <<rows, locks, order, balance, document, tab>>
    BY DEF ExecuteCreate, Step
  <1>2. PICK m \in Markets :
          /\ markets[m] = None
          /\ \A r \in Slots : pc[r] = "commit" => update[r].market # m
          /\ update' = [update EXCEPT ![s] =
               [market |-> m, document |-> NewDocument(order[s].user), wallet |-> balance[s]]]
    BY DEF ExecuteCreate
  <1>3. order[s].user \in Users /\ balance[s] \in Nat
    BY <1>1, Known DEF IInv, TypeOK, AttemptsOK
  <1> DEFINE n == [market |-> m, document |-> NewDocument(order[s].user), wallet |-> balance[s]]
  <1>4. n \in Updates /\ n.market = m
    BY <1>3, NewDocumentType DEF Updates
  <1>5. update'[s] = n /\ pc'[s] = "commit"
    BY <1>1, <1>2 DEF IInv, TypeOK, AttemptsOK
  <1>6. Alone(s)
    BY <1>1, <1>2 DEF Alone, IInv, TypeOK, AttemptsOK, locks
  <1>7. AttemptsOK'
    <2> HIDE DEF n
    <2>1. update' = [update EXCEPT ![s] = n]
      BY <1>2 DEF n
    <2>2. QED
      BY <1>1, <1>4, <2>1 DEF IInv, TypeOK, AttemptsOK, Statements, locks
  <1>8. Attempt(s)'
    <2>1. /\ Sendable(order[s])'
          /\ walletLock'[order'[s].user] = s /\ balance'[s] = wallet'[order'[s].user]
          /\ order'[s].user \in granted'
      BY <1>1, WalletStillHeld DEF HoldsWallet, locks
    <2>2. LockedReadsAreCurrent(s)'
      BY <1>1, <1>5, <2>1 DEF LockedReadsAreCurrent, HoldsMarket, TradeOps
    <2>3. Created(s)'
      BY <1>1, <1>2, <1>4, <1>5 DEF Created, rows
    <2>4. CommitReady(s)'
      BY <1>1, <2>3 DEF CommitReady
    <2>5. QED
      BY <1>1, <1>5, <2>1, <2>2, <2>4 DEF Attempt
  <1>9. QED
    BY <1>1, <1>2, <1>4, <1>5, <1>6, <1>7, <1>8, QuietKeeps DEF Unpooled

LEMMA RefuseKeeps ==
    ASSUME IInv, NEW s \in Slots, Refuse(s)
    PROVE  IInv'
  BY EndQuiet DEF Refuse, Answers

LEMMA ExecuteKeeps ==
    ASSUME IInv, NEW s \in Slots, Execute(s)
    PROVE  IInv'
  <1> DEFINE o == order[s]
             late == o.market \in due
             d == Advance(document[s], late)
             n == [market |-> o.market, document |-> Traded(d, o, balance[s]),
                   wallet |-> WalletAfter(d, o, balance[s])]
             accepted == d.revision = o.revision /\ Allowed(d, o, balance[s])
  <1>1. CASE ~ accepted
    BY <1>1, RefuseKeeps DEF Execute
  <1>2. CASE accepted
    <2>1. /\ pc[s] = "execute" /\ o.op \in TradeOps
          /\ pc' = [pc EXCEPT ![s] = "commit"]
          /\ update' = [update EXCEPT ![s] = n]
          /\ UNCHANGED <<rows, locks, order, balance, document, tab>>
      BY <1>2 DEF Execute, Step
    <2>2. /\ o \in Order /\ o.market \in Markets /\ balance[s] \in Nat
      BY <2>1, Known DEF TradeOps, IInv, TypeOK, AttemptsOK
    <2>3. d \in Document
      <3>1. HoldsMarket(s)
        BY <2>1 DEF HoldsMarket
      <3>2. document[s] = markets[o.market]
        BY <3>1 DEF IInv, Attempt, LockedReadsAreCurrent
      <3>3. document[s] \in Document
        BY <2>1, <3>2, Known DEF TradeOps
      <3>4. QED
        BY <3>3, ClosedType DEF Advance
    <2>4. n \in Updates
      BY <1>2, <2>2, <2>3, TradedType DEF Updates
    <2>5. Computed(s)'
      <3>1. /\ order' = order /\ document' = document /\ balance' = balance /\ due' = due
            /\ update'[s] = n
        BY <2>1 DEF rows, IInv, TypeOK, AttemptsOK
      <3>2. late \in BOOLEAN /\ (late => o.market \in due)
        OBVIOUS
      <3>3. QED
        BY <1>2, <3>1, <3>2 DEF Computed
    <2> HIDE DEF n, d, late, accepted
    <2>6. pc'[s] = "commit" /\ order'[s].op \in TradeOps
      BY <2>1 DEF IInv, TypeOK, AttemptsOK
    <2>7. Alone(s)
      BY <2>1 DEF Alone, IInv, TypeOK, AttemptsOK, locks
    <2>8. AttemptsOK'
      BY <2>1, <2>4 DEF IInv, TypeOK, AttemptsOK, Statements, locks
    <2>9. Attempt(s)'
      <3>1. /\ Sendable(order[s])'
            /\ walletLock'[order'[s].user] = s /\ balance'[s] = wallet'[order'[s].user]
            /\ order'[s].user \in granted'
        BY <2>1, WalletStillHeld DEF HoldsWallet, locks
      <3>2. marketLock'[order'[s].market] = s /\ document'[s] = markets'[order'[s].market]
        BY <2>1 DEF IInv, Attempt, LockedReadsAreCurrent, HoldsMarket, locks, rows
      <3>3. LockedReadsAreCurrent(s)'
        BY <3>1, <3>2 DEF LockedReadsAreCurrent
      <3>4. CommitReady(s)'
        BY <2>5, <2>6 DEF CommitReady, TradeOps
      <3>5. QED
        BY <2>6, <3>1, <3>3, <3>4 DEF Attempt, TradeOps
    <2>10. QED
      BY <2>1, <2>6, <2>7, <2>8, <2>9, QuietKeeps DEF Unpooled, TradeOps
  <1>3. QED
    BY <1>1, <1>2

LEMMA ResponseType ==
    ASSUME NEW m \in Markets, NEW d \in Document, NEW w \in Nat
    PROVE  Response(m, d, w) \in Responses
  BY DEF Response, Responses, Document

LEMMA ShareKeeps ==
    ASSUME IInv, NEW s \in Slots, Share(s)
    PROVE  IInv'
  <1> DEFINE o == order[s]
             d == Advance(markets[o.market], o.market \in due)
             view == Response(o.market, d, 0)
  <1>1. CASE ~ QuotaLeft(o.user)
    BY <1>1, RefuseKeeps DEF Share
  <1>2. CASE QuotaLeft(o.user)
    <2>1. /\ pc[s] = "lookup" /\ o.op = "share"
          /\ pc' = [pc EXCEPT ![s] = "insert"]
          /\ update' = [update EXCEPT ![s] = view]
          /\ UNCHANGED <<rows, locks, order, balance, document, tab>>
      BY <1>2 DEF Share, Step
    <2>2. o.market \in Markets /\ d \in Document
      <3>1. o.market \in Markets /\ markets[o.market] \in Document
        BY <2>1, Known
      <3>2. QED
        BY <3>1, ClosedType DEF Advance
    <2> HIDE DEF d
    <2>3. view \in Responses
      BY <2>2, ResponseType
    <2> HIDE DEF view
    <2>4. pc'[s] = "insert" /\ order'[s].op = "share" /\ update'[s] = view
      BY <2>1 DEF IInv, TypeOK, AttemptsOK
    <2>5. Alone(s)
      BY <2>1 DEF Alone, IInv, TypeOK, AttemptsOK, locks
    <2>6. AttemptsOK'
      BY <2>1, <2>3 DEF IInv, TypeOK, AttemptsOK, Statements, locks
    <2>7. Attempt(s)'
      <3>1. /\ Sendable(order[s])'
            /\ walletLock'[order'[s].user] = s /\ balance'[s] = wallet'[order'[s].user]
            /\ order'[s].user \in granted'
        BY <2>1, WalletStillHeld DEF HoldsWallet, locks
      <3>2. LockedReadsAreCurrent(s)' /\ CommitReady(s)'
        BY <2>4, <3>1 DEF LockedReadsAreCurrent, HoldsMarket, CommitReady
      <3>3. QED
        BY <2>3, <2>4, <3>1, <3>2 DEF Attempt
    <2>8. QED
      BY <2>1, <2>4, <2>5, <2>6, <2>7, QuietKeeps DEF Unpooled
  <1>3. QED
    BY <1>1, <1>2
-----------------------------------------------------------------------------
(* The steps that write rows. *)

LEMMA EntryType ==
    ASSUME NEW i \in Ids \cup {None}, NEW before \in Nat, NEW after \in Nat
    PROVE  Entry(i, before, after) \in JournalRow
  BY DEF Entry, JournalRow

(* Nobody else is at work on the wallet that s has locked. *)
LEMMA WalletIsAlone ==
    ASSUME IInv, NEW s \in Slots, HoldsWallet(s), NEW r \in Slots \ {s}, HoldsWallet(r)
    PROVE  order[r].user # order[s].user
  BY DEF IInv, Attempt, LockedReadsAreCurrent

LEMMA GrantRows ==
    ASSUME IInv, NEW s \in Slots, pc[s] = "grant", GrantOnce(order[s].user, balance[s]),
           UNCHANGED <<markets, requests, due, snapshots>>
    PROVE  RowsOK' /\ Growing /\ \A r \in Slots \ {s} : Untouched(r)
  <1>1. CASE order[s].user \in granted
    <2>1. UNCHANGED rows
      BY <1>1 DEF GrantOnce, rows
    <2>2. QED
      BY <2>1, SameRows DEF IInv, TypeOK, RowsOK, Growing, rows
  <1>2. CASE order[s].user \notin granted
    <2> DEFINE u == order[s].user
               w == balance[s] + InitialGrant
               e == Entry(None, balance[s], w)
    <2>1. /\ granted' = granted \cup {u}
          /\ wallet' = [wallet EXCEPT ![u] = w]
          /\ journal' = [journal EXCEPT ![u] = Append(@, e)]
      BY <1>2 DEF GrantOnce
    <2>2. u \in Users /\ w \in Nat /\ e \in JournalRow
      <3>1. u \in Users /\ balance[s] \in Nat /\ w \in Nat
        BY Known, EngineAssumption DEF IInv, TypeOK, AttemptsOK
      <3>2. QED
        BY <3>1, EntryType
    <2> HIDE DEF w, e
    <2>3. RowsOK'
      <3>1. journal' \in [Users -> Seq(JournalRow)]
        BY <2>1, <2>2 DEF IInv, TypeOK, RowsOK
      <3>2. QED
        BY <2>1, <2>2, <3>1 DEF IInv, TypeOK, RowsOK
    <2>4. Growing
      BY <2>1 DEF Growing
    <2>5. ASSUME NEW r \in Slots \ {s}
          PROVE  Untouched(r)
      <3>1. HoldsWallet(r) => wallet'[order[r].user] = wallet[order[r].user]
        <4>1. HoldsWallet(r) => order[r].user # u
          BY WalletIsAlone DEF HoldsWallet
        <4>2. QED
          BY <2>1, <2>2, <4>1, Known DEF IInv, TypeOK, RowsOK, HoldsWallet
      <3>2. pc[r] = "commit" /\ order[r].op = "create" => markets[update[r].market] = None
        BY DEF IInv, Attempt, CommitReady, Created
      <3>3. QED
        BY <3>1, <3>2 DEF Untouched
    <2>6. QED
      BY <2>3, <2>4, <2>5
  <1>3. QED
    BY <1>1, <1>2

LEMMA LoggedInKeeps ==
    ASSUME IInv, NEW s \in Slots, LoggedIn(s)
    PROVE  IInv'
  <1>1. /\ pc[s] = "grant" /\ pc' = [pc EXCEPT ![s] = "open"]
        /\ GrantOnce(order[s].user, balance[s])
        /\ Unlock(s)
        /\ balance' = [balance EXCEPT ![s] = 0]
        /\ UNCHANGED <<markets, requests, due, snapshots, order, document, update, tab>>
    BY DEF LoggedIn, Step
  <1>2. RowsOK' /\ Growing /\ \A r \in Slots \ {s} : Untouched(r)
    BY <1>1, GrantRows
  <1>3. pc'[s] = "open" /\ order[s].user \in granted'
    BY <1>1 DEF GrantOnce, IInv, TypeOK, AttemptsOK
  <1>4. Alone(s)
    <2>1. \A r \in Slots \ {s} :
            /\ \A u \in Users : walletLock[u] = r => walletLock'[u] = r
            /\ \A m \in Markets : marketLock[m] = r => marketLock'[m] = r
      BY <1>1 DEF Unlock
    <2>2. QED
      BY <1>1, <2>1 DEF Alone, IInv, TypeOK, AttemptsOK
  <1>5. AttemptsOK' /\ TabsOK'
    BY <1>1, UnlockType DEF IInv, TypeOK, AttemptsOK, TabsOK, Statements
  <1>6. OrdersSendable'
    BY <1>1 DEF OrdersSendable, Sendable, IInv
  <1>7. Attempt(s)'
    <2>1. Sendable(order[s])'
      BY <1>1, Known DEF Sendable
    <2>2. LockedReadsAreCurrent(s)' /\ CommitReady(s)'
      BY <1>3 DEF LockedReadsAreCurrent, HoldsWallet, HoldsMarket, CommitReady
    <2>3. QED
      BY <1>1, <1>3, <2>1, <2>2 DEF Attempt
  <1>8. QED
    BY <1>1, <1>2, <1>3, <1>4, <1>5, <1>6, <1>7, StepKeeps DEF Unpooled

LEMMA LoginUnheardKeeps ==
    ASSUME IInv, NEW s \in Slots, LoginUnheard(s)
    PROVE  IInv'
  <1>1. RowsOK' /\ Growing /\ \A r \in Slots \ {s} : Untouched(r)
    BY GrantRows DEF LoginUnheard
  <1>2. "failed" \in Answers
    BY DEF Answers
  <1>3. QED
    BY <1>1, <1>2, EndKeeps DEF LoginUnheard

(* What a trade has read and computed. *)
LEMMA TradeReady ==
    ASSUME IInv, NEW s \in Slots, pc[s] = "commit", order[s].op # "create"
    PROVE  /\ order[s].op \in TradeOps
           /\ order[s].market \in Markets /\ markets[order[s].market] \in Document
           /\ document[s] = markets[order[s].market] /\ marketLock[order[s].market] = s
           /\ Computed(s) /\ update[s].market = order[s].market
  <1>1. order[s].op \in TradeOps
    BY Known DEF IInv, Attempt, Ops
  <1>2. HoldsMarket(s) /\ Computed(s)
    BY <1>1 DEF HoldsMarket, IInv, Attempt, CommitReady
  <1>3. update[s].market = order[s].market
    <2>1. PICK late \in BOOLEAN :
            LET o == order[s]
                d == Advance(document[s], late)
            IN update[s] = [market |-> o.market, document |-> Traded(d, o, balance[s]),
                            wallet |-> WalletAfter(d, o, balance[s])]
      BY <1>2 DEF Computed
    <2>2. PICK d : d = Advance(document[s], late)
      OBVIOUS
    <2>3. QED
      BY <2>1, <2>2
  <1>4. QED
    BY <1>1, <1>2, <1>3, Known DEF IInv, Attempt, LockedReadsAreCurrent

LEMMA UpdateType ==
    ASSUME IInv, NEW s \in Slots, pc[s] = "commit"
    PROVE  update[s].market \in Markets /\ update[s].document \in Document
           /\ update[s].wallet \in Nat
  <1>1. order[s] \in Order /\ order[s].user \in Users /\ balance[s] \in Nat
    BY Known DEF IInv, TypeOK, AttemptsOK
  <1>2. CASE order[s].op = "create"
    <2>1. Created(s)
      BY <1>2 DEF IInv, Attempt, CommitReady
    <2>2. /\ update[s].market \in Markets
          /\ update[s].document = NewDocument(order[s].user)
          /\ update[s].wallet = balance[s]
      BY <2>1 DEF Created
    <2>3. QED
      BY <1>1, <2>2, NewDocumentType
  <1>3. CASE order[s].op # "create"
    <2>1. PICK late \in BOOLEAN :
            LET o == order[s]
                d == Advance(document[s], late)
            IN /\ Allowed(d, o, balance[s])
               /\ update[s] = [market |-> o.market, document |-> Traded(d, o, balance[s]),
                              wallet |-> WalletAfter(d, o, balance[s])]
      BY <1>3, TradeReady DEF Computed
    <2>2. PICK d : d = Advance(document[s], late)
      OBVIOUS
    <2>3. d \in Document
      BY <1>3, <2>2, TradeReady, ClosedType DEF Advance
    <2>4. /\ Allowed(d, order[s], balance[s])
          /\ update[s].market = order[s].market
          /\ update[s].document = Traded(d, order[s], balance[s])
          /\ update[s].wallet = WalletAfter(d, order[s], balance[s])
      BY <2>1, <2>2
    <2>5. Traded(d, order[s], balance[s]) \in Document /\ WalletAfter(d, order[s], balance[s]) \in Nat
      BY <1>1, <2>3, <2>4, TradedType
    <2>6. QED
      BY <1>3, <2>4, <2>5, TradeReady
  <1>4. QED
    BY <1>2, <1>3

LEMMA CommitKeeps ==
    ASSUME IInv, NEW s \in Slots, Commit(s)
    PROVE  IInv'
  <1> DEFINE o == order[s]
             n == update[s]
             answer == Response(n.market, n.document, n.wallet)
             row == Request(o, n.market, n.document, n.wallet)
             e == Entry(o.id, balance[s], n.wallet)
  <1>1. /\ pc[s] = "commit"
        /\ markets' = [markets EXCEPT ![n.market] = n.document]
        /\ wallet' = [wallet EXCEPT ![o.user] = n.wallet]
        /\ requests' = [requests EXCEPT ![o.user][o.id] = row]
        /\ journal' = [journal EXCEPT ![o.user] = Append(@, e)]
        /\ EndCommitted(s, answer)
        /\ UNCHANGED <<granted, due, snapshots>>
    BY DEF Commit
  <1>2. n.market \in Markets /\ n.document \in Document /\ n.wallet \in Nat
    BY <1>1, UpdateType
  <1>3. o \in Order /\ o.user \in Users /\ o.id \in Ids /\ balance[s] \in Nat
    BY <1>1, Known DEF IInv, TypeOK, AttemptsOK
  <1>4. answer \in Responses /\ row \in RequestRow /\ e \in JournalRow
    <2>1. answer \in Responses
      BY <1>2, ResponseType
    <2>2. row \in RequestRow
      BY <1>3, <2>1 DEF Request, RequestRow
    <2>3. QED
      BY <1>2, <1>3, <2>1, <2>2, EntryType
  <1>5. \A r \in Slots \ {s} : Untouched(r)
    <2>1. SUFFICES ASSUME NEW r \in Slots \ {s} PROVE Untouched(r)
      OBVIOUS
    <2>2. HoldsWallet(r) => wallet'[order[r].user] = wallet[order[r].user]
      <3>1. HoldsWallet(r) => order[r].user # o.user /\ order[r].user \in Users
        BY <1>1, WalletIsAlone, Known DEF HoldsWallet
      <3>2. QED
        BY <1>1, <1>3, <3>1 DEF IInv, TypeOK, RowsOK
    <2>3. HoldsMarket(r) => markets'[order[r].market] = markets[order[r].market]
      <3>1. SUFFICES ASSUME HoldsMarket(r) PROVE order[r].market # n.market
        BY <1>1, <1>2 DEF IInv, TypeOK, RowsOK
      <3>2. marketLock[order[r].market] = r /\ markets[order[r].market] # None
        BY <3>1 DEF IInv, Attempt, LockedReadsAreCurrent, HoldsMarket, Sendable, TradeOps
      <3>3. CASE o.op = "create"
        BY <1>1, <3>2, <3>3 DEF IInv, Attempt, CommitReady, Created
      <3>4. CASE o.op # "create"
        <4>1. n.market = o.market /\ marketLock[o.market] = s
          BY <1>1, <3>4, TradeReady
        <4>2. QED
          BY <3>2, <4>1
      <3>5. QED
        BY <3>3, <3>4
    <2>4. pc[r] = "commit" /\ order[r].op = "create" => markets'[update[r].market] = None
      <3>1. SUFFICES ASSUME pc[r] = "commit", order[r].op = "create"
                     PROVE  markets'[update[r].market] = None
        OBVIOUS
      <3>2. markets[update[r].market] = None /\ update[r].market \in Markets
        BY <3>1 DEF IInv, Attempt, CommitReady, Created
      <3>3. update[r].market # n.market
        <4>1. CASE o.op = "create"
          BY <1>1, <3>1, <4>1 DEF IInv, DistinctMarkets
        <4>2. CASE o.op # "create"
          <5>1. n.market = o.market
            BY <1>1, <4>2, TradeReady
          <5>2. markets[o.market] # None
            BY <1>1, <4>2, Known DEF Sendable
          <5>3. QED
            BY <3>2, <5>1, <5>2
        <4>3. QED
          BY <4>1, <4>2
      <3>4. QED
        BY <1>1, <3>2, <3>3 DEF IInv, TypeOK, RowsOK
    <2>5. QED
      BY <2>2, <2>3, <2>4 DEF Untouched
  <1> HIDE DEF o, answer, row, e
  <1>6. RowsOK'
    <2>1. journal' \in [Users -> Seq(JournalRow)]
      BY <1>1, <1>3, <1>4 DEF IInv, TypeOK, RowsOK
    <2>2. requests' \in [Users -> [Ids -> RequestRow \cup {None}]]
      BY <1>1, <1>3, <1>4 DEF IInv, TypeOK, RowsOK
    <2>3. wallet' \in [Users -> Nat] /\ markets' \in [Markets -> Document \cup {None}]
      BY <1>1, <1>2, <1>3 DEF IInv, TypeOK, RowsOK
    <2>4. QED
      BY <1>1, <2>1, <2>2, <2>3 DEF IInv, TypeOK, RowsOK
  <1>7. Growing
    <2>1. None # n.document
      BY <1>2, NoneAssumption
    <2>2. QED
      BY <1>1, <1>2, <2>1 DEF Growing, IInv, TypeOK, RowsOK
  <1>8. CASE End(s, "done", answer)
    BY <1>4, <1>5, <1>6, <1>7, <1>8, EndKeeps DEF Answers
  <1>9. CASE End(s, "failed", None)
    BY <1>5, <1>6, <1>7, <1>9, EndKeeps DEF Answers
  <1>10. QED
    BY <1>1, <1>8, <1>9 DEF EndCommitted

LEMMA InsertShareKeeps ==
    ASSUME IInv, NEW s \in Slots, InsertShare(s)
    PROVE  IInv'
  <1> DEFINE o == order[s]
             row == [order |-> o, view |-> update[s], recent |-> TRUE]
  <1>1. /\ pc[s] = "insert"
        /\ snapshots' = [snapshots EXCEPT ![o.user][o.id] = row]
        /\ EndCommitted(s, update[s])
        /\ UNCHANGED <<wallet, granted, journal, markets, requests, due>>
    BY DEF InsertShare, ledger
  <1>2. update[s] \in Responses
    BY <1>1 DEF IInv, Attempt
  <1>3. o \in Order /\ o.user \in Users /\ o.id \in Ids
    BY <1>1, Known
  <1>4. row \in SnapshotRow
    BY <1>2, <1>3 DEF SnapshotRow
  <1> HIDE DEF o, row
  <1>5. RowsOK'
    <2>1. snapshots' \in [Users -> [Ids -> SnapshotRow \cup {None}]]
      BY <1>1, <1>3, <1>4 DEF IInv, TypeOK, RowsOK
    <2>2. QED
      BY <1>1, <2>1 DEF IInv, TypeOK, RowsOK
  <1>6. Growing /\ \A r \in Slots \ {s} : Untouched(r)
    <2>1. Growing
      BY <1>1 DEF Growing
    <2>2. QED
      BY <1>1, <2>1, SameRows DEF IInv
  <1>7. PICK answer : answer = update[s]
    OBVIOUS
  <1>8. CASE End(s, "done", update[s])
    BY <1>2, <1>5, <1>6, <1>7, <1>8, EndKeeps DEF Answers
  <1>9. CASE End(s, "failed", None)
    BY <1>5, <1>6, <1>9, EndKeeps DEF Answers
  <1>10. QED
    BY <1>1, <1>8, <1>9 DEF EndCommitted

LEMMA EndCommittedQuiet ==
    ASSUME IInv, NEW s \in Slots, NEW answer \in Responses, EndCommitted(s, answer), UNCHANGED rows
    PROVE  IInv'
  BY EndQuiet DEF EndCommitted, Answers

LEMMA ReplayKeeps ==
    ASSUME IInv, NEW s \in Slots, Replay(s) \/ ReplayShare(s)
    PROVE  IInv'
  <1>1. CASE Refuse(s)
    BY <1>1, RefuseKeeps
  <1>2. CASE Replay(s) /\ ~ Refuse(s)
    <2>1. PICK old : old = Previous(order[s])
      OBVIOUS
    <2>2. /\ pc[s] = "lookup" /\ old # None
          /\ EndCommitted(s, old.response) /\ UNCHANGED rows
      BY <1>2, <2>1 DEF Replay
    <2>3. old \in RequestRow
      BY <2>1, <2>2, Known DEF Previous, IInv, TypeOK, RowsOK
    <2>4. old.response \in Responses
      BY <2>3 DEF RequestRow
    <2>5. QED
      BY <2>2, <2>4, EndCommittedQuiet
  <1>3. CASE ReplayShare(s) /\ ~ Refuse(s)
    <2>1. PICK old : old = snapshots[order[s].user][order[s].id]
      OBVIOUS
    <2>2. /\ pc[s] = "lookup" /\ old # None
          /\ EndCommitted(s, old.view) /\ UNCHANGED rows
      BY <1>3, <2>1 DEF ReplayShare
    <2>3. old \in SnapshotRow
      BY <2>1, <2>2, Known DEF IInv, TypeOK, RowsOK
    <2>4. old.view \in Responses
      BY <2>3 DEF SnapshotRow
    <2>5. QED
      BY <2>2, <2>4, EndCommittedQuiet
  <1>4. QED
    BY <1>1, <1>2, <1>3

LEMMA FailKeeps ==
    ASSUME IInv, NEW s \in Slots, Fail(s)
    PROVE  IInv'
  BY EndQuiet DEF Fail, Answers
-----------------------------------------------------------------------------
(* Tabs and time. *)

LEMMA OrdersAreSendable ==
    ASSUME IInv, NEW u \in Users, NEW o \in Orders(u)
    PROVE  Sendable(o)
  <1> DEFINE View(m) == Advance(markets[m], m \in due).revision
  <1>1. ASSUME NEW m \in Markets, markets[m] # None
        PROVE  View(m) \in Nat
    <2>1. markets[m] \in Document
      BY <1>1 DEF IInv, TypeOK, RowsOK
    <2>2. Advance(markets[m], m \in due) \in Document
      BY <2>1, ClosedType DEF Advance
    <2>3. QED
      BY <2>2 DEF Document
  <1>2. CASE \E i \in CreateIds : o = OrderOf(u, i, "create", None, 0, 0)
    BY <1>2, BoundAssumption DEF Sendable, Order, OrderOf, Ops
  <1>3. CASE \E i \in Ids, m \in Markets : markets[m] # None /\ o = OrderOf(u, i, "share", m, 0, 0)
    BY <1>3 DEF Sendable, Order, OrderOf, Ops
  <1>4. CASE \E i \in Ids, m \in Markets, a \in Amounts :
               markets[m] # None /\ o = OrderOf(u, i, "buy", m, a, View(m))
    BY <1>1, <1>4 DEF Sendable, Order, OrderOf, Ops, TradeOps
  <1>5. CASE \E i \in Ids, m \in Markets, op \in {"sell", "claim"} :
               markets[m] # None /\ o = OrderOf(u, i, op, m, 0, View(m))
    BY <1>1, <1>5 DEF Sendable, Order, OrderOf, Ops, TradeOps
  <1>6. QED
    BY <1>2, <1>3, <1>4, <1>5 DEF Orders

LEMMA SendKeeps ==
    ASSUME IInv, NEW t \in Tabs, NEW s \in Slots, NEW o, Sendable(o), NEW n \in Nat,
           Send(t, s, o, n)
    PROVE  IInv'
  <1> DEFINE row == [state |-> "waiting", order |-> o, slot |-> s, answer |-> None, sent |-> n]
  <1>1. /\ pc[s] = "free" /\ pc' = [pc EXCEPT ![s] = "login"]
        /\ order' = [order EXCEPT ![s] = o]
        /\ tab' = [tab EXCEPT ![t] = row]
        /\ UNCHANGED <<rows, locks, reads>>
    BY DEF Send
  <1>2. o \in Order
    BY DEF Sendable
  <1>3. row \in [state : Answers, order : Order \cup {None}, slot : Slots \cup {None},
                 answer : Responses \cup {None}, sent : Nat]
    BY <1>2 DEF Answers
  <1>4. row.order = o
    OBVIOUS
  <1> HIDE DEF row
  <1>5. pc'[s] = "login" /\ order'[s] = o
    BY <1>1 DEF IInv, TypeOK, AttemptsOK
  <1>6. Alone(s)
    BY <1>1 DEF Alone, IInv, TypeOK, AttemptsOK, locks, reads
  <1>7. RowsOK' /\ TabsOK'
    BY <1>1, <1>3 DEF IInv, TypeOK, RowsOK, TabsOK, rows
  <1>8. AttemptsOK'
    BY <1>1, <1>2 DEF IInv, TypeOK, AttemptsOK, Statements, locks, reads
  <1>9. Growing /\ \A r \in Slots \ {s} : Untouched(r)
    <2>1. Growing
      BY <1>1 DEF Growing, rows
    <2>2. QED
      BY <1>1, <2>1, SameRows DEF IInv, rows
  <1>10. Sendable(o)'
    BY <1>9, SendableKept
  <1>11. OrdersSendable'
    <2>1. SUFFICES ASSUME NEW k \in Tabs, tab'[k].state # "idle" \/ tab'[k].slot # None
                   PROVE  Sendable(tab[k].order)'
      BY DEF OrdersSendable
    <2>2. CASE k = t
      <3>1. tab'[k].order = o
        BY <1>1, <1>4, <2>2 DEF IInv, TypeOK, TabsOK
      <3>2. QED
        BY <1>10, <3>1
    <2>3. CASE k # t
      <3>1. tab'[k] = tab[k]
        BY <1>1, <2>3 DEF IInv, TypeOK, TabsOK
      <3>2. PICK p : p = tab[k].order
        OBVIOUS
      <3>3. Sendable(p)'
        BY <1>9, <2>1, <3>1, <3>2, SendableKept DEF IInv, OrdersSendable
      <3>4. QED
        BY <3>1, <3>2, <3>3
    <2>4. QED
      BY <2>2, <2>3
  <1>12. Attempt(s)'
    <2>1. Sendable(order[s])'
      BY <1>5, <1>10
    <2>2. LockedReadsAreCurrent(s)' /\ CommitReady(s)'
      BY <1>5 DEF LockedReadsAreCurrent, HoldsWallet, HoldsMarket, CommitReady
    <2>3. QED
      BY <1>5, <2>1, <2>2 DEF Attempt, PastLogin
  <1>13. QED
    BY <1>5, <1>6, <1>7, <1>8, <1>9, <1>11, <1>12, StepKeeps DEF Unpooled

LEMMA NewOrderKeeps ==
    ASSUME IInv, NEW t \in Tabs, NewOrder(t)
    PROVE  IInv'
  <1>1. PICK s \in Slots, o \in Orders(Owner[t]) : Send(t, s, o, tab[t].sent + 1)
    BY DEF NewOrder
  <1>2. PICK n : n = tab[t].sent + 1
    OBVIOUS
  <1>3. n \in Nat
    BY <1>2 DEF IInv, TypeOK, TabsOK
  <1>4. Sendable(o)
    BY <1>1, TabsAssumption, OrdersAreSendable
  <1>5. Send(t, s, o, n)
    BY <1>1, <1>2
  <1>6. QED
    BY <1>3, <1>4, <1>5, SendKeeps

LEMMA RetryKeeps ==
    ASSUME IInv, NEW t \in Tabs, Retry(t)
    PROVE  IInv'
  <1>1. PICK o, n : o = tab[t].order /\ n = tab[t].sent
    OBVIOUS
  <1>2. PICK s \in Slots : Send(t, s, o, n)
    BY <1>1 DEF Retry
  <1>3. n \in Nat
    BY <1>1 DEF IInv, TypeOK, TabsOK
  <1>4. Sendable(o)
    BY <1>1 DEF Retry, IInv, OrdersSendable
  <1>5. QED
    BY <1>2, <1>3, <1>4, SendKeeps

(* Steps of nobody on the server. *)
LEMMA OutsideKeeps ==
    ASSUME IInv, UNCHANGED <<locks, pc, order, reads>>,
           UNCHANGED <<wallet, granted, markets>>, due \subseteq due',
           RowsOK', TabsOK',
           \A t \in Tabs : /\ tab'[t].order = tab[t].order
                           /\ tab'[t].state # "idle" \/ tab'[t].slot # None
                                => tab[t].state # "idle" \/ tab[t].slot # None
    PROVE  IInv'
  <1>1. Growing
    BY DEF Growing
  <1>2. ASSUME NEW r \in Slots
        PROVE  Attempt(r)'
    <2>1. pc[r] = "commit" /\ order[r].op = "create" => markets[update[r].market] = None
      BY DEF IInv, Attempt, CommitReady, Created
    <2>2. Untouched(r)
      BY <2>1 DEF Untouched
    <2>3. Alone(None)
      BY SlotsAssumption DEF Alone, locks, reads
    <2>4. QED
      BY <1>1, <2>2, <2>3, AttemptKept, SlotsAssumption DEF IInv
  <1>3. OrdersSendable'
    <2>1. SUFFICES ASSUME NEW t \in Tabs, tab'[t].state # "idle" \/ tab'[t].slot # None
                   PROVE  Sendable(tab[t].order)'
      BY DEF OrdersSendable
    <2>2. PICK o : o = tab[t].order
      OBVIOUS
    <2>3. Sendable(o)'
      BY <1>1, <2>1, <2>2, SendableKept DEF IInv, OrdersSendable
    <2>4. QED
      BY <2>2, <2>3
  <1>4. TypeOK'
    <2>1. Connected' = Connected
      BY DEF Connected
    <2>2. AttemptsOK'
      BY DEF IInv, TypeOK, AttemptsOK, locks, reads
    <2>3. QED
      BY <2>1, <2>2 DEF IInv, TypeOK
  <1>5. DistinctMarkets'
    BY DEF IInv, DistinctMarkets, reads
  <1>6. QED
    BY <1>2, <1>3, <1>4, <1>5 DEF IInv

LEMMA GoneKeeps ==
    ASSUME IInv, NEW t \in Tabs, Gone(t)
    PROVE  IInv'
  <1>1. /\ tab[t].state = "waiting"
        /\ tab' = [tab EXCEPT ![t] = [tab[t] EXCEPT !.state = "failed", !.slot = None]]
        /\ UNCHANGED <<rows, locks, pc, order, reads>>
    BY DEF Gone
  <1>2. PICK row : row = [tab[t] EXCEPT !.state = "failed", !.slot = None]
    OBVIOUS
  <1>3. /\ row \in [state : Answers, order : Order \cup {None}, slot : Slots \cup {None},
                    answer : Responses \cup {None}, sent : Nat]
        /\ row.order = tab[t].order
    BY <1>2 DEF IInv, TypeOK, TabsOK, Answers
  <1>4. TabsOK'
    BY <1>1, <1>2, <1>3 DEF IInv, TypeOK, TabsOK
  <1>5. \A k \in Tabs : /\ tab'[k].order = tab[k].order
                        /\ tab'[k].state # "idle" \/ tab'[k].slot # None
                             => tab[k].state # "idle" \/ tab[k].slot # None
    BY <1>1, <1>2, <1>3 DEF IInv, TypeOK, TabsOK
  <1>6. RowsOK'
    BY <1>1 DEF IInv, TypeOK, RowsOK, rows
  <1>7. QED
    BY <1>1, <1>4, <1>5, <1>6, OutsideKeeps DEF rows

LEMMA DeadlineKeeps ==
    ASSUME IInv, NEW m \in Markets, DeadlinePasses(m)
    PROVE  IInv'
  <1>1. /\ due' = due \cup {m}
        /\ UNCHANGED <<wallet, granted, journal, markets, requests, snapshots>>
        /\ UNCHANGED <<locks, pc, order, reads, tab>>
    BY DEF DeadlinePasses, Ledger!DeadlinePasses
  <1>2. RowsOK' /\ TabsOK'
    BY <1>1 DEF IInv, TypeOK, RowsOK, TabsOK
  <1>3. QED
    BY <1>1, <1>2, OutsideKeeps

LEMMA MinuteKeeps ==
    ASSUME IInv, NEW u \in Users, NEW i \in Ids, MinutePasses(u, i)
    PROVE  IInv'
  <1>1. PICK row : row = [snapshots[u][i] EXCEPT !.recent = FALSE]
    OBVIOUS
  <1>2. /\ snapshots[u][i] # None
        /\ snapshots' = [snapshots EXCEPT ![u] = [snapshots[u] EXCEPT ![i] = row]]
        /\ UNCHANGED <<wallet, granted, journal, markets, requests, due>>
        /\ UNCHANGED <<locks, pc, order, reads, tab>>
    BY <1>1 DEF MinutePasses, RecentSnapshots, Snapshots, ledger
  <1>3. row \in SnapshotRow
    <2>1. snapshots[u][i] \in SnapshotRow
      BY <1>2 DEF IInv, TypeOK, RowsOK
    <2>2. QED
      BY <1>1, <2>1 DEF SnapshotRow
  <1>4. snapshots' \in [Users -> [Ids -> SnapshotRow \cup {None}]]
    BY <1>2, <1>3 DEF IInv, TypeOK, RowsOK
  <1>5. RowsOK' /\ TabsOK'
    BY <1>2, <1>4 DEF IInv, TypeOK, RowsOK, TabsOK
  <1>6. QED
    BY <1>2, <1>5, OutsideKeeps

LEMMA InitIInv ==
    ASSUME Init
    PROVE  IInv
  <1>1. RowsOK
    <2>1. <<>> \in Seq(JournalRow)
      OBVIOUS
    <2>2. QED
      BY <2>1 DEF Init, Ledger!Init, EmptyServer, RowsOK
  <1>2. AttemptsOK
    BY DEF Init, EmptyServer, AttemptsOK, Statements
  <1>3. TabsOK
    BY DEF Init, EmptyServer, TabsOK, Answers
  <1>4. Cardinality(Connected) <= PoolSize
    <2>1. Connected = {}
      BY DEF Init, EmptyServer, Connected
    <2>2. QED
      BY <2>1, PoolAssumption, FS_EmptySet
  <1>5. \A s \in Slots : pc[s] = "free"
    BY DEF Init, EmptyServer
  <1>6. \A s \in Slots : Attempt(s)
    <2>1. \A s \in Slots : LockedReadsAreCurrent(s) /\ CommitReady(s)
      BY <1>5 DEF LockedReadsAreCurrent, HoldsWallet, HoldsMarket, CommitReady
    <2>2. QED
      BY <1>5, <2>1 DEF Attempt, PastLogin
  <1>7. OrdersSendable /\ DistinctMarkets
    BY <1>5 DEF Init, EmptyServer, OrdersSendable, DistinctMarkets
  <1>8. QED
    BY <1>1, <1>2, <1>3, <1>4, <1>6, <1>7 DEF IInv, TypeOK

LEMMA StutterKeeps ==
    ASSUME IInv, UNCHANGED vars
    PROVE  IInv'
  <1>1. /\ UNCHANGED <<wallet, granted, markets, due>> /\ tab' = tab
        /\ UNCHANGED <<locks, pc, order, reads>>
    BY DEF vars, rows
  <1>2. RowsOK' /\ TabsOK'
    BY DEF IInv, TypeOK, RowsOK, TabsOK, vars, rows
  <1>3. QED
    BY <1>1, <1>2, OutsideKeeps

LEMMA NextIInv ==
    ASSUME IInv, [Next]_vars
    PROVE  IInv'
  <1>1. ASSUME NEW s \in Slots, Work(s)
        PROVE  IInv'
    BY <1>1, LoggedInKeeps, ReplayKeeps, LookupKeeps, ExecuteCreateKeeps, ExecuteKeeps,
       CommitKeeps, ShareKeeps DEF Work
  <1>2. ASSUME NEW s \in Slots, Await(s)
        PROVE  IInv'
    BY <1>2, LoginKeeps, LockWalletKeeps, LockMarketKeeps, InsertShareKeeps DEF Await
  <1>3. ASSUME NEW s \in Slots, LoginUnheard(s) \/ Fail(s)
        PROVE  IInv'
    BY <1>3, LoginUnheardKeeps, FailKeeps
  <1>4. ASSUME NEW t \in Tabs, NewOrder(t) \/ Retry(t) \/ Gone(t)
        PROVE  IInv'
    BY <1>4, NewOrderKeeps, RetryKeeps, GoneKeeps
  <1>5. QED
    BY <1>1, <1>2, <1>3, <1>4, DeadlineKeeps, MinuteKeeps, StutterKeeps DEF Next
-----------------------------------------------------------------------------
(* Types, and with them that no wallet becomes negative and the pool is not   *)
(* exceeded, hold in every state (store.ts, http.ts).                        *)
THEOREM TypeCorrect == Spec => []TypeOK
  <1>1. Init => IInv
    BY InitIInv
  <1>2. IInv /\ [Next]_vars => IInv'
    BY NextIInv
  <1>3. IInv => TypeOK
    BY DEF IInv
  <1>4. QED
    BY <1>1, <1>2, <1>3, PTL DEF Spec
-----------------------------------------------------------------------------
(* The store implements the ledger. *)

(* The instance has the engine under names of its own. *)
LEMMA SameEngine ==
    ASSUME NEW d, NEW o, NEW w
    PROVE  /\ Ledger!Allowed(d, o, w) <=> Allowed(d, o, w)
           /\ Ledger!Traded(d, o, w) = Traded(d, o, w)
           /\ Ledger!WalletAfter(d, o, w) = WalletAfter(d, o, w)
  <1>1. Ledger!Credit(d, o, w) = Credit(d, o, w) /\ Ledger!Proceeds(d, o) = Proceeds(d, o)
    BY DEF Credit, Proceeds, Ledger!Credit, Ledger!Proceeds
  <1>2. Ledger!Funds(d, o, w) = Funds(d, o, w)
    BY <1>1 DEF Funds, Ledger!Funds
  <1>3. Ledger!WalletAfter(d, o, w) = WalletAfter(d, o, w)
    BY <1>2 DEF WalletAfter, Withdrawable, Ledger!WalletAfter, Ledger!Withdrawable
  <1>4. Ledger!DustAfter(d, o, w) = DustAfter(d, o, w) /\ Ledger!HeldAfter(d, o) = HeldAfter(d, o)
    BY <1>2, <1>3 DEF DustAfter, Ledger!DustAfter, HeldAfter, Ledger!HeldAfter
  <1>5. Ledger!Traded(d, o, w) = Traded(d, o, w)
    BY <1>1, <1>4 DEF Traded, Ledger!Traded
  <1>6. Ledger!Allowed(d, o, w) <=> Allowed(d, o, w)
    BY <1>1 DEF Allowed, Ledger!Allowed
  <1>7. QED
    BY <1>3, <1>5, <1>6

LEMMA QuietRefines ==
    ASSUME UNCHANGED rows
    PROVE  [Ledger!Next]_ledger
  BY DEF rows, ledger

LEMMA GrantRefines ==
    ASSUME IInv, NEW s \in Slots, pc[s] = "grant", GrantOnce(order[s].user, balance[s]),
           UNCHANGED <<markets, requests, due>>
    PROVE  [Ledger!Next]_ledger
  <1> DEFINE u == order[s].user
  <1>1. u \in Users /\ balance[s] = wallet[u]
    BY Known DEF IInv, Attempt, LockedReadsAreCurrent, HoldsWallet
  <1>2. CASE u \in granted
    BY <1>2 DEF GrantOnce, ledger
  <1>3. CASE u \notin granted
    <2>1. Ledger!Grant(u)
      BY <1>1, <1>3 DEF GrantOnce, Ledger!Grant, Entry, Ledger!Entry, IInv, TypeOK, RowsOK
    <2>2. QED
      BY <1>1, <2>1 DEF Ledger!Next
  <1>4. QED
    BY <1>2, <1>3

LEMMA CommitRefines ==
    ASSUME IInv, NEW s \in Slots, Commit(s)
    PROVE  Ledger!Next
  <1> DEFINE o == order[s]
             n == update[s]
  <1>1. /\ pc[s] = "commit" /\ requests[o.user][o.id] = None
        /\ markets' = [markets EXCEPT ![n.market] = n.document]
        /\ wallet' = [wallet EXCEPT ![o.user] = n.wallet]
        /\ requests' = [requests EXCEPT ![o.user][o.id] =
                           Request(o, n.market, n.document, n.wallet)]
        /\ journal' = [journal EXCEPT ![o.user] = Append(@, Entry(o.id, balance[s], n.wallet))]
        /\ UNCHANGED <<granted, due>>
    BY DEF Commit, Previous
  <1>2. /\ o.user \in Users /\ o.id \in Ids /\ o.user \in granted
        /\ balance[s] = wallet[o.user] /\ Sendable(o)
    BY <1>1, Known DEF IInv, Attempt, PastLogin, LockedReadsAreCurrent, HoldsWallet
  <1>3. Ledger!Effect(o, n.market, n.document, n.wallet)
    BY <1>1, <1>2 DEF Ledger!Effect, Entry, Ledger!Entry, Request, Response, Ledger!Request,
       Ledger!Response, IInv, TypeOK, RowsOK
  <1>4. CASE o.op = "create"
    <2>1. /\ n.market \in Markets /\ markets[n.market] = None
          /\ n.document = NewDocument(o.user) /\ n.wallet = wallet[o.user]
      <3>1. Created(s)
        BY <1>1, <1>4 DEF IInv, Attempt, CommitReady
      <3>2. QED
        BY <1>2, <3>1 DEF Created
    <2>2. o = OrderOf(o.user, o.id, "create", None, 0, 0)
      BY <1>2, <1>4 DEF Sendable
    <2>3. Ledger!Create(o.user, o.id)
      BY <1>2, <1>3, <2>1, <2>2 DEF Ledger!Create, NewDocument, Ledger!NewDocument, OrderOf,
         Ledger!OrderOf
    <2>4. QED
      BY <1>2, <2>3 DEF Ledger!Next
  <1>5. CASE o.op # "create"
    <2>1. /\ o.op \in TradeOps /\ o.market \in Markets /\ markets[o.market] # None
          /\ document[s] = markets[o.market] /\ n.market = o.market /\ Computed(s)
      BY <1>1, <1>2, <1>5, TradeReady DEF Sendable
    <2>2. PICK late \in BOOLEAN :
            LET d == Advance(document[s], late)
            IN /\ late => o.market \in due
               /\ d.revision = o.revision
               /\ Allowed(d, o, balance[s])
               /\ n = [market |-> o.market, document |-> Traded(d, o, balance[s]),
                       wallet |-> WalletAfter(d, o, balance[s])]
      BY <2>1 DEF Computed
    <2>3. PICK d : d = Advance(document[s], late)
      OBVIOUS
    <2>4. /\ d = Advance(markets[o.market], late) /\ d.revision = o.revision
          /\ Allowed(d, o, wallet[o.user])
          /\ n.document = Traded(d, o, wallet[o.user])
          /\ n.wallet = WalletAfter(d, o, wallet[o.user])
      BY <1>2, <2>1, <2>2, <2>3
    <2>5. o = OrderOf(o.user, o.id, o.op, o.market, o.amount, d.revision)
          /\ o.amount \in Amounts \cup {0}
      BY <1>2, <2>4, OrderType DEF Sendable
    <2>6. /\ Ledger!Allowed(d, o, wallet[o.user])
          /\ Ledger!Effect(o, o.market, Ledger!Traded(d, o, wallet[o.user]),
                           Ledger!WalletAfter(d, o, wallet[o.user]))
      BY <1>3, <2>1, <2>4, SameEngine
    <2>7. late => o.market \in due
      BY <2>2
    <2>8. Ledger!Trade(o.user, o.id, o.op, o.market, o.amount)
      <3>1. d = Ledger!Advance(markets[o.market], late)
        BY <2>4 DEF Advance, Closed, Ledger!Advance, Ledger!Closed
      <3>2. o = Ledger!OrderOf(o.user, o.id, o.op, o.market, o.amount, d.revision)
        BY <2>5 DEF OrderOf, Ledger!OrderOf
      <3>3. QED
        BY <1>2, <2>1, <2>6, <2>7, <3>1, <3>2 DEF Ledger!Trade
    <2>9. QED
      BY <1>2, <2>1, <2>5, <2>8 DEF Ledger!Next, TradeOps, Ledger!TradeOps
  <1>6. QED
    BY <1>4, <1>5

LEMMA NextRefines ==
    ASSUME IInv, [Next]_vars
    PROVE  [Ledger!Next]_ledger
  <1>1. ASSUME NEW s \in Slots, Work(s)
        PROVE  [Ledger!Next]_ledger
    <2>1. CASE LoggedIn(s)
      BY <2>1, GrantRefines DEF LoggedIn, Step
    <2>2. CASE Commit(s)
      BY <2>2, CommitRefines
    <2>3. CASE Replay(s) \/ ReplayShare(s) \/ Lookup(s) \/ ExecuteCreate(s) \/ Execute(s) \/ Share(s)
      <3>1. UNCHANGED rows
        BY <2>3 DEF Replay, ReplayShare, Lookup, ExecuteCreate, Execute, Share, Refuse
      <3>2. QED
        BY <3>1, QuietRefines
    <2>4. QED
      BY <1>1, <2>1, <2>2, <2>3 DEF Work
  <1>2. ASSUME NEW s \in Slots, Await(s)
        PROVE  [Ledger!Next]_ledger
    <2>1. CASE InsertShare(s)
      BY <2>1 DEF InsertShare
    <2>2. CASE ~ InsertShare(s)
      <3>1. UNCHANGED rows
        BY <1>2, <2>2 DEF Await, Login, Upsert, Open, LockWallet, LockMarket
      <3>2. QED
        BY <3>1, QuietRefines
    <2>3. QED
      BY <2>1, <2>2
  <1>3. ASSUME NEW s \in Slots, LoginUnheard(s) \/ Fail(s)
        PROVE  [Ledger!Next]_ledger
    BY <1>3, GrantRefines, QuietRefines DEF LoginUnheard, Fail
  <1>4. ASSUME NEW t \in Tabs, NewOrder(t) \/ Retry(t) \/ Gone(t)
        PROVE  [Ledger!Next]_ledger
    <2>1. UNCHANGED rows
      BY <1>4 DEF NewOrder, Retry, Gone, Send
    <2>2. QED
      BY <2>1, QuietRefines
  <1>5. ASSUME NEW m \in Markets, DeadlinePasses(m)
        PROVE  [Ledger!Next]_ledger
    BY <1>5 DEF DeadlinePasses, Ledger!Next
  <1>6. ASSUME NEW u \in Users, NEW i \in Ids, MinutePasses(u, i)
        PROVE  [Ledger!Next]_ledger
    BY <1>6 DEF MinutePasses
  <1>7. CASE UNCHANGED vars
    BY <1>7, QuietRefines DEF vars
  <1>8. QED
    BY <1>1, <1>2, <1>3, <1>4, <1>5, <1>6, <1>7 DEF Next

(* The server with its attempts, locks, failures and retries is an            *)
(* implementation of the ledger that executes one order at a time: every       *)
(* request takes effect at most once, on the document of the revision it        *)
(* names and on the wallet as it is (store.ts mutate and ensureUser).          *)
THEOREM Refinement == Spec => RefinesLedger
  <1>1. Init => IInv /\ Ledger!Init
    BY InitIInv DEF Init
  <1>2. IInv /\ [Next]_vars => IInv'
    BY NextIInv
  <1>3. IInv /\ [Next]_vars => [Ledger!Next]_ledger
    BY NextRefines
  <1>4. [Ledger!Next]_ledger => [Ledger!Next]_Ledger!lvars
    BY DEF ledger, Ledger!lvars
  <1>5. QED
    BY <1>1, <1>2, <1>3, <1>4, PTL DEF Spec, RefinesLedger, Ledger!Spec
-----------------------------------------------------------------------------
(* The journal explains the wallets. *)

(* What user u has in the books: the grant (as None) and the requests. *)
Recorded(u) ==
    {i \in Ids : requests[u][i] # None} \cup (IF u \in granted THEN {None} ELSE {})

Explained(u) ==
    LET j == journal[u] IN
    /\ \A k \in 2..Len(j) : j[k].before = j[k - 1].after
    /\ wallet[u] = IF Len(j) = 0 THEN 0 ELSE j[Len(j)].after
    /\ \A k, l \in 1..Len(j) : j[k].id = j[l].id => k = l
    /\ \A i \in Ids \cup {None} : i \in Recorded(u) <=> \E k \in 1..Len(j) : j[k].id = i

LEMMA ExplainedUsers ==
    /\ JournalExplains <=> \A u \in Users : Explained(u)
    /\ JournalExplains' <=> \A u \in Users : Explained(u)'
  <1>1. ASSUME NEW u \in Users
        PROVE  /\ \A i \in Ids : requests[u][i] # None <=> i \in Recorded(u)
               /\ u \in granted <=> None \in Recorded(u)
    BY NoneAssumption DEF Recorded
  <1>2. ASSUME NEW u \in Users
        PROVE  /\ \A i \in Ids : requests'[u][i] # None <=> i \in Recorded(u)'
               /\ u \in granted' <=> None \in Recorded(u)'
    BY NoneAssumption DEF Recorded
  <1>3. QED
    BY <1>1, <1>2 DEF JournalExplains, Ledger!JournalExplains, Explained

(* One more entry, which starts from the wallet and has an id of its own. *)
LEMMA EntryExplained ==
    ASSUME NEW u \in Users, NEW e \in JournalRow, journal[u] \in Seq(JournalRow), Explained(u),
           journal'[u] = Append(journal[u], e),
           e.before = wallet[u], wallet'[u] = e.after,
           e.id \notin Recorded(u), Recorded(u)' = Recorded(u) \cup {e.id}
    PROVE  Explained(u)'
  <1>1. PICK j, n : j = journal[u] /\ n = journal'[u]
    OBVIOUS
  <1>2. /\ Len(j) \in Nat /\ Len(n) = Len(j) + 1 /\ n[Len(n)] = e
        /\ \A k \in 1..Len(j) : n[k] = j[k]
    BY <1>1
  <1>3. /\ \A k \in 2..Len(j) : j[k].before = j[k - 1].after
        /\ wallet[u] = IF Len(j) = 0 THEN 0 ELSE j[Len(j)].after
        /\ \A k, l \in 1..Len(j) : j[k].id = j[l].id => k = l
        /\ \A i \in Ids \cup {None} : i \in Recorded(u) <=> \E k \in 1..Len(j) : j[k].id = i
    BY <1>1 DEF Explained
  <1>4. ASSUME NEW k \in 1..Len(n)
        PROVE  \/ k \in 1..Len(j) /\ n[k] = j[k]
               \/ k = Len(n) /\ k \notin 1..Len(j) /\ n[k] = e
    BY <1>2
  <1>5. e.id \in Ids \cup {None} /\ \A k \in 1..Len(j) : j[k].id # e.id
    BY <1>3 DEF JournalRow
  <1>6. ASSUME NEW k \in 2..Len(n)
        PROVE  n[k].before = n[k - 1].after
    <2>1. CASE k \in 2..Len(j)
      <3>1. n[k] = j[k] /\ n[k - 1] = j[k - 1]
        BY <1>2, <2>1
      <3>2. QED
        BY <1>3, <2>1, <3>1
    <2>2. CASE k = Len(n)
      <3>1. k - 1 = Len(j) /\ Len(j) \in 1..Len(j) /\ Len(j) # 0
        BY <1>2, <1>6, <2>2
      <3>2. n[k] = e /\ n[k - 1] = j[Len(j)]
        BY <1>2, <2>2, <3>1
      <3>3. QED
        BY <1>3, <3>1, <3>2
    <2>3. QED
      BY <1>2, <1>6, <2>1, <2>2
  <1>7. wallet'[u] = IF Len(n) = 0 THEN 0 ELSE n[Len(n)].after
    BY <1>2
  <1>8. ASSUME NEW k \in 1..Len(n), NEW l \in 1..Len(n), n[k].id = n[l].id
        PROVE  k = l
    BY <1>3, <1>4, <1>5, <1>8
  <1>9. ASSUME NEW i \in Ids \cup {None}
        PROVE  i \in Recorded(u)' <=> \E k \in 1..Len(n) : n[k].id = i
    <2>1. (\E k \in 1..Len(n) : n[k].id = i) <=> (\E k \in 1..Len(j) : j[k].id = i) \/ i = e.id
      <3>1. Len(n) \in 1..Len(n) /\ \A k \in 1..Len(j) : k \in 1..Len(n)
        BY <1>2
      <3>2. QED
        BY <1>2, <1>4, <3>1
    <2>2. QED
      BY <1>3, <2>1
  <1>10. QED
    BY SMTT(30), <1>1, <1>6, <1>7, <1>8, <1>9 DEF Explained

LEMMA StillExplained ==
    ASSUME NEW u \in Users, Explained(u), journal'[u] = journal[u], wallet'[u] = wallet[u],
           Recorded(u)' = Recorded(u)
    PROVE  Explained(u)'
  BY DEF Explained

LEMMA GrantExplains ==
    ASSUME RowsOK, JournalExplains, NEW u \in Users, Ledger!Grant(u)
    PROVE  JournalExplains'
  <1> DEFINE e == Entry(None, wallet[u], wallet[u] + InitialGrant)
  <1>1. /\ u \notin granted /\ granted' = granted \cup {u}
        /\ wallet' = [wallet EXCEPT ![u] = wallet[u] + InitialGrant]
        /\ journal' = [journal EXCEPT ![u] = Append(@, e)]
        /\ requests' = requests
    BY DEF Ledger!Grant, Entry, Ledger!Entry
  <1>2. wallet[u] \in Nat /\ e \in JournalRow
    <2>1. wallet[u] \in Nat /\ wallet[u] + InitialGrant \in Nat
      BY EngineAssumption DEF RowsOK
    <2>2. QED
      BY <2>1, EntryType
  <1>3. e.id = None /\ e.before = wallet[u] /\ e.after = wallet[u] + InitialGrant
    BY DEF Entry
  <1> HIDE DEF e
  <1>4. ASSUME NEW v \in Users
        PROVE  Explained(v)'
    <2>1. Explained(v) /\ journal[v] \in Seq(JournalRow)
      BY ExplainedUsers DEF RowsOK
    <2>2. CASE v = u
      <3>1. journal'[u] = Append(journal[u], e) /\ wallet'[u] = e.after
        BY <1>1, <1>3 DEF RowsOK
      <3>2. e.id \notin Recorded(u) /\ Recorded(u)' = Recorded(u) \cup {e.id}
        BY <1>1, <1>3, NoneAssumption DEF Recorded
      <3>3. QED
        BY <1>2, <1>3, <2>1, <2>2, <3>1, <3>2, EntryExplained
    <2>3. CASE v # u
      <3>1. Recorded(v)' = Recorded(v)
        BY <1>1, <2>3 DEF Recorded
      <3>2. journal'[v] = journal[v] /\ wallet'[v] = wallet[v]
        BY <1>1, <2>3 DEF RowsOK
      <3>3. QED
        BY <2>1, <3>1, <3>2, StillExplained
    <2>4. QED
      BY <2>2, <2>3
  <1>5. QED
    BY <1>4, ExplainedUsers

LEMMA RequestType ==
    ASSUME NEW o \in Order, NEW m \in Markets, NEW d \in Document, NEW w \in Nat
    PROVE  Ledger!Request(o, m, d, w) \in RequestRow
  <1>1. Ledger!Response(m, d, w) \in Responses
    BY ResponseType DEF Response, Ledger!Response
  <1>2. QED
    BY <1>1 DEF Ledger!Request, RequestRow

LEMMA EffectExplains ==
    ASSUME RowsOK, RowsOK', JournalExplains, NEW o, o.user \in Users, o.id \in Ids,
           NEW m, NEW d, NEW w, Ledger!Request(o, m, d, w) \in RequestRow, Ledger!Effect(o, m, d, w)
    PROVE  JournalExplains'
  <1> DEFINE u == o.user
             e == Entry(o.id, wallet[u], w)
             row == Ledger!Request(o, m, d, w)
  <1>1. /\ requests[u][o.id] = None
        /\ wallet' = [wallet EXCEPT ![u] = w]
        /\ requests' = [requests EXCEPT ![u][o.id] = row]
        /\ journal' = [journal EXCEPT ![u] = Append(@, e)]
        /\ granted' = granted
    BY DEF Ledger!Effect, Entry, Ledger!Entry
  <1>2. wallet[u] \in Nat /\ e \in JournalRow
    <2>1. wallet[u] \in Nat /\ w \in Nat
      BY <1>1 DEF RowsOK
    <2>2. QED
      BY <2>1, EntryType
  <1>3. e.id = o.id /\ e.before = wallet[u] /\ e.after = w
    BY DEF Entry
  <1>4. row # None
    BY NoneAssumption
  <1> HIDE DEF e, row
  <1>5. ASSUME NEW v \in Users
        PROVE  Explained(v)'
    <2>1. Explained(v) /\ journal[v] \in Seq(JournalRow)
      BY ExplainedUsers DEF RowsOK
    <2>2. CASE v = u
      <3>1. journal'[u] = Append(journal[u], e) /\ wallet'[u] = e.after
        BY <1>1, <1>3 DEF RowsOK
      <3>2. e.id \notin Recorded(u)
        BY <1>1, <1>3, NoneAssumption DEF Recorded
      <3>3. Recorded(u)' = Recorded(u) \cup {e.id}
        BY <1>1, <1>3, <1>4 DEF Recorded, RowsOK
      <3>4. QED
        BY <1>2, <1>3, <2>1, <2>2, <3>1, <3>2, <3>3, EntryExplained
    <2>3. CASE v # u
      <3>1. Recorded(v)' = Recorded(v)
        BY <1>1, <2>3 DEF Recorded, RowsOK
      <3>2. journal'[v] = journal[v] /\ wallet'[v] = wallet[v]
        BY <1>1, <2>3 DEF RowsOK
      <3>3. QED
        BY <2>1, <3>1, <3>2, StillExplained
    <2>4. QED
      BY <2>2, <2>3
  <1>6. QED
    BY <1>5, ExplainedUsers

(* What a trade of the ledger is made of: the document as it is or closed by   *)
(* its deadline, an order of the user, and the engine's effect.                *)
LEMMA TradeParts ==
    ASSUME RowsOK, NEW u \in Users, NEW i \in Ids, NEW op \in TradeOps, NEW m \in Markets,
           NEW a \in Amounts \cup {0}, Ledger!Trade(u, i, op, m, a)
    PROVE  \E b \in Document, o \in Order :
             /\ o.user = u /\ o.id \in Ids /\ b \in {markets[m], Closed(markets[m])}
             /\ Allowed(b, o, wallet[u])
             /\ Ledger!Effect(o, m, Traded(b, o, wallet[u]), WalletAfter(b, o, wallet[u]))
             /\ Traded(b, o, wallet[u]) \in Document /\ WalletAfter(b, o, wallet[u]) \in Nat
  <1>1. PICK late \in BOOLEAN :
          LET b == Ledger!Advance(markets[m], late)
              p == Ledger!OrderOf(u, i, op, m, a, b.revision)
          IN /\ Ledger!Allowed(b, p, wallet[u])
             /\ Ledger!Effect(p, m, Ledger!Traded(b, p, wallet[u]),
                              Ledger!WalletAfter(b, p, wallet[u]))
    BY DEF Ledger!Trade
  <1>2. PICK b : b = Ledger!Advance(markets[m], late)
    OBVIOUS
  <1>3. PICK o : o = Ledger!OrderOf(u, i, op, m, a, b.revision)
    OBVIOUS
  <1>4. PICK w : w = wallet[u]
    OBVIOUS
  <1>5. b \in Document /\ b \in {markets[m], Closed(markets[m])} /\ b.revision \in Nat
    <2>1. markets[m] \in Document
      BY DEF Ledger!Trade, RowsOK
    <2>2. b \in {markets[m], Closed(markets[m])}
      BY <1>2 DEF Ledger!Advance, Ledger!Closed, Closed
    <2>3. b \in Document
      BY <2>1, <2>2, ClosedType
    <2>4. QED
      BY <2>2, <2>3 DEF Document
  <1>6. o \in Order /\ o.user = u /\ o.id \in Ids
    <2>1. op \in Ops
      BY DEF Ops
    <2>2. QED
      BY <1>3, <1>5, <2>1 DEF Ledger!OrderOf, Order
  <1>7. Allowed(b, o, w) /\ Ledger!Effect(o, m, Traded(b, o, w), WalletAfter(b, o, w))
    BY <1>1, <1>2, <1>3, <1>4, SameEngine
  <1>8. Traded(b, o, w) \in Document /\ WalletAfter(b, o, w) \in Nat
    <2>1. w \in Nat
      BY <1>4 DEF RowsOK
    <2>2. QED
      BY <1>5, <1>6, <1>7, <2>1, TradedType
  <1>9. QED
    BY <1>4, <1>5, <1>6, <1>7, <1>8

LEMMA LedgerExplains ==
    ASSUME RowsOK, RowsOK', JournalExplains, [Ledger!Next]_ledger
    PROVE  JournalExplains'
  <1>1. CASE UNCHANGED ledger
    BY <1>1 DEF JournalExplains, Ledger!JournalExplains, ledger
  <1>2. ASSUME NEW u \in Users, Ledger!Grant(u)
        PROVE  JournalExplains'
    BY <1>2, GrantExplains
  <1>3. ASSUME NEW u \in Users, NEW i \in Ids, Ledger!Create(u, i)
        PROVE  JournalExplains'
    <2>1. PICK o, d, w : o = Ledger!OrderOf(u, i, "create", None, 0, 0) /\ w = wallet[u]
                         /\ d = Ledger!NewDocument(u)
      OBVIOUS
    <2>2. PICK m \in Markets : Ledger!Effect(o, m, d, w)
      BY <1>3, <2>1 DEF Ledger!Create
    <2>3. o \in Order /\ o.user \in Users /\ o.id \in Ids
      BY <2>1 DEF Ledger!OrderOf, Order, Ops
    <2>4. d \in Document /\ w \in Nat
      BY <2>1, NewDocumentType DEF NewDocument, Ledger!NewDocument, RowsOK
    <2>5. QED
      BY <2>2, <2>3, <2>4, RequestType, EffectExplains
  <1>4. ASSUME NEW u \in Users, NEW i \in Ids, NEW op \in TradeOps, NEW m \in Markets,
               NEW a \in Amounts \cup {0}, Ledger!Trade(u, i, op, m, a)
        PROVE  JournalExplains'
    <2>1. PICK b \in Document, o \in Order :
            /\ o.user = u /\ o.id \in Ids
            /\ Ledger!Effect(o, m, Traded(b, o, wallet[u]), WalletAfter(b, o, wallet[u]))
            /\ Traded(b, o, wallet[u]) \in Document /\ WalletAfter(b, o, wallet[u]) \in Nat
      BY <1>4, TradeParts
    <2>2. QED
      BY <2>1, RequestType, EffectExplains
  <1>5. ASSUME NEW m \in Markets, Ledger!DeadlinePasses(m)
        PROVE  JournalExplains'
    BY <1>5 DEF Ledger!DeadlinePasses, JournalExplains, Ledger!JournalExplains
  <1>6. QED
    BY <1>1, <1>2, <1>3, <1>4, <1>5 DEF Ledger!Next, TradeOps, Ledger!TradeOps

(* In every state the journal explains every wallet: no entry missing, doubled  *)
(* or computed from a balance that was not the last (ocp_paper_journal).       *)
THEOREM JournalAlwaysExplains == Spec => []JournalExplains
  <1>1. Init => IInv /\ JournalExplains
    BY InitIInv DEF Init, Ledger!Init, JournalExplains, Ledger!JournalExplains
  <1>2. IInv /\ JournalExplains /\ [Next]_vars => (IInv /\ JournalExplains)'
    BY NextIInv, NextRefines, LedgerExplains DEF IInv, TypeOK
  <1>3. QED
    BY <1>1, <1>2, PTL DEF Spec
-----------------------------------------------------------------------------
(* Money. *)

MoneyInMarkets == [m \in Markets |-> MoneyIn(m)]

(* The amounts that are added up are integers. *)
MoneyIsWhole ==
    /\ \A u \in Users : wallet[u] \in Int
    /\ \A m \in Markets : MoneyIn(m) \in Int
    /\ SumFunctionOnSet(wallet, Users) \in Int
    /\ SumFunctionOnSet(MoneyInMarkets, Markets) \in Int

LEMMA MoneyType == RowsOK => MoneyIsWhole
  <1> SUFFICES ASSUME RowsOK PROVE MoneyIsWhole
    OBVIOUS
  <1>1. \A u \in Users : wallet[u] \in Int
    BY DEF RowsOK
  <1>2. ASSUME NEW m \in Markets PROVE MoneyIn(m) \in Int
    <2>1. CASE markets[m] = None
      BY <2>1 DEF MoneyIn
    <2>2. CASE markets[m] # None
      <3>1. markets[m].cash \in Int /\ \A u \in Users : markets[m].dust[u] \in Int
        BY <2>2 DEF RowsOK, Document
      <3>2. SumFunctionOnSet(markets[m].dust, Users) \in Int
        BY <3>1, FiniteAssumption, SumIsInteger
      <3>3. QED
        BY <2>2, <3>1, <3>2 DEF MoneyIn
    <2>3. QED
      BY <2>1, <2>2
  <1>3. SumFunctionOnSet(wallet, Users) \in Int
    BY <1>1, FiniteAssumption, SumIsInteger
  <1>4. SumFunctionOnSet(MoneyInMarkets, Markets) \in Int
    BY <1>2, FiniteAssumption, SumIsInteger DEF MoneyInMarkets
  <1>5. QED
    BY <1>1, <1>2, <1>3, <1>4 DEF MoneyIsWhole

LEMMA MoneyTypeNext == RowsOK' => MoneyIsWhole'
  BY MoneyType, PTL

(* Money that moves between one wallet and one market is conserved. *)
LEMMA MoneyMoves ==
    ASSUME RowsOK, RowsOK', MoneyConserved, granted' = granted, NEW u \in Users, NEW m \in Markets,
           \A v \in Users \ {u} : wallet'[v] = wallet[v],
           \A k \in Markets \ {m} : markets'[k] = markets[k],
           wallet'[u] * Fine + MoneyIn(m)' = wallet[u] * Fine + MoneyIn(m)
    PROVE  MoneyConserved'
  <1> DEFINE wallets == SumFunctionOnSet(wallet, Users)
             inMarkets == SumFunctionOnSet(MoneyInMarkets, Markets)
             n == MoneyIn(m)
  <1>1. /\ wallets \in Int /\ wallets' \in Int /\ inMarkets \in Int /\ inMarkets' \in Int
        /\ n \in Int /\ n' \in Int
        /\ \A v \in Users : wallet[v] \in Int /\ wallet'[v] \in Int
        /\ \A k \in Markets : MoneyInMarkets[k] \in Int /\ MoneyInMarkets'[k] \in Int
    BY MoneyType, MoneyTypeNext DEF MoneyIsWhole, MoneyInMarkets
  <1>2. wallets' + wallet[u] = wallets + wallet'[u]
    BY <1>1, FiniteAssumption, SumUpdate
  <1>3. inMarkets' + n = inMarkets + n'
    <2>1. \A k \in Markets \ {m} : MoneyInMarkets[k] = MoneyInMarkets'[k]
      BY DEF MoneyInMarkets, MoneyIn
    <2>2. SumFunctionOnSet(MoneyInMarkets', Markets) + MoneyInMarkets[m]
            = SumFunctionOnSet(MoneyInMarkets, Markets) + MoneyInMarkets'[m]
      BY <1>1, <2>1, FiniteAssumption, SumUpdate
    <2>3. QED
      BY <2>2 DEF MoneyInMarkets
  <1>4. wallets * Fine + inMarkets = InitialGrant * Fine * Cardinality(granted)
    BY DEF MoneyConserved, MoneyInMarkets
  <1>5. wallets' * Fine + inMarkets' = wallets * Fine + inMarkets
    <2>1. Fine \in Int /\ wallet[u] \in Int /\ wallet'[u] \in Int
      BY <1>1, EngineAssumption
    <2>2. wallet'[u] * Fine + n' = wallet[u] * Fine + n
      OBVIOUS
    <2>3. PICK a, b, i, j, x, y, p, q :
            /\ a = wallets' /\ b = wallets /\ i = inMarkets' /\ j = inMarkets
            /\ x = wallet[u] /\ y = wallet'[u] /\ p = n /\ q = n'
      OBVIOUS
    <2> HIDE DEF wallets, inMarkets, n
    <2>4. /\ a \in Int /\ b \in Int /\ i \in Int /\ j \in Int
          /\ x \in Int /\ y \in Int /\ p \in Int /\ q \in Int
      BY <1>1, <2>1, <2>3
    <2>5. a + x = b + y /\ i + p = j + q /\ y * Fine + q = x * Fine + p
      BY <1>2, <1>3, <2>2, <2>3
    <2>6. a * Fine + i = b * Fine + j
      <3>1. (a + x) * Fine = a * Fine + x * Fine /\ (b + y) * Fine = b * Fine + y * Fine
        <4>1. \A v, z, f \in Int : (v + z) * f = v * f + z * f
          OBVIOUS
        <4>2. QED
          BY <2>1, <2>4, <4>1
      <3>2. /\ a * Fine \in Int /\ b * Fine \in Int
            /\ x * Fine \in Int /\ y * Fine \in Int
        <4>1. \A v, f \in Int : v * f \in Int
          OBVIOUS
        <4>2. QED
          BY <2>1, <2>4, <4>1
      <3>3. QED
        BY <2>1, <2>4, <2>5, <3>1, <3>2
    <2>7. QED
      BY <2>3, <2>6
  <1>6. QED
    BY <1>4, <1>5 DEF MoneyConserved, MoneyInMarkets

LEMMA GrantConserves ==
    ASSUME RowsOK, RowsOK', MoneyConserved, NEW u \in Users, Ledger!Grant(u)
    PROVE  MoneyConserved'
  <1> DEFINE wallets == SumFunctionOnSet(wallet, Users)
             inMarkets == SumFunctionOnSet(MoneyInMarkets, Markets)
             grants == Cardinality(granted)
  <1>1. /\ u \notin granted /\ granted' = granted \cup {u} /\ markets' = markets
        /\ wallet' = [wallet EXCEPT ![u] = wallet[u] + InitialGrant]
    BY DEF Ledger!Grant
  <1>2. /\ wallets \in Int /\ wallets' \in Int /\ inMarkets \in Int
        /\ \A v \in Users : wallet[v] \in Int /\ wallet'[v] \in Int
    BY MoneyType, MoneyTypeNext DEF MoneyIsWhole
  <1>3. wallets' + wallet[u] = wallets + wallet'[u]
    <2>1. \A v \in Users \ {u} : wallet[v] = wallet'[v]
      BY <1>1 DEF RowsOK
    <2>2. QED
      BY <1>2, <2>1, FiniteAssumption, SumUpdate
  <1>4. wallet'[u] = wallet[u] + InitialGrant
    BY <1>1 DEF RowsOK
  <1>5. inMarkets' = inMarkets
    BY <1>1 DEF MoneyInMarkets, MoneyIn
  <1>6. grants \in Nat /\ grants' = grants + 1
    <2>1. IsFiniteSet(granted)
      BY FiniteAssumption, FS_Subset DEF RowsOK
    <2>2. QED
      BY <1>1, <2>1, FS_AddElement, FS_CardinalityType
  <1>7. wallets * Fine + inMarkets = InitialGrant * Fine * grants
    BY DEF MoneyConserved, MoneyInMarkets
  <1>8. wallets' = wallets + InitialGrant
    <2> HIDE DEF wallets
    <2>1. \A a, b, w, g \in Int : a + w = b + (w + g) => a = b + g
      OBVIOUS
    <2>2. QED
      BY <1>2, <1>3, <1>4, <2>1, EngineAssumption
  <1>9. wallets' * Fine + inMarkets' = InitialGrant * Fine * grants'
    <2> HIDE DEF wallets, inMarkets, grants
    <2>1. \A a, g, f, i, n \in Int :
            a * f + i = g * f * n => (a + g) * f + i = g * f * (n + 1)
      <3> SUFFICES ASSUME NEW a \in Int, NEW g \in Int, NEW f \in Int, NEW i \in Int,
                          NEW n \in Int, a * f + i = g * f * n
                   PROVE  (a + g) * f + i = g * f * (n + 1)
        OBVIOUS
      <3>1. (a + g) * f = a * f + g * f
        OBVIOUS
      <3>2. g * f * (n + 1) = g * f * n + g * f
        OBVIOUS
      <3>3. a * f \in Int /\ g * f \in Int /\ g * f * n \in Int
        OBVIOUS
      <3>4. QED
        BY <3>1, <3>2, <3>3
    <2>2. QED
      BY <1>2, <1>5, <1>6, <1>7, <1>8, <2>1, EngineAssumption
  <1>10. QED
    BY <1>9 DEF MoneyConserved, MoneyInMarkets

(* The wallet gives or takes what the market takes or gives, to the fraction. *)
LEMMA TradeIsExact ==
    ASSUME NEW b \in Document, NEW o \in Order, NEW w \in Nat, Allowed(b, o, w),
           NEW d \in Document, d = Traded(b, o, w), NEW n \in Nat, n = WalletAfter(b, o, w)
    PROVE  n * Fine + d.cash + SumFunctionOnSet(d.dust, Users)
             = w * Fine + b.cash + SumFunctionOnSet(b.dust, Users)
  <1>1. PICK u, p : u = o.user /\ p = Proceeds(b, o)
    OBVIOUS
  <1>2. /\ u \in Users /\ b.cash \in Int /\ b.dust \in [Users -> Nat] /\ d.dust \in [Users -> Nat]
        /\ d.cash = b.cash - p
        /\ d.dust = [b.dust EXCEPT ![u] = DustAfter(b, o, w)]
    BY <1>1, OrderType DEF Traded, Document
  <1>3. \A v \in Users : b.dust[v] \in Int /\ d.dust[v] \in Int
    BY <1>2
  <1>4. PICK before, after : /\ before = SumFunctionOnSet(b.dust, Users)
                             /\ after = SumFunctionOnSet(d.dust, Users)
    OBVIOUS
  <1>5. before \in Int /\ after \in Int
    BY <1>3, <1>4, FiniteAssumption, SumIsInteger
  <1>6. after + b.dust[u] = before + d.dust[u]
    <2>1. \A v \in Users \ {u} : b.dust[v] = d.dust[v]
      BY <1>2
    <2>2. SumFunctionOnSet(d.dust, Users) + b.dust[u] = SumFunctionOnSet(b.dust, Users) + d.dust[u]
      BY <1>2, <1>3, <2>1, FiniteAssumption, SumUpdate
    <2>3. QED
      BY <1>4, <2>2
  <1>7. p \in Int
    BY <1>1, FundsType
  <1>8. d.dust[u] = w * Fine + b.dust[u] + p - Fine * n
    <2>1. d.dust[u] = DustAfter(b, o, w)
      BY <1>2
    <2>2. DustAfter(b, o, w) = Funds(b, o, w) - Fine * n
      BY DEF DustAfter
    <2>3. Funds(b, o, w) = w * Fine + b.dust[u] + p
      BY <1>1 DEF Funds, Credit
    <2>4. w * Fine \in Int /\ Fine * n \in Int /\ b.dust[u] \in Int
      BY <1>2, <1>3, EngineAssumption
    <2>5. QED
      BY <1>7, <2>1, <2>2, <2>3, <2>4
  <1>9. w * Fine \in Int /\ n * Fine \in Int /\ Fine * n = n * Fine
    BY EngineAssumption
  <1>10. \A x, y, c, q, e, f, g, h \in Int :
          f + g = e + h /\ h = x + g + q - y => y + (c - q) + f = x + c + e
    OBVIOUS
  <1>11. n * Fine + (b.cash - p) + after = w * Fine + b.cash + before
    BY <1>2, <1>3, <1>5, <1>6, <1>7, <1>8, <1>9, <1>10
  <1>12. QED
    BY <1>2, <1>4, <1>11

LEMMA EffectConserves ==
    ASSUME RowsOK, RowsOK', MoneyConserved, NEW o, o.user \in Users, NEW m \in Markets, NEW d, NEW w,
           Ledger!Effect(o, m, d, w), d # None,
           w * Fine + d.cash + SumFunctionOnSet(d.dust, Users) = wallet[o.user] * Fine + MoneyIn(m)
    PROVE  MoneyConserved'
  <1>1. /\ wallet' = [wallet EXCEPT ![o.user] = w]
        /\ markets' = [markets EXCEPT ![m] = d]
        /\ granted' = granted
    BY DEF Ledger!Effect
  <1>2. /\ wallet'[o.user] = w /\ \A v \in Users \ {o.user} : wallet'[v] = wallet[v]
        /\ markets'[m] = d /\ \A k \in Markets \ {m} : markets'[k] = markets[k]
    BY <1>1 DEF RowsOK
  <1>3. MoneyIn(m)' = d.cash + SumFunctionOnSet(d.dust, Users)
    BY <1>2 DEF MoneyIn
  <1>4. w * Fine + (d.cash + SumFunctionOnSet(d.dust, Users)) = wallet[o.user] * Fine + MoneyIn(m)
    <2>1. d \in Document /\ w \in Nat
      BY <1>2 DEF RowsOK
    <2>2. d.cash \in Int /\ \A v \in Users : d.dust[v] \in Int
      BY <2>1 DEF Document
    <2>3. SumFunctionOnSet(d.dust, Users) \in Int
      BY <2>2, FiniteAssumption, SumIsInteger
    <2>4. w * Fine \in Int
      BY <2>1, EngineAssumption
    <2>5. \A x, y, z \in Int : x + y + z = x + (y + z)
      OBVIOUS
    <2>6. QED
      BY <2>2, <2>3, <2>4, <2>5
  <1>5. QED
    BY <1>1, <1>2, <1>3, <1>4, MoneyMoves

LEMMA LedgerConserves ==
    ASSUME RowsOK, RowsOK', MoneyConserved, [Ledger!Next]_ledger
    PROVE  MoneyConserved'
  <1>1. CASE UNCHANGED <<wallet, granted, markets>>
    BY <1>1 DEF MoneyConserved, MoneyIn
  <1>2. ASSUME NEW u \in Users, Ledger!Grant(u)
        PROVE  MoneyConserved'
    BY <1>2, GrantConserves
  <1>3. ASSUME NEW u \in Users, NEW i \in Ids, Ledger!Create(u, i)
        PROVE  MoneyConserved'
    <2>1. PICK o, d : o = Ledger!OrderOf(u, i, "create", None, 0, 0) /\ d = Ledger!NewDocument(u)
      OBVIOUS
    <2>2. PICK m \in Markets : markets[m] = None /\ Ledger!Effect(o, m, d, wallet[u])
      BY <1>3, <2>1 DEF Ledger!Create
    <2>3. o.user = u
      BY <2>1 DEF Ledger!OrderOf
    <2>4. d.cash = 0 /\ \A v \in Users : d.dust[v] = 0
      BY <2>1 DEF Ledger!NewDocument
    <2>5. d # None
      BY <2>1, NewDocumentType, NoneAssumption DEF NewDocument, Ledger!NewDocument
    <2>6. SumFunctionOnSet(d.dust, Users) = 0
      BY <2>4, FiniteAssumption, SumOfZeros
    <2>7. MoneyIn(m) = 0
      BY <2>2 DEF MoneyIn
    <2>8. wallet[u] * Fine + d.cash + SumFunctionOnSet(d.dust, Users) = wallet[u] * Fine + MoneyIn(m)
      <3>1. wallet[u] * Fine \in Int
        BY EngineAssumption DEF RowsOK
      <3>2. \A x \in Int : x + 0 + 0 = x + 0
        OBVIOUS
      <3>3. QED
        BY <2>4, <2>6, <2>7, <3>1, <3>2
    <2>9. QED
      BY <2>2, <2>3, <2>5, <2>8, EffectConserves
  <1>4. ASSUME NEW u \in Users, NEW i \in Ids, NEW op \in TradeOps, NEW m \in Markets,
               NEW a \in Amounts \cup {0}, Ledger!Trade(u, i, op, m, a)
        PROVE  MoneyConserved'
    <2>1. PICK b \in Document, o \in Order :
            /\ o.user = u /\ o.id \in Ids /\ b \in {markets[m], Closed(markets[m])}
            /\ Allowed(b, o, wallet[u])
            /\ Ledger!Effect(o, m, Traded(b, o, wallet[u]), WalletAfter(b, o, wallet[u]))
            /\ Traded(b, o, wallet[u]) \in Document /\ WalletAfter(b, o, wallet[u]) \in Nat
      BY <1>4, TradeParts
    <2>2. PICK d \in Document, n \in Nat :
            d = Traded(b, o, wallet[u]) /\ n = WalletAfter(b, o, wallet[u])
      BY <2>1
    <2>3. wallet[u] \in Nat /\ markets[m] # None
      BY <1>4 DEF RowsOK, Ledger!Trade
    <2>4. n * Fine + d.cash + SumFunctionOnSet(d.dust, Users)
            = wallet[u] * Fine + b.cash + SumFunctionOnSet(b.dust, Users)
      BY <2>1, <2>2, <2>3, TradeIsExact
    <2>5. MoneyIn(m) = b.cash + SumFunctionOnSet(b.dust, Users)
      BY <2>1, <2>3 DEF MoneyIn, Closed
    <2>6. wallet[u] * Fine + b.cash + SumFunctionOnSet(b.dust, Users) = wallet[u] * Fine + MoneyIn(m)
      <3>1. b.cash \in Int /\ \A v \in Users : b.dust[v] \in Int
        BY <2>1 DEF Document
      <3>2. SumFunctionOnSet(b.dust, Users) \in Int
        BY <3>1, FiniteAssumption, SumIsInteger
      <3>3. wallet[u] * Fine \in Int
        BY <2>3, EngineAssumption
      <3>4. \A x, y, z \in Int : x + y + z = x + (y + z)
        OBVIOUS
      <3>5. QED
        BY <2>5, <3>1, <3>2, <3>3, <3>4
    <2>7. d # None
      BY <2>1, <2>2, NoneAssumption
    <2>8. QED
      BY <2>1, <2>2, <2>4, <2>6, <2>7, EffectConserves
  <1>5. ASSUME NEW m \in Markets, Ledger!DeadlinePasses(m)
        PROVE  MoneyConserved'
    BY <1>1, <1>5 DEF Ledger!DeadlinePasses
  <1>6. QED
    BY <1>1, <1>2, <1>3, <1>4, <1>5 DEF Ledger!Next, TradeOps, Ledger!TradeOps, ledger

(* Wallets, market cash and kept fractions add up to the initial grants in     *)
(* every state, whatever was retried, rolled back or interleaved, and however  *)
(* the conversions between micro dollars and floats round (engine.ts).         *)
THEOREM MoneyAlwaysConserved == Spec => []MoneyConserved
  <1>1. Init => IInv /\ MoneyConserved
    <2> SUFFICES ASSUME Init PROVE MoneyConserved
      BY InitIInv
    <2>1. /\ \A u \in Users : wallet[u] = 0
          /\ \A m \in Markets : MoneyInMarkets[m] = 0
          /\ granted = {}
      BY DEF Init, Ledger!Init, MoneyInMarkets, MoneyIn
    <2>2. SumFunctionOnSet(wallet, Users) = 0 /\ SumFunctionOnSet(MoneyInMarkets, Markets) = 0
      BY <2>1, FiniteAssumption, SumOfZeros
    <2>3. Cardinality(granted) = 0
      BY <2>1, FS_EmptySet
    <2>4. 0 * Fine + 0 = InitialGrant * Fine * 0
      <3>1. \A x, y \in Int : 0 * x + 0 = y * x * 0
        OBVIOUS
      <3>2. QED
        BY <3>1, EngineAssumption
    <2>5. QED
      BY <2>2, <2>3, <2>4 DEF MoneyConserved, MoneyInMarkets
  <1>2. IInv /\ MoneyConserved /\ [Next]_vars => (IInv /\ MoneyConserved)'
    BY NextIInv, NextRefines, LedgerConserves DEF IInv, TypeOK
  <1>3. QED
    BY <1>1, <1>2, PTL DEF Spec
-----------------------------------------------------------------------------
(* Answers and quotas.  They rest on the wallet lock under which an order is   *)
(* looked up and a quota is counted: until the attempt has ended, nobody else   *)
(* adds a row of that user.                                                   *)

StillNew(s) == pc[s] \in {"market", "execute", "commit"} => Previous(order[s]) = None
StillInQuota(s) == pc[s] = "insert" => QuotaLeft(order[s].user)

(* The tab that waits for an attempt waits for the order the attempt has. *)
TabsTied ==
    \A t \in Tabs :
        /\ tab[t].state = "waiting" <=> tab[t].slot # None
        /\ tab[t].slot # None => pc[tab[t].slot] # "free"
                                 /\ order[tab[t].slot] = tab[t].order

(* The row an order leaves, and the answer it holds. *)
Row(o) == IF o.op = "share" THEN snapshots[o.user][o.id] ELSE Previous(o)
Answered(o, answer) ==
    /\ Row(o) # None /\ Row(o).order = o
    /\ answer = IF o.op = "share" THEN Row(o).view ELSE Row(o).response

(* The kinds of steps, as far as rows, attempts and tabs go. *)
Moves(s) ==
    /\ pc[s] # "free" /\ pc'[s] # "free"
    /\ \A r \in Slots \ {s} : pc'[r] = pc[r]
    /\ UNCHANGED <<order, requests, snapshots, tab>>
    /\ pc'[s] \in {"market", "execute", "commit"} =>
         pc[s] \in {"market", "execute"} \/ Previous(order[s]) = None
    /\ pc'[s] = "insert" => QuotaLeft(order[s].user)
    /\ pc'[s] \in {"market", "execute", "commit", "insert"} => HoldsWallet(s)

Records(s, o) ==
    /\ HoldsWallet(s) /\ requests[o.user][o.id] = None
    /\ \E row \in RequestRow : requests' = [requests EXCEPT ![o.user][o.id] = row]
    /\ UNCHANGED snapshots
Inserts(s, o) ==
    /\ pc[s] = "insert" /\ snapshots[o.user][o.id] = None
    /\ \E row \in SnapshotRow : snapshots' = [snapshots EXCEPT ![o.user][o.id] = row]
    /\ UNCHANGED requests

Ends(s, state, answer) ==
    /\ pc[s] # "free" /\ state \in {"done", "refused", "failed"} /\ End(s, state, answer)
    /\ UNCHANGED <<requests, snapshots>> \/ Records(s, order[s]) \/ Inserts(s, order[s])
    /\ state = "done" => \A o : o = order[s] => Answered(o, answer)'
    /\ state = "refused" => ~ Stored(order[s])

(* Time passes: snapshots grow old. *)
Ages ==
    /\ UNCHANGED <<requests, pc, order, tab>>
    /\ \A u \in Users, i \in Ids :
         \/ snapshots'[u][i] = snapshots[u][i]
         \/ /\ snapshots[u][i] # None /\ snapshots'[u][i] # None
            /\ snapshots'[u][i].order = snapshots[u][i].order
            /\ snapshots'[u][i].view = snapshots[u][i].view
            /\ ~ snapshots'[u][i].recent

Kinds ==
    \/ \E s \in Slots : Moves(s)
    \/ \E s \in Slots : \E state, answer : Ends(s, state, answer)
    \/ \E t \in Tabs, s \in Slots : \E o, n : Send(t, s, o, n)
    \/ \E t \in Tabs : Gone(t)
    \/ Ages

LEMMA FailEnds ==
    ASSUME NEW s \in Slots, pc[s] # "free", End(s, "failed", None),
           UNCHANGED <<requests, snapshots>> \/ Records(s, order[s]) \/ Inserts(s, order[s])
    PROVE  Kinds
  <1>1. Ends(s, "failed", None)
    BY DEF Ends
  <1>2. QED
    BY <1>1 DEF Kinds

LEMMA RefuseEnds ==
    ASSUME NEW s \in Slots, pc[s] # "free", Refuse(s), ~ Stored(order[s])
    PROVE  Kinds
  <1>1. Ends(s, "refused", None)
    BY DEF Ends, Refuse, rows
  <1>2. QED
    BY <1>1 DEF Kinds

LEMMA CommitEnds ==
    ASSUME NEW s \in Slots, pc[s] # "free", NEW answer, EndCommitted(s, answer),
           UNCHANGED <<requests, snapshots>> \/ Records(s, order[s]) \/ Inserts(s, order[s]),
           NEW o, o = order[s], Answered(o, answer)'
    PROVE  Kinds
  <1>1. CASE End(s, "done", answer)
    <2>1. Ends(s, "done", answer)
      BY <1>1 DEF Ends
    <2>2. QED
      BY <2>1 DEF Kinds
  <1>2. CASE End(s, "failed", None)
    BY <1>2, FailEnds
  <1>3. QED
    BY <1>1, <1>2 DEF EndCommitted

(* Replays answer from the row they found, or refuse another body. *)
LEMMA ReplayKind ==
    ASSUME IInv, NEW s \in Slots, Replay(s) \/ ReplayShare(s)
    PROVE  Kinds
  <1>1. PICK o, row : o = order[s] /\ row = Row(o)
    OBVIOUS
  <1>2. /\ pc[s] # "free" /\ row # None
        /\ \/ row.order # o /\ Refuse(s)
           \/ /\ row.order = o /\ UNCHANGED rows
              /\ EndCommitted(s, IF o.op = "share" THEN row.view ELSE row.response)
    BY <1>1 DEF Replay, ReplayShare, Row
  <1>3. CASE row.order # o
    <2>1. ~ Stored(order[s])
      BY <1>1, <1>3 DEF Stored, Row
    <2>2. QED
      BY <1>2, <1>3, <2>1, RefuseEnds
  <1>4. CASE row.order = o
    <2>1. UNCHANGED <<requests, snapshots>>
      BY <1>2, <1>4 DEF rows
    <2>2. Answered(o, IF o.op = "share" THEN row.view ELSE row.response)'
      BY <1>1, <1>2, <1>4, <2>1 DEF Answered, Row, Previous
    <2>3. QED
      BY <1>1, <1>2, <1>4, <2>1, <2>2, CommitEnds
  <1>5. QED
    BY <1>3, <1>4

LEMMA CommitKind ==
    ASSUME IInv, NEW s \in Slots, Commit(s)
    PROVE  Kinds
  <1> DEFINE o == order[s]
             n == update[s]
             answer == Response(n.market, n.document, n.wallet)
             row == Request(o, n.market, n.document, n.wallet)
  <1>1. /\ pc[s] = "commit" /\ requests[o.user][o.id] = None
        /\ requests' = [requests EXCEPT ![o.user][o.id] = row]
        /\ EndCommitted(s, answer)
        /\ UNCHANGED snapshots
    BY DEF Commit, Previous
  <1>2. /\ o \in Order /\ o.user \in Users /\ o.id \in Ids /\ o.op # "share"
    BY <1>1, Known DEF IInv, Attempt
  <1>3. row \in RequestRow /\ row # None /\ row.order = o /\ row.response = answer
    <2>1. answer \in Responses
      BY <1>1, UpdateType, ResponseType
    <2>2. row \in RequestRow
      BY <1>2, <2>1 DEF Request, RequestRow
    <2>3. QED
      BY <2>2, NoneAssumption DEF Request
  <1> HIDE DEF row, answer, n
  <1>4. Records(s, o)
    BY <1>1, <1>3 DEF Records, HoldsWallet
  <1>5. requests'[o.user][o.id] = row
    BY <1>1, <1>2 DEF IInv, TypeOK, RowsOK
  <1>6. PICK k, a : k = o /\ a = answer
    OBVIOUS
  <1>7. Answered(k, a)'
    BY <1>2, <1>3, <1>5, <1>6 DEF Answered, Row, Previous
  <1>8. QED
    BY <1>1, <1>4, <1>6, <1>7, CommitEnds

LEMMA InsertKind ==
    ASSUME IInv, NEW s \in Slots, InsertShare(s)
    PROVE  Kinds
  <1> DEFINE o == order[s]
             row == [order |-> o, view |-> update[s], recent |-> TRUE]
  <1>1. /\ pc[s] = "insert" /\ snapshots[o.user][o.id] = None
        /\ snapshots' = [snapshots EXCEPT ![o.user][o.id] = row]
        /\ EndCommitted(s, update[s])
        /\ UNCHANGED requests
    BY DEF InsertShare, ledger
  <1>2. o \in Order /\ o.user \in Users /\ o.id \in Ids /\ o.op = "share" /\ update[s] \in Responses
    BY <1>1, Known DEF IInv, Attempt
  <1>3. row \in SnapshotRow /\ row # None /\ row.order = o /\ row.view = update[s]
    <2>1. row \in SnapshotRow /\ row.order = o /\ row.view = update[s]
      BY <1>2 DEF SnapshotRow
    <2> HIDE DEF row
    <2>2. QED
      BY <2>1, SnapshotAssumption
  <1> HIDE DEF row
  <1>4. Inserts(s, o)
    BY <1>1, <1>3 DEF Inserts
  <1>5. snapshots'[o.user][o.id] = row
    BY <1>1, <1>2 DEF IInv, TypeOK, RowsOK
  <1>6. PICK k, a : k = o /\ a = update[s]
    OBVIOUS
  <1>7. Answered(k, a)'
    BY <1>2, <1>3, <1>5, <1>6 DEF Answered, Row
  <1>8. QED
    BY <1>1, <1>4, <1>6, <1>7, CommitEnds

LEMMA MovesKind ==
    ASSUME IInv, NEW s \in Slots,
           \/ LoggedIn(s) \/ Lookup(s) \/ ExecuteCreate(s)
           \/ Login(s) \/ Upsert(s) \/ Open(s) \/ LockWallet(s) \/ LockMarket(s)
    PROVE  Kinds
  <1>1. PICK to :
          /\ pc[s] # "free" /\ to # "free" /\ pc' = [pc EXCEPT ![s] = to]
          /\ UNCHANGED <<order, requests, snapshots, tab>>
          /\ to # "insert"
          /\ to \in {"market", "execute", "commit"} =>
               /\ pc[s] \in {"market", "execute"} \/ Previous(order[s]) = None
               /\ pc[s] \in {"lookup", "market", "execute"}
    BY DEF LoggedIn, Lookup, ExecuteCreate, Login, Upsert, Open, LockWallet, LockMarket, Step, rows
  <1>2. pc'[s] = to /\ \A r \in Slots \ {s} : pc'[r] = pc[r]
    BY <1>1 DEF IInv, TypeOK, AttemptsOK
  <1>3. Moves(s)
    BY <1>1, <1>2 DEF Moves, HoldsWallet
  <1>4. QED
    BY <1>3 DEF Kinds

LEMMA DecisionKind ==
    ASSUME IInv, NEW s \in Slots, StillNew(s), Execute(s) \/ Share(s)
    PROVE  Kinds
  <1>1. CASE Refuse(s)
    <2>1. pc[s] # "free" /\ ~ Stored(order[s])
      BY DEF Execute, Share, StillNew, Stored, TradeOps
    <2>2. QED
      BY <1>1, <2>1, RefuseEnds
  <1>2. CASE ~ Refuse(s)
    <2>1. PICK to \in {"commit", "insert"} :
            /\ pc[s] # "free" /\ pc' = [pc EXCEPT ![s] = to]
            /\ UNCHANGED <<order, requests, snapshots, tab>>
            /\ to = "insert" => QuotaLeft(order[s].user)
            /\ to = "commit" => pc[s] = "execute"
            /\ pc[s] \in {"execute", "lookup"}
      BY <1>2 DEF Execute, Share, Step, rows
    <2>2. pc'[s] = to /\ \A r \in Slots \ {s} : pc'[r] = pc[r]
      BY <2>1 DEF IInv, TypeOK, AttemptsOK
    <2>3. Moves(s)
      BY <2>1, <2>2 DEF Moves, HoldsWallet
    <2>4. QED
      BY <2>3 DEF Kinds
  <1>3. QED
    BY <1>1, <1>2

LEMMA MinuteKind ==
    ASSUME IInv, NEW u \in Users, NEW i \in Ids, MinutePasses(u, i)
    PROVE  Ages
  <1>1. /\ snapshots[u][i] # None
        /\ snapshots' = [snapshots EXCEPT ![u][i].recent = FALSE]
        /\ UNCHANGED <<requests, pc, order, tab>>
    BY DEF MinutePasses, RecentSnapshots, Snapshots, ledger
  <1>2. PICK row : row = [snapshots[u][i] EXCEPT !.recent = FALSE]
    OBVIOUS
  <1>3. /\ row \in SnapshotRow /\ row.order = snapshots[u][i].order
        /\ row.view = snapshots[u][i].view /\ ~ row.recent
    <2>1. snapshots[u][i] \in SnapshotRow
      BY <1>1 DEF IInv, TypeOK, RowsOK
    <2>2. QED
      BY <1>2, <2>1 DEF SnapshotRow
  <1>4. row # None
    BY <1>3, SnapshotAssumption
  <1>5. snapshots' = [snapshots EXCEPT ![u][i] = row]
    BY <1>1, <1>2 DEF IInv, TypeOK, RowsOK
  <1>6. \A v \in Users, j \in Ids :
          snapshots'[v][j] = IF v = u /\ j = i THEN row ELSE snapshots[v][j]
    BY <1>5 DEF IInv, TypeOK, RowsOK
  <1>7. ASSUME NEW v \in Users, NEW j \in Ids
        PROVE  \/ snapshots'[v][j] = snapshots[v][j]
               \/ /\ snapshots[v][j] # None /\ snapshots'[v][j] # None
                  /\ snapshots'[v][j].order = snapshots[v][j].order
                  /\ snapshots'[v][j].view = snapshots[v][j].view
                  /\ ~ snapshots'[v][j].recent
    <2>1. CASE v = u /\ j = i
      <3>1. snapshots'[v][j] = row
        BY <1>6, <2>1
      <3>2. QED
        BY <1>1, <1>3, <1>4, <2>1, <3>1
    <2>2. CASE ~ (v = u /\ j = i)
      BY <1>6, <2>2
    <2>3. QED
      BY <2>1, <2>2
  <1>8. QED
    BY <1>1, <1>7 DEF Ages

LEMMA StepKinds ==
    ASSUME IInv, \A s \in Slots : StillNew(s), [Next]_vars
    PROVE  Kinds
  <1>1. ASSUME NEW s \in Slots, Work(s)
        PROVE  Kinds
    BY <1>1, ReplayKind, CommitKind, MovesKind, DecisionKind DEF Work
  <1>2. ASSUME NEW s \in Slots, Await(s)
        PROVE  Kinds
    BY <1>2, MovesKind, InsertKind DEF Await
  <1>3. ASSUME NEW s \in Slots, LoginUnheard(s) \/ Fail(s)
        PROVE  Kinds
    BY <1>3, FailEnds DEF LoginUnheard, Fail, rows
  <1>4. ASSUME NEW t \in Tabs, NewOrder(t) \/ Retry(t) \/ Gone(t)
        PROVE  Kinds
    BY <1>4 DEF NewOrder, Retry, Kinds
  <1>5. ASSUME NEW m \in Markets, DeadlinePasses(m)
        PROVE  Kinds
    BY <1>5 DEF DeadlinePasses, Ledger!DeadlinePasses, Kinds, Ages
  <1>6. ASSUME NEW u \in Users, NEW i \in Ids, MinutePasses(u, i)
        PROVE  Kinds
    BY <1>6, MinuteKind DEF Kinds
  <1>7. CASE UNCHANGED vars
    BY <1>7 DEF vars, rows, Kinds, Ages
  <1>8. QED
    BY <1>1, <1>2, <1>3, <1>4, <1>5, <1>6, <1>7 DEF Next
-----------------------------------------------------------------------------
(* Rows stay. *)
RowsStay ==
    \A u \in Users, i \in Ids :
        /\ requests[u][i] # None => requests'[u][i] = requests[u][i]
        /\ snapshots[u][i] # None => /\ snapshots'[u][i] # None
                                    /\ snapshots'[u][i].order = snapshots[u][i].order
                                    /\ snapshots'[u][i].view = snapshots[u][i].view

(* A row of a user is added only by the attempt that has his wallet. *)
LEMMA KindsOfRows ==
    ASSUME IInv, Kinds
    PROVE  /\ RowsStay
           /\ \/ requests' = requests
              \/ \E s \in Slots : /\ HoldsWallet(s) /\ pc'[s] = "free" /\ snapshots' = snapshots
                                 /\ \A u \in Users : u # order[s].user => requests'[u] = requests[u]
  <1>1. CASE UNCHANGED <<requests, snapshots>>
    BY <1>1 DEF RowsStay
  <1>2. CASE Ages
    BY <1>2 DEF RowsStay, Ages
  <1>3. ASSUME NEW s \in Slots, NEW state, NEW answer, End(s, state, answer), pc[s] # "free",
               Records(s, order[s])
        PROVE  /\ RowsStay
               /\ HoldsWallet(s) /\ pc'[s] = "free" /\ snapshots' = snapshots
               /\ \A u \in Users : u # order[s].user => requests'[u] = requests[u]
    <2>1. PICK o, row : o = order[s] /\ requests' = [requests EXCEPT ![o.user][o.id] = row]
      BY <1>3 DEF Records
    <2>2. /\ HoldsWallet(s) /\ requests[o.user][o.id] = None /\ UNCHANGED snapshots
      BY <1>3, <2>1 DEF Records
    <2>3. \A u \in Users, i \in Ids : ~ (u = o.user /\ i = o.id) => requests'[u][i] = requests[u][i]
      BY <2>1 DEF IInv, TypeOK, RowsOK
    <2>4. \A u \in Users : u # o.user => requests'[u] = requests[u]
      BY <2>1 DEF IInv, TypeOK, RowsOK
    <2>5. pc'[s] = "free"
      BY <1>3, EndAlone DEF IInv, TypeOK
    <2>6. RowsStay
      BY <2>2, <2>3 DEF RowsStay
    <2>7. QED
      BY <2>1, <2>2, <2>4, <2>5, <2>6
  <1>4. ASSUME NEW s \in Slots, Inserts(s, order[s])
        PROVE  RowsStay /\ requests' = requests
    <2>1. PICK o, row : o = order[s] /\ snapshots' = [snapshots EXCEPT ![o.user][o.id] = row]
      BY <1>4 DEF Inserts
    <2>2. snapshots[o.user][o.id] = None /\ UNCHANGED requests
      BY <1>4, <2>1 DEF Inserts
    <2>3. \A u \in Users, i \in Ids : ~ (u = o.user /\ i = o.id) => snapshots'[u][i] = snapshots[u][i]
      BY <2>1 DEF IInv, TypeOK, RowsOK
    <2>4. QED
      BY <2>2, <2>3 DEF RowsStay
  <1>5. CASE \E s \in Slots : \E state, answer : Ends(s, state, answer)
    BY <1>1, <1>3, <1>4, <1>5 DEF Ends
  <1>6. CASE \E s \in Slots : Moves(s)
    BY <1>1, <1>6 DEF Moves
  <1>7. CASE \/ \E t \in Tabs, s \in Slots : \E o, n : Send(t, s, o, n)
             \/ \E t \in Tabs : Gone(t)
    BY <1>1, <1>7 DEF Send, Gone, rows
  <1>8. QED
    BY <1>2, <1>5, <1>6, <1>7 DEF Kinds, Ages
-----------------------------------------------------------------------------
(* What one attempt sees of a step. *)
LEMMA KindsOfAttempts ==
    ASSUME IInv, Kinds, NEW s \in Slots
    PROVE  \/ Moves(s)
           \/ pc'[s] = pc[s] /\ order'[s] = order[s]
           \/ pc'[s] \in {"free", "login"}
  <1>1. ASSUME NEW r \in Slots, Moves(r)
        PROVE  Moves(s) \/ (pc'[s] = pc[s] /\ order'[s] = order[s])
    BY <1>1 DEF Moves
  <1>2. ASSUME NEW r \in Slots, NEW state, NEW answer, Ends(r, state, answer)
        PROVE  pc'[s] = "free" \/ (pc'[s] = pc[s] /\ order'[s] = order[s])
    <2>1. pc'[r] = "free" /\ Alone(r)
      BY <1>2, EndAlone DEF Ends, IInv, TypeOK
    <2>2. QED
      BY <2>1 DEF Alone
  <1>3. ASSUME NEW t \in Tabs, NEW r \in Slots, NEW o, NEW n, Send(t, r, o, n)
        PROVE  pc'[s] = "login" \/ (pc'[s] = pc[s] /\ order'[s] = order[s])
    <2>1. pc' = [pc EXCEPT ![r] = "login"] /\ order' = [order EXCEPT ![r] = o]
      BY <1>3 DEF Send
    <2>2. DOMAIN pc = Slots /\ DOMAIN order = Slots
      BY DEF IInv, TypeOK, AttemptsOK
    <2>3. CASE r = s
      BY <2>1, <2>2, <2>3
    <2>4. CASE r # s
      BY <2>1, <2>2, <2>4
    <2>5. QED
      BY <2>3, <2>4
  <1>4. CASE (\E t \in Tabs : Gone(t)) \/ Ages
    BY <1>4 DEF Gone, Ages
  <1>5. QED
    BY <1>1, <1>2, <1>3, <1>4 DEF Kinds

(* An order that was new when it was looked up is new when it commits. *)
LEMMA NewStays ==
    ASSUME IInv, \A r \in Slots : StillNew(r), Kinds, NEW s \in Slots
    PROVE  StillNew(s)'
  <1> SUFFICES ASSUME pc'[s] \in {"market", "execute", "commit"}
               PROVE  requests'[order'[s].user][order'[s].id] = None
    BY DEF StillNew, Previous
  <1>1. Previous(order[s]) = None /\ order'[s] = order[s] /\ HoldsWallet(s) /\ pc[s] # "free"
    <2>1. CASE Moves(s)
      <3>1. Previous(order[s]) = None /\ order'[s] = order[s]
        BY <2>1 DEF Moves, StillNew
      <3>2. HoldsWallet(s)
        BY <2>1 DEF Moves
      <3>3. QED
        BY <2>1, <3>1, <3>2 DEF Moves
    <2>2. CASE pc'[s] = pc[s] /\ order'[s] = order[s]
      BY <2>2 DEF StillNew, HoldsWallet
    <2>3. QED
      BY <2>1, <2>2, KindsOfAttempts
  <1>2. order[s].user \in Users
    BY <1>1, Known
  <1>3. requests'[order[s].user] = requests[order[s].user]
    <2>1. ASSUME NEW r \in Slots, HoldsWallet(r), pc'[r] = "free",
                 \A u \in Users : u # order[r].user => requests'[u] = requests[u]
          PROVE  requests'[order[s].user] = requests[order[s].user]
      <3>1. r # s
        BY <2>1
      <3>2. order[s].user # order[r].user
        BY <1>1, <2>1, <3>1, WalletIsAlone
      <3>3. QED
        BY <1>2, <2>1, <3>2
    <2>2. QED
      BY <2>1, KindsOfRows
  <1>4. QED
    BY <1>1, <1>3 DEF Previous
-----------------------------------------------------------------------------
(* Quotas. *)
Finite(u) == IsFiniteSet(Snapshots(u))

LEMMA FewerIsInQuota ==
    ASSUME NEW u, Finite(u), Snapshots(u)' \subseteq Snapshots(u),
           RecentSnapshots(u)' \subseteq RecentSnapshots(u)
    PROVE  /\ Finite(u)'
           /\ Cardinality(Snapshots(u)') <= Cardinality(Snapshots(u))
           /\ Cardinality(RecentSnapshots(u)') <= Cardinality(RecentSnapshots(u))
  <1>1. RecentSnapshots(u) \subseteq Snapshots(u)
    BY DEF RecentSnapshots
  <1>2. QED
    BY <1>1, FS_Subset DEF Finite

(* Who has fewer snapshots, or as many, than before: all users but the one an   *)
(* insert adds to.                                                            *)
LEMMA KindsOfSnapshots ==
    ASSUME IInv, Kinds
    PROVE  \/ \A u \in Users : /\ Snapshots(u)' \subseteq Snapshots(u)
                               /\ RecentSnapshots(u)' \subseteq RecentSnapshots(u)
           \/ \E s \in Slots, i \in Ids :
                /\ pc[s] = "insert" /\ pc'[s] = "free"
                /\ \A u \in Users :
                     /\ Snapshots(u)' \subseteq Snapshots(u) \cup {i}
                     /\ RecentSnapshots(u)' \subseteq RecentSnapshots(u) \cup {i}
                /\ \A u \in Users \ {order[s].user} :
                     /\ Snapshots(u)' \subseteq Snapshots(u)
                     /\ RecentSnapshots(u)' \subseteq RecentSnapshots(u)
  <1>1. CASE UNCHANGED snapshots
    BY <1>1 DEF Snapshots, RecentSnapshots
  <1>2. CASE Ages
    BY <1>2 DEF Ages, Snapshots, RecentSnapshots
  <1>3. ASSUME NEW s \in Slots, NEW state, NEW answer, End(s, state, answer),
               Inserts(s, order[s])
        PROVE  \E i \in Ids :
                /\ pc[s] = "insert" /\ pc'[s] = "free"
                /\ \A u \in Users :
                     /\ Snapshots(u)' \subseteq Snapshots(u) \cup {i}
                     /\ RecentSnapshots(u)' \subseteq RecentSnapshots(u) \cup {i}
                /\ \A u \in Users \ {order[s].user} :
                     /\ Snapshots(u)' \subseteq Snapshots(u)
                     /\ RecentSnapshots(u)' \subseteq RecentSnapshots(u)
    <2>1. PICK o, row : o = order[s] /\ snapshots' = [snapshots EXCEPT ![o.user][o.id] = row]
      BY <1>3 DEF Inserts
    <2>2. pc[s] = "insert" /\ pc'[s] = "free"
      BY <1>3, EndAlone DEF Inserts, IInv, TypeOK
    <2>3. o.id \in Ids
      BY <2>1, <2>2, Known
    <2>4. \A u \in Users, i \in Ids : ~ (u = o.user /\ i = o.id) => snapshots'[u][i] = snapshots[u][i]
      BY <2>1 DEF IInv, TypeOK, RowsOK
    <2>5. \A u \in Users :
            /\ Snapshots(u)' \subseteq Snapshots(u) \cup {o.id}
            /\ RecentSnapshots(u)' \subseteq RecentSnapshots(u) \cup {o.id}
      BY <2>4 DEF Snapshots, RecentSnapshots
    <2>6. \A u \in Users \ {o.user} :
            /\ Snapshots(u)' \subseteq Snapshots(u)
            /\ RecentSnapshots(u)' \subseteq RecentSnapshots(u)
      BY <2>4 DEF Snapshots, RecentSnapshots
    <2>7. QED
      BY <2>1, <2>2, <2>3, <2>5, <2>6
  <1>4. CASE \E s \in Slots : \E state, answer : Ends(s, state, answer)
    BY <1>1, <1>3, <1>4 DEF Ends, Records
  <1>5. QED
    BY <1>1, <1>2, <1>4 DEF Kinds, Moves, Send, Gone, rows

QuotaInv ==
    /\ \A u \in Users : Finite(u)
    /\ SnapshotQuota
    /\ \A s \in Slots : StillInQuota(s)

LEMMA QuotaStays ==
    ASSUME IInv, IInv', QuotaInv, Kinds
    PROVE  QuotaInv'
  <1> DEFINE Fewer(u) == /\ Snapshots(u)' \subseteq Snapshots(u)
                         /\ RecentSnapshots(u)' \subseteq RecentSnapshots(u)
  <1>1. ASSUME NEW u \in Users, Fewer(u)
        PROVE  /\ Finite(u)'
               /\ QuotaLeft(u) => QuotaLeft(u)'
               /\ Cardinality(RecentSnapshots(u)') <= RecentLimit
               /\ Cardinality(Snapshots(u)') <= TotalLimit
    <2>1. Finite(u) /\ IsFiniteSet(RecentSnapshots(u))
      BY FS_Subset DEF QuotaInv, Finite, RecentSnapshots
    <2>2. /\ Finite(u)' /\ IsFiniteSet(RecentSnapshots(u)')
          /\ Cardinality(Snapshots(u)') <= Cardinality(Snapshots(u))
          /\ Cardinality(RecentSnapshots(u)') <= Cardinality(RecentSnapshots(u))
      BY <1>1, <2>1, FS_Subset DEF Finite
    <2>3. /\ Cardinality(Snapshots(u)) \in Nat /\ Cardinality(Snapshots(u)') \in Nat
          /\ Cardinality(RecentSnapshots(u)) \in Nat /\ Cardinality(RecentSnapshots(u)') \in Nat
      BY <2>1, <2>2, FS_CardinalityType DEF Finite
    <2>4. /\ Cardinality(RecentSnapshots(u)) <= RecentLimit
          /\ Cardinality(Snapshots(u)) <= TotalLimit
      BY DEF QuotaInv, SnapshotQuota
    <2>5. QED
      BY <2>2, <2>3, <2>4, LimitAssumption DEF QuotaLeft
  <1>2. ASSUME NEW u \in Users, QuotaLeft(u), NEW i \in Ids,
               Snapshots(u)' \subseteq Snapshots(u) \cup {i},
               RecentSnapshots(u)' \subseteq RecentSnapshots(u) \cup {i}
        PROVE  /\ Finite(u)'
               /\ Cardinality(RecentSnapshots(u)') <= RecentLimit
               /\ Cardinality(Snapshots(u)') <= TotalLimit
    <2>1. Finite(u) /\ IsFiniteSet(RecentSnapshots(u))
      BY FS_Subset DEF QuotaInv, Finite, RecentSnapshots
    <2>2. \A S : IsFiniteSet(S) => /\ IsFiniteSet(S \cup {i}) /\ Cardinality(S) \in Nat
                                  /\ Cardinality(S \cup {i}) \in Nat
                                  /\ Cardinality(S \cup {i}) <= Cardinality(S) + 1
      <3> SUFFICES ASSUME NEW S, IsFiniteSet(S)
                   PROVE  /\ IsFiniteSet(S \cup {i}) /\ Cardinality(S) \in Nat
                          /\ Cardinality(S \cup {i}) \in Nat
                          /\ Cardinality(S \cup {i}) <= Cardinality(S) + 1
        OBVIOUS
      <3>1. /\ IsFiniteSet(S \cup {i}) /\ Cardinality(S) \in Nat
            /\ Cardinality(S \cup {i}) \in {Cardinality(S), Cardinality(S) + 1}
        BY FS_AddElement, FS_CardinalityType
      <3>2. QED
        BY <3>1
    <2>3. \A S, T : IsFiniteSet(S) /\ T \subseteq S \cup {i} =>
                      /\ IsFiniteSet(T) /\ Cardinality(T) \in Nat
                      /\ Cardinality(T) <= Cardinality(S) + 1
      <3> SUFFICES ASSUME NEW S, NEW T, IsFiniteSet(S), T \subseteq S \cup {i}
                   PROVE  /\ IsFiniteSet(T) /\ Cardinality(T) \in Nat
                          /\ Cardinality(T) <= Cardinality(S) + 1
        OBVIOUS
      <3>1. IsFiniteSet(T) /\ Cardinality(T) <= Cardinality(S \cup {i})
        BY <2>2, FS_Subset
      <3>2. Cardinality(T) \in Nat
        BY <3>1, FS_CardinalityType
      <3>3. QED
        BY <2>2, <3>1, <3>2
    <2>4. /\ IsFiniteSet(Snapshots(u)')
          /\ Cardinality(Snapshots(u)') <= Cardinality(Snapshots(u)) + 1
          /\ Cardinality(RecentSnapshots(u)') <= Cardinality(RecentSnapshots(u)) + 1
          /\ Cardinality(Snapshots(u)') \in Nat /\ Cardinality(RecentSnapshots(u)') \in Nat
      BY <1>2, <2>1, <2>3 DEF Finite
    <2>5. /\ Cardinality(Snapshots(u)) \in Nat /\ Cardinality(RecentSnapshots(u)) \in Nat
      BY <2>1, FS_CardinalityType DEF Finite
    <2>6. QED
      BY <1>2, <2>4, <2>5, LimitAssumption DEF QuotaLeft, Finite
  <1>3. ASSUME NEW s \in Slots, pc'[s] = "insert"
        PROVE  QuotaLeft(order[s].user) /\ order'[s] = order[s] /\ HoldsWallet(s)'
               /\ order[s].user \in Users
    <2>1. QuotaLeft(order[s].user) /\ order'[s] = order[s] /\ pc[s] # "free"
      <3>1. CASE Moves(s)
        BY <1>3, <3>1 DEF Moves
      <3>2. CASE pc'[s] = pc[s] /\ order'[s] = order[s]
        BY <1>3, <3>2 DEF QuotaInv, StillInQuota
      <3>3. QED
        BY <1>3, <3>1, <3>2, KindsOfAttempts
    <2>2. QED
      BY <1>3, <2>1, Known DEF HoldsWallet
  <1>4. CASE \A u \in Users : Fewer(u)
    <2>1. \A s \in Slots : StillInQuota(s)'
      <3> SUFFICES ASSUME NEW s \in Slots, pc'[s] = "insert"
                   PROVE  QuotaLeft(order[s].user)'
        BY DEF StillInQuota
      <3>1. PICK u \in Users : u = order[s].user /\ u = order'[s].user
        BY <1>3
      <3>2. QuotaLeft(u)'
        BY <1>1, <1>3, <1>4, <3>1
      <3>3. QED
        BY <3>1, <3>2
    <2>2. SnapshotQuota' /\ \A u \in Users : Finite(u)'
      BY <1>1, <1>4 DEF SnapshotQuota
    <2>3. QED
      BY <2>1, <2>2 DEF QuotaInv
  <1>5. ASSUME NEW r \in Slots, NEW i \in Ids, pc[r] = "insert", pc'[r] = "free",
               \A u \in Users : /\ Snapshots(u)' \subseteq Snapshots(u) \cup {i}
                                /\ RecentSnapshots(u)' \subseteq RecentSnapshots(u) \cup {i},
               \A u \in Users \ {order[r].user} : Fewer(u)
        PROVE  QuotaInv'
    <2>1. QuotaLeft(order[r].user)
      BY <1>5 DEF QuotaInv, StillInQuota
    <2>2. \A s \in Slots : StillInQuota(s)'
      <3> SUFFICES ASSUME NEW s \in Slots, pc'[s] = "insert"
                   PROVE  QuotaLeft(order[s].user)'
        BY DEF StillInQuota
      <3>1. PICK u \in Users : u = order[s].user /\ u = order'[s].user
        BY <1>3
      <3>2. u # order[r].user
        <4>1. r # s /\ HoldsWallet(r)
          BY <1>5 DEF HoldsWallet
        <4>2. pc[s] = "insert" \/ Moves(s)
          BY KindsOfAttempts
        <4>3. CASE pc[s] = "insert"
          BY <3>1, <4>1, <4>3, WalletIsAlone DEF HoldsWallet
        <4>4. CASE Moves(s)
          BY <1>5, <4>1, <4>4 DEF Moves
        <4>5. QED
          BY <4>2, <4>3, <4>4
      <3>3. QuotaLeft(u)'
        BY <1>1, <1>3, <1>5, <3>1, <3>2
      <3>4. QED
        BY <3>1, <3>3
    <2>3. ASSUME NEW u \in Users
          PROVE  /\ Finite(u)' /\ Cardinality(RecentSnapshots(u)') <= RecentLimit
                 /\ Cardinality(Snapshots(u)') <= TotalLimit
      BY <1>1, <1>2, <1>5, <2>1
    <2>4. QED
      BY <2>2, <2>3 DEF QuotaInv, SnapshotQuota
  <1>6. QED
    BY <1>4, <1>5, KindsOfSnapshots
-----------------------------------------------------------------------------
(* Tabs. *)

(* What one tab sees of a step: nothing, or it sends, gives up, or hears the    *)
(* end of the attempt it waits for.                                           *)
Hears(t) ==
    \E s \in Slots : \E state, answer :
        /\ tab[t].slot = s /\ Ends(s, state, answer)
        /\ tab'[t].state = state /\ tab'[t].slot = None
        /\ tab'[t].order = tab[t].order /\ tab'[t].answer = answer
Leaves(t) ==
    \/ /\ tab'[t].state = "failed" /\ tab'[t].slot = None
    \/ /\ tab'[t].state = "waiting" /\ tab'[t].slot \in Slots
       /\ pc'[tab'[t].slot] # "free" /\ order'[tab'[t].slot] = tab'[t].order
Stays(t) ==
    /\ tab'[t] = tab[t]
    /\ TabsTied => \A s \in Slots : tab[t].slot = s => pc'[s] # "free" /\ order'[s] = order[s]

LEMMA TabRecord ==
    ASSUME IInv, NEW t \in Tabs
    PROVE  tab[t] \in [state : Answers, order : Order \cup {None}, slot : Slots \cup {None},
                      answer : Responses \cup {None}, sent : Nat]
  BY DEF IInv, TypeOK, TabsOK

LEMMA KindsOfTabs ==
    ASSUME IInv, Kinds, NEW t \in Tabs
    PROVE  Hears(t) \/ Leaves(t) \/ Stays(t)
  <1>1. ASSUME NEW s \in Slots, NEW state, NEW answer, Ends(s, state, answer)
        PROVE  Hears(t) \/ Stays(t)
    <2>1. tab' = [v \in Tabs |-> IF tab[v].slot = s
                     THEN [tab[v] EXCEPT !.state = state, !.slot = None, !.answer = answer]
                     ELSE tab[v]]
      BY <1>1 DEF Ends, End, Reply
    <2>2. CASE tab[t].slot = s
      <3>1. tab'[t] = [tab[t] EXCEPT !.state = state, !.slot = None, !.answer = answer]
        BY <2>1, <2>2
      <3>2. /\ tab'[t].state = state /\ tab'[t].slot = None
            /\ tab'[t].order = tab[t].order /\ tab'[t].answer = answer
        BY <3>1, TabRecord
      <3>3. QED
        BY <1>1, <2>2, <3>2 DEF Hears
    <2>3. CASE tab[t].slot # s
      <3>1. tab'[t] = tab[t]
        BY <2>1, <2>3
      <3>2. Alone(s)
        BY <1>1, EndAlone DEF Ends, IInv, TypeOK
      <3>3. ASSUME NEW r \in Slots, tab[t].slot = r, TabsTied
            PROVE  pc'[r] # "free" /\ order'[r] = order[r]
        <4>1. pc[r] # "free"
          BY <3>3, SlotsAssumption DEF TabsTied
        <4>2. QED
          BY <2>3, <3>2, <3>3, <4>1 DEF Alone
      <3>4. QED
        BY <3>1, <3>3 DEF Stays
    <2>4. QED
      BY <2>2, <2>3
  <1>2. ASSUME NEW s \in Slots, Moves(s)
        PROVE  Stays(t)
    <2>1. ASSUME NEW r \in Slots, tab[t].slot = r, TabsTied
          PROVE  pc'[r] # "free" /\ order'[r] = order[r]
      <3>1. pc[r] # "free"
        BY <2>1, SlotsAssumption DEF TabsTied
      <3>2. QED
        BY <1>2, <3>1 DEF Moves
    <2>2. QED
      BY <1>2, <2>1 DEF Stays, Moves
  <1>3. ASSUME NEW v \in Tabs, NEW s \in Slots, NEW o, NEW n, Send(v, s, o, n)
        PROVE  Leaves(t) \/ Stays(t)
    <2>1. /\ pc[s] = "free" /\ pc' = [pc EXCEPT ![s] = "login"] /\ order' = [order EXCEPT ![s] = o]
          /\ tab' = [tab EXCEPT ![v] = [state |-> "waiting", order |-> o, slot |-> s,
                                       answer |-> None, sent |-> n]]
      BY <1>3 DEF Send
    <2>2. DOMAIN pc = Slots /\ DOMAIN order = Slots /\ DOMAIN tab = Tabs
      BY DEF IInv, TypeOK, AttemptsOK, TabsOK
    <2>3. CASE v = t
      <3>1. /\ tab'[t].state = "waiting" /\ tab'[t].slot = s /\ tab'[t].order = o
            /\ pc'[s] = "login" /\ order'[s] = o
        BY <2>1, <2>2, <2>3
      <3>2. QED
        BY <3>1 DEF Leaves
    <2>4. CASE v # t
      <3>1. tab'[t] = tab[t]
        BY <2>1, <2>2, <2>4
      <3>2. ASSUME NEW r \in Slots, tab[t].slot = r, TabsTied
            PROVE  pc'[r] # "free" /\ order'[r] = order[r]
        <4>1. pc[r] # "free"
          BY <3>2, SlotsAssumption DEF TabsTied
        <4>2. r # s
          BY <2>1, <4>1
        <4>3. QED
          BY <2>1, <2>2, <4>1, <4>2
      <3>3. QED
        BY <3>1, <3>2 DEF Stays
    <2>5. QED
      BY <2>3, <2>4
  <1>4. ASSUME NEW v \in Tabs, Gone(v)
        PROVE  Leaves(t) \/ Stays(t)
    <2>1. /\ tab' = [tab EXCEPT ![v].state = "failed", ![v].slot = None]
          /\ UNCHANGED <<pc, order>>
      BY <1>4 DEF Gone
    <2>2. CASE v = t
      <3>1. tab'[t] = [tab[t] EXCEPT !.state = "failed", !.slot = None]
        BY <2>1, <2>2 DEF IInv, TypeOK, TabsOK
      <3>2. tab'[t].state = "failed" /\ tab'[t].slot = None
        BY <3>1, TabRecord
      <3>3. QED
        BY <3>2 DEF Leaves
    <2>3. CASE v # t
      <3>1. tab'[t] = tab[t]
        BY <2>1, <2>3 DEF IInv, TypeOK, TabsOK
      <3>2. QED
        BY <2>1, <3>1, SlotsAssumption DEF Stays, TabsTied
    <2>4. QED
      BY <2>2, <2>3
  <1>5. CASE Ages
    BY <1>5, SlotsAssumption DEF Ages, Stays, TabsTied
  <1>6. QED
    BY <1>1, <1>2, <1>3, <1>4, <1>5 DEF Kinds

LEMMA TiesStay ==
    ASSUME IInv, TabsTied, Kinds
    PROVE  TabsTied'
  <1> SUFFICES ASSUME NEW t \in Tabs
               PROVE  /\ tab'[t].state = "waiting" <=> tab'[t].slot # None
                      /\ tab'[t].slot # None => pc'[tab'[t].slot] # "free"
                                                /\ order'[tab'[t].slot] = tab'[t].order
    BY DEF TabsTied
  <1>1. CASE Hears(t)
    BY <1>1 DEF Hears, Ends
  <1>2. CASE Leaves(t)
    BY <1>2, SlotsAssumption DEF Leaves
  <1>3. CASE Stays(t)
    <2>1. tab[t].slot \in Slots \cup {None}
      BY TabRecord
    <2>2. QED
      BY <1>3, <2>1 DEF Stays, TabsTied
  <1>4. QED
    BY <1>1, <1>2, <1>3, KindsOfTabs

LEMMA AnswerStays ==
    ASSUME RowsStay, NEW o, o.user \in Users, o.id \in Ids, NEW answer, Answered(o, answer)
    PROVE  Answered(o, answer)'
  BY DEF RowsStay, Answered, Row, Previous

AnswerKept(t) == tab[t].state = "done" => Answered(tab[t].order, tab[t].answer)

EveryAnswerKept == \A t \in Tabs : AnswerKept(t)

LEMMA AnswersOfTabs == AnswersAreKept <=> EveryAnswerKept
  BY DEF AnswersAreKept, EveryAnswerKept, AnswerKept, Answered, Row

LEMMA AnswersOfTabsNext == AnswersAreKept' <=> EveryAnswerKept'
  BY AnswersOfTabs, PTL

LEMMA AnswersStay ==
    ASSUME IInv, TabsTied, AnswersAreKept, Kinds
    PROVE  AnswersAreKept'
  <1>1. RowsStay
    BY KindsOfRows
  <1>2. ASSUME NEW t \in Tabs
        PROVE  AnswerKept(t)'
    <2> SUFFICES ASSUME NEW o, NEW answer, o = tab'[t].order, answer = tab'[t].answer,
                        tab'[t].state = "done"
                 PROVE  Answered(o, answer)'
      BY DEF AnswerKept, Answered, Row, Previous
    <2>1. CASE Hears(t)
      <3>1. PICK s \in Slots : \E state, a :
              /\ tab[t].slot = s /\ Ends(s, state, a)
              /\ tab'[t].state = state /\ tab'[t].order = tab[t].order /\ tab'[t].answer = a
        BY <2>1 DEF Hears
      <3>2. order[s] = tab[t].order
        BY <3>1, SlotsAssumption DEF TabsTied
      <3>3. o = order[s] /\ Ends(s, "done", answer)
        BY <3>1, <3>2
      <3>4. QED
        BY <3>3 DEF Ends
    <2>2. CASE Leaves(t)
      BY <2>2 DEF Leaves
    <2>3. CASE Stays(t)
      <3>1. tab'[t] = tab[t] /\ o = tab[t].order /\ answer = tab[t].answer /\ tab[t].state = "done"
        BY <2>3 DEF Stays
      <3>2. Answered(o, answer)
        BY <3>1, AnswersOfTabs DEF EveryAnswerKept, AnswerKept
      <3>3. o.user \in Users /\ o.id \in Ids
        <4>1. Sendable(tab[t].order)
          BY <3>1 DEF IInv, OrdersSendable
        <4>2. o \in Order
          BY <3>1, <4>1 DEF Sendable
        <4>3. QED
          BY <4>2, OrderType
      <3>4. QED
        BY <1>1, <3>2, <3>3, AnswerStays
    <2>4. QED
      BY <2>1, <2>2, <2>3, KindsOfTabs
  <1>3. QED
    BY <1>2, AnswersOfTabsNext DEF EveryAnswerKept

AnswersInv == IInv /\ (\A s \in Slots : StillNew(s)) /\ TabsTied /\ AnswersAreKept /\ QuotaInv

LEMMA InitAnswers == Init => AnswersInv
  <1> SUFFICES ASSUME Init PROVE AnswersInv
    OBVIOUS
  <1>1. IInv
    BY InitIInv
  <1>2. /\ \A s \in Slots : pc[s] = "free"
        /\ \A t \in Tabs : tab[t].state = "idle" /\ tab[t].slot = None
        /\ \A u \in Users, i \in Ids : snapshots[u][i] = None
    BY DEF Init, EmptyServer
  <1>3. \A u \in Users : Snapshots(u) = {} /\ RecentSnapshots(u) = {}
    BY <1>2 DEF Snapshots, RecentSnapshots
  <1>4. QuotaInv
    BY <1>2, <1>3, FS_EmptySet, LimitAssumption DEF QuotaInv, Finite, SnapshotQuota, StillInQuota
  <1>5. QED
    BY <1>1, <1>2, <1>4 DEF AnswersInv, StillNew, TabsTied, AnswersAreKept

LEMMA NextAnswers == AnswersInv /\ [Next]_vars => AnswersInv'
  <1> SUFFICES ASSUME AnswersInv, [Next]_vars PROVE AnswersInv'
    OBVIOUS
  <1>1. IInv' /\ Kinds
    BY NextIInv, StepKinds DEF AnswersInv
  <1>2. \A s \in Slots : StillNew(s)'
    BY <1>1, NewStays DEF AnswersInv
  <1>3. TabsTied' /\ AnswersAreKept' /\ QuotaInv'
    BY <1>1, TiesStay, AnswersStay, QuotaStays DEF AnswersInv
  <1>4. QED
    BY <1>1, <1>2, <1>3 DEF AnswersInv

(* A tab that heard success holds the stored answer of exactly the order it     *)
(* sent: attempts of one order, parallel or repeated, never answer differently  *)
(* (store.ts mutate and createShareSnapshot).                                 *)
THEOREM AnswersAlwaysKept == Spec => []AnswersAreKept
  <1>1. AnswersInv => AnswersAreKept
    BY DEF AnswersInv
  <1>2. QED
    BY <1>1, InitAnswers, NextAnswers, PTL DEF Spec

(* Parallel snapshot requests of a user never exceed the quota, though each     *)
(* counts before it inserts: the count and the insert are under the wallet's   *)
(* lock (store.ts createShareSnapshot).                                       *)
THEOREM QuotaAlwaysKept == Spec => []SnapshotQuota
  <1>1. AnswersInv => SnapshotQuota
    BY DEF AnswersInv, QuotaInv
  <1>2. QED
    BY <1>1, InitAnswers, NextAnswers, PTL DEF Spec

(* No retry of an order that took effect is refused, though its revision is old *)
(* by then: the lookup comes first, under the lock of the wallet.              *)
THEOREM DoneNeverRefused == Spec => DoneIsNotRefused
  <1> DEFINE Answers1 ==
        \A t \in Tabs : tab[t].state = "waiting" /\ Stored(tab[t].order)
                         => tab'[t].state # "refused"
  <1>1. AnswersInv /\ [Next]_vars => [Answers1]_vars
    <2> SUFFICES ASSUME AnswersInv, Next, NEW t \in Tabs, tab[t].state = "waiting",
                        Stored(tab[t].order), tab'[t].state = "refused"
                 PROVE  FALSE
      OBVIOUS
    <2>1. Kinds
      BY StepKinds DEF AnswersInv
    <2>2. CASE Hears(t)
      <3>1. PICK s \in Slots : \E state, answer :
              /\ tab[t].slot = s /\ Ends(s, state, answer) /\ tab'[t].state = state
        BY <2>2 DEF Hears
      <3>2. order[s] = tab[t].order
        BY <3>1, SlotsAssumption DEF AnswersInv, TabsTied
      <3>3. ~ Stored(order[s])
        BY <3>1 DEF Ends
      <3>4. QED
        BY <3>2, <3>3
    <2>3. CASE Leaves(t) \/ Stays(t)
      BY <2>3 DEF Leaves, Stays
    <2>4. QED
      BY <2>1, <2>2, <2>3, KindsOfTabs DEF AnswersInv
  <1>2. QED
    BY <1>1, InitAnswers, NextAnswers, PTL DEF Spec, DoneIsNotRefused
==============================================================================
