----------------------------- MODULE PaperStore -----------------------------
(***************************************************************************)
(* The paper trading server: browser tabs that send orders, the attempts    *)
(* the server runs for them (http.ts, store.ts) and the Postgres tables     *)
(* with their row locks.                                                   *)
(*                                                                         *)
(* An attempt is one HTTP request.  It runs two transactions one after the   *)
(* other, ensureUser and then mutate or createShareSnapshot, each on a       *)
(* connection of the pool.  A statement that waits for a row lock is a step  *)
(* of its own; the writes of a transaction become visible at its COMMIT, so  *)
(* they are one step there, made of what the transaction had read.  Anywhere *)
(* an attempt may fail (database, timeout, process) and roll back, a COMMIT  *)
(* may succeed unheard, and a tab may lose its connection while the attempt  *)
(* goes on.  A tab that heard a server error or nothing may send the same    *)
(* order again; what it heard as refused it does not.                      *)
(*                                                                         *)
(* Abstracted: authentication and input checks (they precede the first       *)
(* transaction), slippage limits, schema versions, listing of markets.      *)
(***************************************************************************)
EXTENDS PaperEngine, Sequences, FiniteSets, Functions

CONSTANTS
    Slots,            \* attempts the server runs at the same time
    PoolSize,         \* Pool max
    Tabs,             \* browser tabs
    Owner,            \* the user logged in at a tab
    RecentLimit,      \* snapshots a user may take per minute
    TotalLimit,       \* and in all
    CreateIds,        \* bound: request ids that create, one market for each
    ClientOps,        \* bound: what the tabs of a run send
    MaxOrders         \* bound: orders one tab sends, retries not counted

ASSUME FiniteAssumption == IsFiniteSet(Users) /\ IsFiniteSet(Markets)
ASSUME PoolAssumption == PoolSize \in Nat \ {0}
ASSUME TabsAssumption == Owner \in [Tabs -> Users]
ASSUME SlotsAssumption == None \notin Slots /\ IsFiniteSet(Slots)
ASSUME LimitAssumption == RecentLimit \in Nat /\ TotalLimit \in Nat
ASSUME BoundAssumption == CreateIds \subseteq Ids /\ ClientOps \subseteq Ops /\ MaxOrders \in Nat

VARIABLES
    wallet,           \* ocp_paper_users.balance_micros
    granted,          \* users with a row in ocp_paper_grants
    journal,          \* ocp_paper_journal, per user
    markets,          \* ocp_paper_markets: id -> document or None
    requests,         \* ocp_paper_requests: user, id -> order and response
    due,              \* markets whose deadline has passed
    snapshots,        \* ocp_paper_share_snapshots: user, id -> row or None
    walletLock,       \* user row -> attempt that holds it, or None
    marketLock,       \* market row -> attempt that holds it, or None
    pc,               \* attempt -> the statement it is about to run
    order,            \* attempt -> its order
    balance,          \* attempt -> the wallet it read
    document,         \* attempt -> the document it read
    update,           \* attempt -> what its callback computed
    tab               \* tab -> its state, order, attempt and answer

ledger == <<wallet, granted, journal, markets, requests, due>>
rows == <<wallet, granted, journal, markets, requests, due, snapshots>>
locks == <<walletLock, marketLock>>
reads == <<balance, document, update>>
vars == <<rows, locks, pc, order, reads, tab>>

Ledger == INSTANCE PaperLedger
    WITH wallet <- wallet, granted <- granted, journal <- journal,
         markets <- markets, requests <- requests, due <- due

(* A server that has just started: no attempt runs, no row is locked. *)
EmptyServer ==
    /\ snapshots = [u \in Users |-> [i \in Ids |-> None]]
    /\ walletLock = [u \in Users |-> None]
    /\ marketLock = [m \in Markets |-> None]
    /\ pc = [s \in Slots |-> "free"]
    /\ order = [s \in Slots |-> None]
    /\ balance = [s \in Slots |-> 0]
    /\ document = [s \in Slots |-> None]
    /\ update = [s \in Slots |-> None]
    /\ tab = [t \in Tabs |-> [state |-> "idle", order |-> None, slot |-> None, answer |-> None,
                           sent |-> 0]]

Init == Ledger!Init /\ EmptyServer
-----------------------------------------------------------------------------
(* The pool and the end of an attempt. *)

(* Attempts between pool.connect and release. *)
Connected == {s \in Slots : pc[s] \notin {"free", "login", "open"}}
PoolFree_OneMore == Cardinality(Connected) <= PoolSize
PoolFree == Cardinality(Connected) < PoolSize

(* COMMIT or ROLLBACK and release: the row locks go with the transaction. *)
Unlock(s) ==
    /\ walletLock' = [u \in Users |-> IF walletLock[u] = s THEN None ELSE walletLock[u]]
    /\ marketLock' = [m \in Markets |-> IF marketLock[m] = s THEN None ELSE marketLock[m]]

(* The answer reaches the tab that waits for this attempt, if one still does. *)
Reply(s, state, answer) ==
    tab' = [t \in Tabs |-> IF tab[t].slot = s
                           THEN [tab[t] EXCEPT !.state = state, !.slot = None, !.answer = answer]
                           ELSE tab[t]]

End(s, state, answer) ==
    /\ Unlock(s)
    /\ Reply(s, state, answer)
    /\ pc' = [pc EXCEPT ![s] = "free"]
    /\ order' = [order EXCEPT ![s] = None]
    /\ balance' = [balance EXCEPT ![s] = 0]
    /\ document' = [document EXCEPT ![s] = None]
    /\ update' = [update EXCEPT ![s] = None]

(* A COMMIT that succeeds may still be reported as an error, or its answer lost. *)
EndCommitted(s, answer) == End(s, "done", answer) \/ End(s, "failed", None)

Refuse(s) == End(s, "refused", None) /\ UNCHANGED rows

(* Mistake: the client goes back to the pool without ROLLBACK. *)
Fail_NoRollback(s) ==
    /\ pc[s] # "free"
    /\ pc' = [pc EXCEPT ![s] = "free"]
    /\ order' = [order EXCEPT ![s] = None]
    /\ Reply(s, "failed", None)
    /\ UNCHANGED <<rows, locks, reads>>

(* Mistake: the wallet is written outside the transaction. *)
Fail_WalletStays(s) ==
    /\ pc[s] # "free" /\ End(s, "failed", None)
    /\ wallet' = IF pc[s] = "commit"
                  THEN [wallet EXCEPT ![order[s].user] = update[s].wallet] ELSE wallet
    /\ UNCHANGED <<granted, journal, markets, requests, due, snapshots>>

(* Any statement, the wait for a connection or the whole process may fail. *)
Fail(s) == pc[s] # "free" /\ End(s, "failed", None) /\ UNCHANGED rows

Step(s, from, to) == pc[s] = from /\ pc' = [pc EXCEPT ![s] = to]
-----------------------------------------------------------------------------
(* ensureUser *)

Login(s) ==
    /\ Step(s, "login", "upsert") /\ PoolFree
    /\ UNCHANGED <<rows, locks, order, reads, tab>>

(* INSERT ... ON CONFLICT DO UPDATE RETURNING locks and reads the user's row. *)
Upsert(s) ==
    LET u == order[s].user IN
    /\ Step(s, "upsert", "grant")
    /\ walletLock[u] = None
    /\ walletLock' = [walletLock EXCEPT ![u] = s]
    /\ balance' = [balance EXCEPT ![s] = wallet[u]]
    /\ UNCHANGED <<rows, marketLock, order, document, update, tab>>

(* The grant row decides whether this login is the first. *)
GrantOnce(u, before) ==
    IF u \in granted THEN UNCHANGED <<wallet, granted, journal>>
    ELSE /\ granted' = granted \cup {u}
         /\ wallet' = [wallet EXCEPT ![u] = before + InitialGrant]
         /\ journal' = [journal EXCEPT ![u] =
                          Append(@, Entry(None, before, before + InitialGrant))]

(* COMMIT of ensureUser: the request goes on to its own transaction. *)
LoggedIn(s) ==
    /\ Step(s, "grant", "open")
    /\ GrantOnce(order[s].user, balance[s])
    /\ Unlock(s)
    /\ balance' = [balance EXCEPT ![s] = 0]
    /\ UNCHANGED <<markets, requests, due, snapshots, order, document, update, tab>>

LoginUnheard(s) ==
    /\ pc[s] = "grant"
    /\ GrantOnce(order[s].user, balance[s])
    /\ End(s, "failed", None)
    /\ UNCHANGED <<markets, requests, due, snapshots>>
-----------------------------------------------------------------------------
(* mutate and createShareSnapshot: wallet first, then the market. *)

Open(s) ==
    /\ Step(s, "open", "wallet") /\ PoolFree
    /\ UNCHANGED <<rows, locks, order, reads, tab>>

(* Mistake: SELECT without FOR UPDATE. *)
LockWallet_NoLock(s) ==
    /\ Step(s, "wallet", "lookup")
    /\ balance' = [balance EXCEPT ![s] = wallet[order[s].user]]
    /\ UNCHANGED <<rows, locks, order, document, update, tab>>

(* SELECT ... FROM ocp_paper_users ... FOR UPDATE *)
LockWallet(s) ==
    LET u == order[s].user IN
    /\ Step(s, "wallet", "lookup")
    /\ walletLock[u] = None
    /\ walletLock' = [walletLock EXCEPT ![u] = s]
    /\ balance' = [balance EXCEPT ![s] = wallet[u]]
    /\ UNCHANGED <<rows, marketLock, order, document, update, tab>>

Previous(o) == requests[o.user][o.id]

(* Mistake: the payload hash is not compared. *)
Replay_AnyPayload(s) ==
    /\ pc[s] = "lookup" /\ order[s].op # "share" /\ Previous(order[s]) # None
    /\ EndCommitted(s, Previous(order[s]).response) /\ UNCHANGED rows

(* Mistake: an old request does not stop the order. *)
Lookup_Always(s) ==
    /\ pc[s] = "lookup" /\ order[s].op # "share"
    /\ Step(s, "lookup", IF order[s].op = "create" THEN "execute" ELSE "market")
    /\ UNCHANGED <<rows, locks, order, reads, tab>>

(* The id was used: the stored answer for the same body, a conflict otherwise. *)
Replay(s) ==
    LET old == Previous(order[s]) IN
    /\ pc[s] = "lookup" /\ order[s].op # "share" /\ old # None
    /\ IF old.order = order[s]
       THEN EndCommitted(s, old.response) /\ UNCHANGED rows
       ELSE Refuse(s)

Lookup(s) ==
    /\ pc[s] = "lookup" /\ order[s].op # "share" /\ Previous(order[s]) = None
    /\ Step(s, "lookup", IF order[s].op = "create" THEN "execute" ELSE "market")
    /\ UNCHANGED <<rows, locks, order, reads, tab>>

(* Mistake: SELECT without FOR UPDATE. *)
LockMarket_NoLock(s) ==
    /\ Step(s, "market", "execute")
    /\ document' = [document EXCEPT ![s] = markets[order[s].market]]
    /\ UNCHANGED <<rows, locks, order, balance, update, tab>>

(* SELECT document ... FOR UPDATE; markets are never deleted. *)
LockMarket(s) ==
    LET m == order[s].market IN
    /\ Step(s, "market", "execute")
    /\ marketLock[m] = None
    /\ marketLock' = [marketLock EXCEPT ![m] = s]
    /\ document' = [document EXCEPT ![s] = markets[m]]
    /\ UNCHANGED <<rows, walletLock, order, balance, update, tab>>

(* The callback for op create: a fresh id for the market. *)
ExecuteCreate(s) ==
    /\ pc[s] = "execute" /\ order[s].op = "create"
    /\ Step(s, "execute", "commit")
    /\ \E m \in Markets :
         /\ markets[m] = None
         /\ \A r \in Slots : pc[r] = "commit" => update[r].market # m
         /\ update' = [update EXCEPT ![s] =
              [market |-> m, document |-> NewDocument(order[s].user), wallet |-> balance[s]]]
    /\ UNCHANGED <<rows, locks, order, balance, document, tab>>

(* The callback for op trade: time is read here, under both locks. *)
Execute(s) ==
    LET o == order[s]
        d == Advance(document[s], o.market \in due)
    IN /\ pc[s] = "execute" /\ o.op \in TradeOps
       /\ IF d.revision = o.revision /\ Allowed(d, o, balance[s])
          THEN /\ Step(s, "execute", "commit")
               /\ update' = [update EXCEPT ![s] =
                    [market |-> o.market, document |-> Traded(d, o, balance[s]),
                     wallet |-> WalletAfter(d, o, balance[s])]]
               /\ UNCHANGED <<rows, locks, order, balance, document, tab>>
          ELSE Refuse(s)

(* The four writes and COMMIT; the primary key forbids a second request row. *)
Commit(s) ==
    LET o == order[s]
        n == update[s]
    IN /\ pc[s] = "commit"
       /\ Previous(o) = None
       /\ markets' = [markets EXCEPT ![n.market] = n.document]
       /\ wallet' = [wallet EXCEPT ![o.user] = n.wallet]
       /\ requests' = [requests EXCEPT ![o.user][o.id] = Request(o, n.market, n.document, n.wallet)]
       /\ journal' = [journal EXCEPT ![o.user] = Append(@, Entry(o.id, balance[s], n.wallet))]
       /\ EndCommitted(s, Response(n.market, n.document, n.wallet))
       /\ UNCHANGED <<granted, due, snapshots>>

SnapshotRow == [order : Order, view : Responses, recent : BOOLEAN]
ASSUME SnapshotAssumption == None \notin SnapshotRow

Snapshots(u) == {i \in Ids : snapshots[u][i] # None}
RecentSnapshots(u) == {i \in Snapshots(u) : snapshots[u][i].recent}

QuotaLeft(u) ==
    /\ Cardinality(RecentSnapshots(u)) < RecentLimit
    /\ Cardinality(Snapshots(u)) < TotalLimit

(* createShareSnapshot after its wallet lock: an old row, or the quota and the *)
(* document as it is committed now.                                          *)
ReplayShare(s) ==
    LET old == snapshots[order[s].user][order[s].id] IN
    /\ pc[s] = "lookup" /\ order[s].op = "share" /\ old # None
    /\ IF old.order = order[s]
       THEN EndCommitted(s, old.view) /\ UNCHANGED rows
       ELSE Refuse(s)

Share(s) ==
    LET o == order[s]
        view == Response(o.market, Advance(markets[o.market], o.market \in due), 0)
    IN /\ pc[s] = "lookup" /\ o.op = "share" /\ snapshots[o.user][o.id] = None
       /\ IF QuotaLeft(o.user)
          THEN /\ Step(s, "lookup", "insert")
               /\ update' = [update EXCEPT ![s] = view]
               /\ UNCHANGED <<rows, locks, order, balance, document, tab>>
          ELSE Refuse(s)

(* The foreign key of the new row waits for whoever has the market. *)
InsertShare(s) ==
    LET o == order[s] IN
    /\ pc[s] = "insert" /\ snapshots[o.user][o.id] = None
    /\ marketLock[o.market] = None
    /\ snapshots' = [snapshots EXCEPT ![o.user][o.id] =
                       [order |-> o, view |-> update[s], recent |-> TRUE]]
    /\ EndCommitted(s, update[s])
    /\ UNCHANGED ledger
-----------------------------------------------------------------------------
(* The browser and time. *)

(* What a tab may send now: the revision a trade names is that of its view. *)
Orders(u) ==
    LET open == {m \in Markets : markets[m] # None}
        View(m) == Advance(markets[m], m \in due).revision
    IN {OrderOf(u, i, "create", None, 0, 0) : i \in CreateIds}
       \cup {OrderOf(u, i, "share", m, 0, 0) : i \in Ids, m \in open}
       \cup {OrderOf(u, i, "buy", m, a, View(m)) : i \in Ids, m \in open, a \in Amounts}
       \cup {OrderOf(u, i, op, m, 0, View(m)) : i \in Ids, m \in open, op \in {"sell", "claim"}}

Send(t, s, o, n) ==
    /\ pc[s] = "free"
    /\ pc' = [pc EXCEPT ![s] = "login"]
    /\ order' = [order EXCEPT ![s] = o]
    /\ tab' = [tab EXCEPT ![t] = [state |-> "waiting", order |-> o, slot |-> s, answer |-> None,
                                  sent |-> n]]
    /\ UNCHANGED <<rows, locks, reads>>

(* A tab sends one order at a time; a new one gives up the retry of the last. *)
NewOrder(t) ==
    /\ tab[t].state # "waiting" /\ tab[t].sent < MaxOrders
    /\ \E s \in Slots, o \in Orders(Owner[t]) :
         o.op \in ClientOps /\ Send(t, s, o, tab[t].sent + 1)

Retry(t) ==
    /\ tab[t].state = "failed"
    /\ \E s \in Slots : Send(t, s, tab[t].order, tab[t].sent)

(* The connection breaks; the attempt does not know. *)
Gone(t) ==
    /\ tab[t].state = "waiting"
    /\ tab' = [tab EXCEPT ![t].state = "failed", ![t].slot = None]
    /\ UNCHANGED <<rows, locks, pc, order, reads>>

DeadlinePasses(m) ==
    /\ Ledger!DeadlinePasses(m)
    /\ UNCHANGED <<snapshots, locks, pc, order, reads, tab>>

MinutePasses(u, i) ==
    /\ i \in RecentSnapshots(u)
    /\ snapshots' = [snapshots EXCEPT ![u][i].recent = FALSE]
    /\ UNCHANGED <<ledger, locks, pc, order, reads, tab>>
-----------------------------------------------------------------------------
(* What the server does by itself for an attempt. *)
Work(s) ==
    \/ LoggedIn(s) \/ Replay(s) \/ Lookup(s) \/ ExecuteCreate(s) \/ Execute(s) \/ Commit(s)
    \/ ReplayShare(s) \/ Share(s)

(* Steps that wait for a connection or a row. *)
Await(s) ==
    \/ Login(s) \/ Upsert(s) \/ Open(s) \/ LockWallet(s) \/ LockMarket(s) \/ InsertShare(s)

Next ==
    \/ \E s \in Slots : Work(s) \/ Await(s) \/ LoginUnheard(s) \/ Fail(s)
    \/ \E t \in Tabs : NewOrder(t) \/ Retry(t) \/ Gone(t)
    \/ \E m \in Markets : DeadlinePasses(m)
    \/ \E u \in Users, i \in Ids : MinutePasses(u, i)

(* A statement that can run does, and Postgres serves waiters in their order. *)
Fairness == \A s \in Slots : WF_vars(Work(s)) /\ SF_vars(Await(s))

Spec == Init /\ [][Next]_vars
FairSpec == Spec /\ Fairness
-----------------------------------------------------------------------------
(* Properties. *)

Statements == {"free", "login", "upsert", "grant", "open", "wallet", "lookup",
               "market", "execute", "commit", "insert"}
Updates == [market : Markets, document : Document, wallet : Nat]
Answers == {"idle", "waiting", "done", "refused", "failed"}

RowsOK ==
    /\ wallet \in [Users -> Nat]
    /\ granted \subseteq Users /\ due \subseteq Markets
    /\ journal \in [Users -> Seq(JournalRow)]
    /\ markets \in [Markets -> Document \cup {None}]
    /\ requests \in [Users -> [Ids -> RequestRow \cup {None}]]
    /\ snapshots \in [Users -> [Ids -> SnapshotRow \cup {None}]]
AttemptsOK ==
    /\ walletLock \in [Users -> Slots \cup {None}]
    /\ marketLock \in [Markets -> Slots \cup {None}]
    /\ pc \in [Slots -> Statements]
    /\ order \in [Slots -> Order \cup {None}]
    /\ balance \in [Slots -> Nat]
    /\ document \in [Slots -> Document \cup {None}]
    /\ update \in [Slots -> Updates \cup Responses \cup {None}]
TabsOK ==
    tab \in [Tabs -> [state : Answers, order : Order \cup {None}, slot : Slots \cup {None},
                      answer : Responses \cup {None}, sent : Nat]]

(* Each table, lock, attempt and tab has values of its kind, no wallet, holding *)
(* or fraction is negative, and the attempts never hold more connections than   *)
(* the pool has.                                                               *)
TypeOK == RowsOK /\ AttemptsOK /\ TabsOK /\ Cardinality(Connected) <= PoolSize

(* What a market holds, in Fine units: its cash and the players' fractions.    *)
MoneyIn(m) ==
    IF markets[m] = None THEN 0
    ELSE markets[m].cash + SumFunctionOnSet(markets[m].dust, Users)

(* Nothing of the system's money is lost or minted: wallets, market cash and   *)
(* the fractions kept as dust add up to the initial grants, whatever was       *)
(* retried, rolled back or interleaved.                                       *)
MoneyConserved ==
    LET inMarkets == SumFunctionOnSet([m \in Markets |-> MoneyIn(m)], Markets)
    IN SumFunctionOnSet(wallet, Users) * Fine + inMarkets
         = InitialGrant * Fine * Cardinality(granted)

(* The journal explains the wallet (stated of the ledger): no entry is missing,  *)
(* doubled or computed from a balance that was not the last.                    *)
JournalExplains == Ledger!JournalExplains

(* A tab that heard success holds the stored answer of exactly its order: two  *)
(* attempts of one order never answer differently, even after the market moved. *)
AnswersAreKept ==
    \A t \in Tabs : tab[t].state = "done" =>
        LET o == tab[t].order
            row == IF o.op = "share" THEN snapshots[o.user][o.id] ELSE Previous(o)
        IN /\ row # None
           /\ row.order = o
           /\ tab[t].answer = IF o.op = "share" THEN row.view ELSE row.response

(* An order that took effect in an earlier or a parallel attempt is never      *)
(* refused to the tab that retries it (its old revision would look stale).     *)
Stored(o) ==
    LET row == IF o.op = "share" THEN snapshots[o.user][o.id] ELSE Previous(o)
    IN row # None /\ row.order = o
DoneIsNotRefused ==
    [][\A t \in Tabs : tab[t].state = "waiting" /\ Stored(tab[t].order)
                         => tab'[t].state # "refused"]_vars

(* No user has more recent snapshots than a minute allows, nor more in all. *)
SnapshotQuota ==
    \A u \in Users : /\ Cardinality(RecentSnapshots(u)) <= RecentLimit
                     /\ Cardinality(Snapshots(u)) <= TotalLimit

(* The store behaves as the ledger that executes one order at a time. *)
RefinesLedger == Ledger!Spec

(* A tab does not wait for ever: no lock or connection is kept by an attempt   *)
(* that is gone, and waiting for wallet and then market makes no circle.       *)
EveryOrderIsAnswered ==
    \A t \in Tabs : (tab[t].state = "waiting") ~> (tab[t].state # "waiting")
==============================================================================
