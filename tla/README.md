# A formal model of the OCP topic market

TLA+ modules, TLC runs and TLAPS proofs about the contracts, servers and pages of this
repository: the staking vault that decides a topic (OCPCore), the market that trades it
(TopicMarket), the paper trading server, the shared index of market histories, and the pages
of the site with the functions that serve them.

## 1. The system

### 1.1 Components

Paths are relative to `src/contracts/topic-market/src` and `src/frontend`.

| component | source | state it keeps | operations | module |
|---|---|---|---|---|
| OCPCore, the staking vault of one topic | `core/OCPCore.sol` | positions and totals per side; fee books per possible outcome; per-user fee histories; penalties, bonds, refunds; the result and the pools to claim from | stake, exit, deposit a fee, propose / process an early end, finalize, cancel, withdraw, claim fees, claim a bond, official payments, surplus | `OCPCore` |
| early-termination module | `TopicMarketEarlyTerminationModule.sol` | one pending request, a counter | propose, consume (both called by its Core only) | `OCPCore` |
| TopicMarket | `TopicMarket.sol`, `TopicMarketMath.sol`, `TopicMarketRightsToken.sol` | phase; Genesis supply and reserve; YES/NO balances and supplies; LP rights; cash, liabilities and fee debts | Genesis buy and sell, graduation, formal buy and sell, redeem pairs, materialize LP, close, finalize, claims, fee flushes, dust | `TopicMarket` |
| VaultCoreAdapter | `VaultCoreAdapter.sol` | the market it serves, the opening time, a re-entrancy latch | bind, open, relay a fee, finalize the market, retry fees | its constructor, its answers |
| stock factory | `TopicMarketStockFactory.sol` and the testnet variant | registered stocks, created markets, used credentials | register, enable, create | as the pages meet it |
| asset router | `TopicMarketAssetRouter.sol` | none between transactions | one transaction: pull, swap, act, return | - |
| price snapshots, exchanges, deployers | `*PriceSnapshot.sol`, `*Exchange.sol`, `deployers/` | none | reads and wrappers | - |
| paper trading server | `server/paper` | wallets, markets, requests, journal in Postgres | one trade per request, idempotent | `PaperStore` |
| paper market, the document of that server | `components/topicMarketDemoModel.ts`, driven by `server/paper/engine.ts` | phase, curve, accounts, vault, requests, budgets | the orders of a player, the passing of deadlines | `PaperMarket` |
| chain history indexer | `server/chain` | per market a checkpoint, an origin and a lease in Postgres; a lease of the factory | request, claim, read logs, save, release | `ChainHistory` |
| share links | `api/vault-share.ts`, `api/vault-card.tsx`, `api/vault-result-card.tsx` | what caches keep of their answers | share page, card, result card | `ShareSnapshot` |
| administration page | `admin.tsx` | a pending creation in local storage, a browser lock, the page's review and result | prepare, submit, retry with the same nonce, recover, clear | `AdminPage` |
| creation page | `permissionless.tsx` | form, wallet, credential | verify, create | `CreatePage` |
| vault page | `explore/vault.tsx` | detail, positions, quote, form, allowances | read, quote, approve, stake, trade, withdraw | `VaultPage` |
| market page | `components/TestnetMarketApp.tsx`, `testnet/approvalFlow.ts`, `useAsyncQuote.ts`, `viewCache.ts` | the view shown, whether it is live, the action under way | select, read, act | `TradePage` |
| zero-capital Genesis panel | `components/ZeroCapitalGenesis.tsx`, `genesisShareQuote.ts` | snapshot, quote, account, action | refresh, quote, approve, buy, sell | `GenesisPanel` |
| list of vaults | `components/ExploreView.tsx` | the vaults shown, a tick | fetch, show | `ExploreList` |
| wallet connection | `useWallet.ts` | signer, address, network | load, connect, disconnect, follow the wallet's events | `WalletHook` |
| search for a creation block | `testnet/historyBlockSearch.ts` | the bounds of a search | guess, bracket, bisect | `BlockSearch` |
| read queue of the charts | `testnet/historyReadQueue.ts` | jobs, their subscribers, their order | run, cancel, pump | `HistoryReadQueue` |

### 1.2 How they interact

The factory creates, in one transaction, an adapter; the adapter's constructor creates the
Core and the module and configures them; `bind` then attaches the market, once. The market
asks nothing of the Core until it graduates (`core.open`); from then on every formal trade
sends a 0.7% fee through the adapter into the Core, where it is credited to whoever
is staking. The Core reads one bit of the market, `isFormalMarket()`: it gates staking and
decides whether a topic settles by its vote or refunds as INVALID. The Core calls the module
inside its own propose and process. After the resolution the adapter's `finalizeMarket` drives,
in one transaction, the due request, the Core, the market and the official payments.
Users reach all of it directly or through the asset router, a trusted forwarder.

The pages read contracts through an RPC node and send transactions through the user's wallet;
nothing tells them when the chain, the wallet's account or its network changes except events and
polls. Charts ask the shared index first and the chain for the rest. The index is a row per market,
written by whichever function instance holds its lease. Share links are served by functions that
read the chain themselves, at one block, and are cached by the network in front of them. The pages
share nothing with each other but the chain.

### 1.3 What is hard

* fee histories: fees are credited lazily through per-share indices with kept fractions, in
  three exclusive books, while users join, add, leave and return between them;
* settlement: one snapshot turns a balance into pools that must cover every later claim,
  in every order, with rounding, forfeits and donations;
* time: requests expire while nobody processes them; late processing must give the result of
  the deadline; cut-offs of market and Core differ by an hour each;
* two contracts hold halves of one fact: escrow and request, phase and result, fee and debt;
* transfers to fixed recipients may fail and must be retried without blocking settlement;
* in the paper server: idempotent retries and row locks; and a book of floats whose assertion, if it
  failed after any order of orders, would close the market for good;
* in the index: leases that expire under a holder still at work, and a chain that reorganises
  between two reads of one synchronisation;
* on the pages: answers that arrive late or in another order, after the market, the amount, the
  account or the network has changed; a wallet that answers after its timeout, after a reload or
  never; and a creation that cannot be undone and must not be sent twice.

### 1.4 What makes each component correct

* OCPCore: solvent at all times; fee histories exact; books backed; no claim refused or short;
  the result is the majority at the deadline; requests and escrow agree; everybody is paid.
* TopicMarket: cash covers the larger outcome supply and every debt; phases only advance; each
  claim is paid once and in full; the LP rights share exactly the rest.
* Paper server: one effect per request id, whatever is retried; balances never negative; the
  journal explains the state. Its market: no money appears or is lost, and the budgets of the
  settlement are what is still to be claimed.
* Index: a holder that lost its lease writes nothing; what is saved is exactly the history up to one
  block of one chain, and follows the chain once it rests.
* Administration page: it never unlocks while something it asked for can still be mined; what it
  shows as created is final; it does not stay locked for ever.
* The other pages: what is shown is true of the chain it was read from; what is signed is what was
  shown and checked; no chart waits for ever.

## 2. The modules and the order in which they were written

| step | module |
|---|---|
| 1 | `OCPCore` (with the early-termination module), its observers `OCPCoreHistory` and, on the lemmas about sums in `SumLemmas`, its proofs `OCPCoreProofs` (section 3) |
| 2 | `TopicMarket`, with the curve translated (only the library's logarithm is a constant operator), `TopicMarketProofs`, also on `SumLemmas` (section 4) |
| 3 | `PaperStore` (row locks, request replay, crash between statements), which implements `PaperLedger`, with `PaperStoreProofs`, also on `SumLemmas` (section 5) |
| 4 | `AdminPage`: the creation of a market from the administration page, with `AdminPageProofs` (section 6) |
| 5 | `PriceHistory` and `ChainHistory`, which implements `HistoryIndex`; `BlockSearch`, `HistoryReadQueue` (section 7) |
| 6 | `TradePage`, `CreatePage`, `VaultPage`, `GenesisPanel`, `ExploreList`, `ShareSnapshot`, `WalletHook`, `PaperMarket` (section 7) |
| 7 | `SiteServer` (the index and the paper market) and, on it, `Site`, which composes the modules of 5 and 6; its instance `MCSite`; its proofs `SiteServerProofs` (index and paper market, also on `SumLemmas`), `SitePagesProofs` (the pages) and `SiteProofs` (the rest and the theorems) (section 7) |

What could follow: Core and market as one system under the adapter's
transactions, of which each module now has the other's answers as its environment
(`MarketGraduates`, `CoreFallsDue`, `CoreResolves`, the fee relay).

## 3. The vault: `OCPCore`, `OCPCoreHistory`, `MCOCPCore`

### 3.1 State and actions

`OCPCore` has one variable per storage field that decides anything (the comment beside each
variable names the field), and one action per external function. A transaction is atomic in the
EVM and leaves no trace when it reverts, so a `require` is a guard of the action; the action makes
every call the function makes: `ExitStake` checkpoints, forfeits the three fee books, takes the
penalty and pays; `ProcessEarlyRequest` consumes the module's request, releases the escrow and
either refunds the bond and finalizes or moves the bond to the failed pool; `Finalize` processes a
due request first, as the code does.

| action | function |
|---|---|
| `BindMarket`, `SetMarketCoordinator`, `AuthorizeAdditionalMarket` | set-up by adapter and creator |
| `Stake`, `ExitStake` | `stake`, `exitStake`, with `Checkpoint` for `_checkpointMarketFees` |
| `DepositMarketFee` | `depositMarketFee` |
| `ProposeEarlyTermination`, `ProcessEarlyTermination` | with the module's `propose` and `consume` |
| `Finalize`, `CancelUnlaunched` | with `SnapshotSettlement` for `_snapshotSettlement` |
| `Withdraw`, `ClaimMarketFeesFor` | the user's claims, one after the other or alone |
| `ClaimEarlyTerminationBond`, `ClaimEmptySettlement`, `ClaimOfficialMarketFees`, `FlushOfficialPayments`, `ClaimSurplus` | the other payments; a flush may fail for either recipient |
| `MarketGraduates`, `Gift`, `Tick` | the environment: the market, a plain token transfer, time |

`_assertVaultSolvent` is not a guard: it is the invariant `VaultSolvent`, which is proved
(`Solvency`): the assertion never bricks the vault.

`OCPCoreHistory` adds three variables that watch and restrict nothing: `earned` counts each
user's fees directly, fee by fee, while the code keeps a running index, a remainder and a pending
amount; `deadlineVotes` photographs the vote at the instant that should decide (the end of a
request's window, or the resolution time), while the code reads the vote at processing;
`uninvited` counts tokens that came by plain transfer.

### 3.2 Runs

| run | instance | what it shows |
|---|---|---|
| `core_fees` | 3 users, stakes 1 and 2, fees of 1, `Precision` 4, resolution at 1, no bond | join, add, leave and return between fees, then claims in every order: `FeeHistoryIsExact`, `NoClaimRefused`, `FeeClaimsPayTheEarnings`, `WithdrawalsPayTheShare`, `TypeOK` |
| `core_early` | 2 users, stakes 1 and 2, bond 1, window 1, resolution at 3, fair | requests one after the other, processed in time, late, or only by the regular end: `EscrowBacksRequest`, `VotesFrozenWhileDue`, `SettlementIsFinal`, `TopicSettles`, `StakersArePaid` |
| `core_setup` | the same from the constructor, with and without module and permissionless creator, one additional market, gifts | unlaunched, cancelled and late topics, early ends, refused official payments, surplus: `VaultIsExact`, `OutcomeIsTheVoteAtTheDeadline` |

Bounds. `Supply` (4 to 6 tokens) bounds every inflow and makes the state space finite. Six tokens
give three stakers positions of different size and three fees between them. `Precision` (1e30 in
the code) is 2 or 4, so that an index really loses a fraction: with three tokens at stake, one
token of fee does not divide. Three users give every shape of a vote, a tie, a strict majority, a
plurality without majority. A resolution at 3 with a window of 1 leaves room for a request that
fits, one that ends exactly at the resolution (and is refused), and a second after a failed one.
The other two runs start where the adapter's `bind` and the graduation leave the vault
(`LaunchedInit`), since nothing but set-up happens before; `core_setup` starts at the constructor.
Users are interchangeable, hence `SYMMETRY`, except in the run with liveness, where it would not be
sound. A settled and emptied vault stops, so deadlock is not checked.

Fairness (`core_early`): time passes; somebody calls the permissionless `processEarlyTermination`
and `finalize` once they are possible, which is what the keeper and every staker have a motive to
do; each user comes for his stake and his bond; the official recipients are called for. All of it
is weak fairness: each action stays enabled until it is taken or made void.

### 3.3 What is proved

`OCPCoreProofs` has three parts. All are proved from the assumptions named in `OCPCore`
(`UsersAssumption`, `AmountsAssumption`, `TimeAssumption`, `PrecisionAssumption`,
`MarketAssumption`), for any number of users, any amounts, times, window, bond and precision. The
first is about the vault alone:

* `TypeCorrect`: every ledger keeps its type; the code's unsigned subtractions never underflow.
* `Solvency`: the balance covers the recorded debts, before and after the settlement, so
  `_assertVaultSolvent` never reverts.
* `EscrowCorrect`: the Core's escrow and the module's request agree; nothing settles over a request.
* `FrozenWhileDue`, `FinalSettlement`: the two action properties.

The first three are proved together, as one inductive invariant `IInv == TypeOK /\ IndexBehind /\
VaultSolvent /\ EscrowBacksRequest`. None is inductive alone: a debt moves only between typed
ledgers; a failed request moves its bond from escrow to a pool, which keeps the sum only if the
escrow is the bond; and a checkpoint credits a non-negative amount only because no user's index is
ahead of its book (`IndexBehind`). The proof has one step per action, each resting on a lemma of
its own, and lemmas for what a checkpoint credits, what a penalty is at most, and what a snapshot
splits.

The second part compares the vault with what happened to it (`OCPCoreHistory`). Every observed step
is a step of the vault, so `IInv` holds throughout, and each theorem adds an invariant of its own:

* `BalanceIsExact` (`VaultIsExact`): the balance is the recorded debts plus the uninvited tokens,
  to the unit. A step moves tokens and debts together, or settles, which owes out all there is, or
  is the surplus, which leaves a vault that owes nothing (`Together`, `Settles`, `Empties`).
* `FeeHistoryExact` (`FeeHistoryIsExact`): the lazy ledger with its kept fractions is, to the last
  fraction, what the user's stake earned fee by fee. `EarnedInv` says that what is observed is what
  the ledger would show if it were brought up to date (`Booked`: pending tokens, kept fraction, and
  the stake times the distance of his index to the book's), and nothing for one without a stake. A
  checkpoint moves amounts between these three; a deposit widens the distance as the observation
  grows.
* `OutcomeAtTheDeadline` (`OutcomeIsTheVoteAtTheDeadline`): the result is the vote at the instant
  that decides, however late somebody processes it. `OutcomeInv` says that from the deadline until
  somebody settles the votes are those of the photograph (`VoteKept`), which the freeze of a due
  request and the cut-off of staking preserve, and that an early end is told from none
  (`RequestAhead`, `NotEndedEarly`).

The third part proves what a claim pays. It depends on what all the others left in the
pools, so the invariants are about sums over all users, and each was first checked by TLC on the
instance of `core_fees`:

* `VotesCounted`: a position is on one side; totals and counters are the sums of the positions.
* `FeesBacked`: what a book still promises its stakers and leavers, whatever is rounded, is never
  more than was distributed to it.
* `ClaimsKept`: each pool of a settled vault covers the shares of those who have not claimed, and
  each counter counts them. A share is rounded down from the pool that remains, so it never exceeds
  its part, and the last claimant's part is all of the pool.

From these follow `ClaimsAreServed` (`NoClaimRefused`), `SharesArePaid` (`WithdrawalsPayTheShare`)
and `EarningsArePaid` (`FeeClaimsPayTheEarnings`).

`SumLemmas` has the laws of `SumFunctionOnSet` that these need: how a sum changes with one term,
with two functions added, with a scale; that a term is at most the sum; that rounded shares of an
amount add up to no more than it. The fold is defined by recursion over a finite set. Induction as
a theorem about every predicate is out of the prover's reach; `SubsetInduction` has it for a set
`Q` of subsets instead (if a subset is in `Q` whenever all its strict subsets are, all subsets
are), which each law instantiates with the subsets it holds for; a smallest counterexample proves
it. The library defines the fold by a CHOOSE of a recursive function, so that function is first
shown to exist (`RecExists`). That sums are over finitely many users is `UsersAssumption`.

Model-checked only: liveness (`TopicSettles`, `StakersArePaid`).

## 4. The market: `TopicMarket`, `MCTopicMarket`

### 4.1 State and actions

Again one variable per field and one action per external function.

| action | function |
|---|---|
| `GenesisBuy`, `GenesisSell` | the quadratic curve, with its fees to creator and protocol; a buy that reaches the target graduates in the same step (`Graduate`) |
| `FormalBuy`, `FormalSell`, `RedeemPairs` | the logarithmic market maker; each trade splits its fee between LP, vault and protocol, and keeps the rounding as dust (`AccrueFormal`) |
| `MaterializeLP`, `TransferLP` | a right leaves the market's escrow and becomes a token, which can be transferred |
| `CloseGenesis`, `CloseFormal`, `Finalize` | the phases; `Finalize` splits the cash into two budgets |
| `ClaimOutcome`, `ClaimLP`, `ClaimFailed`, `ClaimAllSettled` | the payments |
| `FlushFees`, `ClaimFees`, `CollectDust` | payments to the fixed recipients, each of which may fail and is then restored as a debt |
| `CoreFallsDue`, `CoreRefuses`, `CoreResolves` | what the vault answers through the adapter |
| `Gift`, `Tick` | a plain transfer, time |

The curve is computed as in `TopicMarketMath`: rounded supply, rounded gross, cost, guard,
fees inside and outside the price. The one thing taken from outside is the logarithm of the
fixed-point library, the constant operator `LnOnePlusExp`. `_assertOutcomeSolvency` is, as in the
vault, part of an invariant (`OutcomesBacked`) and not a guard.

Left out are refusals that only protect the caller from himself (slippage limits, expiry, the
intent to graduate), the trusted forwarder, legacy fields that nothing writes, and LP tokens that
are sent to an address outside `Users`: the market's own, or one that nobody has the key of. The
claims of such tokens are never made, so `liquiditySupply` stays above zero and `collectDust` stays
shut; `MarketEmpties` is about a market whose LP tokens belong to people who claim.

### 4.2 Runs

| run | instance | what it shows |
|---|---|---|
| `market_claims` | 2 users, trades of 1201 units, pairs of 600, LP portions of 7, at most 4 trades | trades and redemptions while the vault falls due, resumes, resolves; then materialize, transfer, claim in portions and in every order: `OutcomesBacked`, `BooksCoverBalance`, `BudgetsKeepTheirShare`, `NoExitRefused`, `TradingStopsWithTheVault`, `TypeOK` |
| `market_live` | 2 users, payments 700 and 1000, sales of 13 shares, target 1980, one formal trade, gifts of 2500, fair | buys and sells up to the exact target, graduation, or failure and refunds, to the last claim: `CurveBacked`, `EverybodyIsPaid`, `MarketEmpties` |

Bounds. The scale of outcome units is 2 per unit of collateral and amounts are odd, so every
conversion rounds; 700 and 1000 leave remainders in the curve's square root. Two buys graduate, in
`market_live` exactly at the target. The logarithm is a series in thousandths (`MCLnOnePlusExp`).
`MaxTrades` bounds the counters that could otherwise grow for ever (buy and sell again); claims,
transfers, retries and phases are not bounded by it. The market starts three hours before the
vault's end because it reads the clock only at its cut-offs, one and two hours before the end, so
no earlier instant differs. `SYMMETRY` and the absence of a deadlock check are as above.

Fairness (`market_live`): time passes, somebody closes, the vault resolves, somebody finalizes and
calls `collectDust` once recipients accept; all weak. Each holder's own claim (`claimAll`) is
strong: others may transfer LP tokens to and from him, which interrupts the claim without
preventing it.

### 4.3 What is proved

`TopicMarketProofs`, from `UsersAssumption`, `AmountsAssumption`, `TimeAssumption`,
`CurveAssumption` and `LnAssumption`, for every curve, scale, depth, guard and number of holders:
`TypeCorrect`, `CurveAlwaysBacked`, `GraduatesAtTarget`, `CostAlwaysCovered`,
`OutcomesAlwaysBacked`, `BudgetsAlwaysKeepTheirShare`, `BooksAlwaysCovered`, `TradingStops`,
`ExitsAreServed`.
`CashCoversCost`, which `CostAlwaysCovered` states, is proved and not among the runs: on an instance
`OutcomesBacked` shows what follows from it.

Of the logarithm only two facts are assumed: it returns natural numbers, and ln 2 < 1. The
argument: `CashCoversCost` says that the cash is at least the cost of the outcomes in circulation,
less the initial cost, plus the depth. A buy pays the increase of the cost rounded up, a sale
receives the decrease rounded down, a pair redemption moves both by the same amount, so it is
preserved whatever the logarithm is; the cost is never below the larger side's supply, and the
initial cost is at most the depth, so the winners are covered. A budget's share needs one
division lemma: a claim paid by rounding down leaves the rest at least its proportion. `Dormant`
says which books a phase leaves empty, without which a transition could carry an old amount
into a new budget. The inductive invariant is the conjunction of these with the types.

`ExitsAreServed` states `NoExitRefused`: a holder who sells, redeems pairs, takes out his LP rights
or claims, all or a part, meets no subtraction that reverts. The guards of the claims that are
subtractions have names of their own for this (`OutcomePayable`, `LPPayable`, `FailedPayable`); a
sale too small to pay anything (`GenesisGross` zero, `SellRaw` within the guard) is refused by the
code, and is not such a subtraction. The theorem needs that nobody holds more than there is, which
no single book says: `Counted` adds to the invariant that the supplies are the sums of what the
users hold, LP rights kept by the market and LP tokens in circulation together, and that claims
only take from the supply that a budget is divided by. The sums are over all users (`SumLemmas`,
section 3.3), and each action changes one term, a transfer two.

Model-checked only: liveness (`EverybodyIsPaid`, `MarketEmpties`).

## 5. The paper trading server: `PaperEngine`, `PaperLedger`, `PaperStore`, `MCPaperStore`

### 5.1 State and actions

`PaperEngine` has the pure operations: what one order does to a market document and a wallet, and
the rows it leaves. `PaperLedger` states what the server promises: one order at a time, each
request id at most once, one grant per user. `PaperStore` is the server: browser tabs, attempts,
connections, rows and row locks.

An attempt (`Slots`) is one POST. `pc` names the statement it runs next; it runs two
transactions, `ensureUser` and then `mutate` or `createShareSnapshot`. A statement that may wait
is an action; the writes of a transaction are one action at its COMMIT, as nobody else sees them
before. What they are made of was read earlier and is kept in `balance`, `document` and `update`,
so a read that is stale when it is written would show.

| action | code |
|---|---|
| `Login`, `Open` | `pool.connect` of the two transactions |
| `Upsert`, `LoggedIn`, `LoginUnheard` | the user's row, the grant, COMMIT (heard or not) |
| `LockWallet`, `LockMarket` | `SELECT ... FOR UPDATE` of `mutate` and `createShareSnapshot` |
| `Replay`, `Lookup` | the request id was used, or not |
| `ExecuteCreate`, `Execute` | the callback of `http.ts`: revision, engine, new wallet |
| `Commit` | the four writes and COMMIT |
| `ReplayShare`, `Share`, `InsertShare` | `createShareSnapshot`; the insert's foreign key waits for whoever has locked the market |
| `Fail` | a statement, a connection or the process fails: rollback, release |
| `NewOrder`, `Retry`, `Gone` | the tab sends, sends again what it did not hear, loses the connection while the attempt goes on |
| `DeadlinePasses`, `MinutePasses` | time |

A COMMIT may succeed and be reported as an error (`EndCommitted`). The document is reduced to
what the store's properties tell apart: open or closed by its deadline (a computed change that
counts as a revision), a cash balance, what each player holds, and the dust, the fraction
of a micro dollar that the engine keeps for the player when it rounds his wallet down.
A sale or claim returns what was paid less one unit. What is inside a document is `PaperMarket`,
which runs beside the pages (section 7).

### 5.2 Runs

| run | instance | what it shows |
|---|---|---|
| `paper_first` | one new user, two tabs, a pool of one connection, from empty tables | two first logins, creation and purchases: `TypeOK`, `RefinesLedger` |
| `paper_wallet` | one user, two tabs, two markets, two request ids, a quota of one snapshot; buy, sell, claim, share | one wallet in two markets, retries, and one id with two bodies: `JournalExplains`, `MoneyConserved`, `AnswersAreKept`, `SnapshotQuota`, `DoneIsNotRefused` |
| `paper_live` | two users in one market, two connections, purchases and snapshots, fair | every committed order acted on the revision it named, and nobody waits for ever: `RefinesLedgerSteps`, `EveryOrderIsAnswered` |

Bounds. Two attempts at a time (`Slots`): every conflict of this server is between two. Each tab
sends `MaxOrders` orders (1 or 2) of the kinds in `ClientOps`, and retries without bound. The grant
is 2 micro dollars, a purchase 1, and `Fine` is 2, so every wallet returned by the engine leaves a
fraction. The runs but the first start in `OpenedInit`: everybody has his grant, each market has
been created under an id of the past. Attempts are interchangeable, and so are tabs of one owner
and the ids that are not used at the start: `SYMMETRY` in the runs without liveness. When all
orders are sent the system stops, so deadlock is not checked.

Fairness (`paper_live`): an attempt's own steps are weakly fair, since the server runs them. Steps
that wait for a connection or a row are strongly fair: the pool and Postgres serve waiters in the
order in which they came, so nobody who waits is passed over for ever. Clients need not retry, and
nothing that fails is required to succeed.

### 5.3 What is proved

`PaperStoreProofs`, from the assumptions named in `PaperEngine` and `PaperStore`, for any number
of users, tabs, attempts, connections, markets and request ids:

* `TypeCorrect`: types, wallets never negative, the pool never exceeded.
* `Refinement`: `Spec => RefinesLedger`. A grant, a COMMIT and a deadline are steps of the ledger,
  everything else is a stutter.
* `JournalAlwaysExplains`: from the refinement, since only those steps touch the journal.

A COMMIT writes what was computed many steps before; it is a step of the ledger only if nothing
has changed since. The inductive invariant says why: `LockedReadsAreCurrent` (what an attempt
read under a lock is still the row), `CommitReady` (how the buffered writes follow from what was
read), `DistinctMarkets` (two concurrent creations have two ids) and `OrdersSendable` (an order
once sent stays meaningful, however often it is sent again). The proof shows for each
action what it leaves alone (`Alone`, `Growing`, `Untouched`): a row that another attempt has
locked is not written.

* `MoneyAlwaysConserved` (`MoneyConserved`): also argued on the ledger's steps. What one order
  moves is exact (`TradeIsExact`: what leaves the wallet is in the market's cash or in the dust,
  however it is rounded), an order touches one wallet and one market, and the sums over all of them
  follow from `SumLemmas`. `FiniteAssumption`, which this needs, says that users and markets are
  finitely many, as rows of tables are.
* `AnswersAlwaysKept` (`AnswersAreKept`): a tab that heard success holds the stored answer of its
  own order. `TabsTied` says that the attempt a tab waits for has the tab's order, also when one id
  was sent with two bodies; `AnswersAreKept` itself, that what a tab was told is in the row of that
  order, is then inductive.
* `QuotaAlwaysKept` (`SnapshotQuota`) and `DoneNeverRefused` (`DoneIsNotRefused`): between the
  count or the lookup and the insert other attempts run, but only of other wallets. `StillInQuota`
  and `StillNew` say that what was counted, or found new, under the lock of the wallet is still so
  until the attempt ends.

Model-checked only: `RefinesLedgerSteps` (which starts in `OpenedInit`) and liveness
(`EveryOrderIsAnswered`). Fresh market ids are assumed distinct, as `randomUUID` makes them.

## 6. The administration page: `AdminPage`, `MCAdminPage`

### 6.1 State and actions

The owner creates a topic and its market in one irreversible transaction. The page writes a record
(`record`, in local storage) before it asks the wallet, locks itself while the record exists, and
works out from the chain what became of the request. A tab (`tab`) has React state and runs at most
one handler (`run`, a script of awaited steps) beside its recovery (`recovery`); the lock is the
browser's (`navigator.locks`).

| action | code |
|---|---|
| `PrepareReview`, `DropReview`, `CreateAnother` | `prepareReview` and the form |
| `Submit`, `Refused`, `CheckDuplicate`, `AskWallet` | `submitUnderLock`, up to `savePending` and the request to the wallet |
| `HashInTime`, `RejectedInTime`, `WalletTimeout`, `HandlerEnds` | `withWalletTimeout` (60 s) and the two catch blocks |
| `LateHash` | `trackLateWalletHash`: the wallet's answer after the timeout |
| `Retry`, `AskAgain` | `retryPendingWithSameNonce` |
| `RecoverStart`, `RecoverNonces`, `Search`, `RecoverFinds`, `RecoverReplaced`, `RecoverReceipt`, `RecoverEndsLocked` | `recoverPending`: nonces, the search for the transaction of a sender and nonce, the receipt and its verification |
| `ClearRecord` | the button that becomes available when the nonce is taken for good |
| `StorageEvent`, `Reload` | another tab's record; a new page at any step |
| `Mine`, `WalletAnswers`, `UsedElsewhere`, `Finalise`, `Reorg` | the chain, the wallet, the account's other uses |

`AskAgain` takes what `retryPendingWithSameNonce` checks (admin.tsx:1091-1118) together with its
request to the wallet; it has the nonce of the first request, so of
the two at most one is mined, whatever happens in between. For a first creation, which has a nonce
of its own, they are steps of their own (`CheckDuplicate`, `AskWallet`).

Nodes lag: every read of a nonce or of a receipt may see any past state that its question allows
(`SaidFree`, `SaidTaken`, `SaidFinal`, `PlaceOf`). The two nodes the page compares are one answer.
Two assumptions on time: a recovery ends before finality moves past what its first call saw
(`SaidFinal`), and an answer that is in time (60 s) comes before a transaction of that request is
final (`RejectedInTime`). A check of a receipt's contents is one answer (`Verified`).

### 6.2 Runs

| run | instance | what it shows |
|---|---|---|
| `admin` | from the start, either one tab alone with two requests to the wallet and two transactions of its account on the chain, or a pair of tabs that follow one request and one transaction | the page never unlocks while something it asked for may still be mined (`UnlockedIsSafe`), no question is created twice (`NoDuplicate`), what a tab shows as created is final (`ResultIsFinal`), and a record whose nonce is taken for good is resolved (`RecordIsResolvedAlone`: one tab, fair) |
| `admin_tabs` | two tabs that may both ask, one mined transaction | a finding (section 6.3) |

Bounds. Two requests are the first attempt and a retry, which may both be open; two transactions on
the chain are a duplicate, or a creation and a cancellation of it. There is one question, since a
duplicate is of one, and one review of it: a second would differ by its deadline. `MCAdminPage`
extends the module and restricts its next-state relation to each of the three cases (`scene`). When
the requests are used up a page may stop, so deadlock is not checked.

Fairness (`admin`): recovery runs every 15 seconds and its calls end (weak); a node that is asked
again and again catches up, so each stage gets an answer that moves it on (strong).
`RecordIsResolved` leaves out `HashLost`: a hash was recorded, and its nonce was taken by another
transaction. `recoverPending` then looks only for that hash's receipt and the page stays locked.
The page's advice to cancel with the same nonce and check again (`admin.tsx:1008`) is given where
no hash was recorded, so this is an observation and not a finding.

### 6.3 Finding

`retryPendingWithSameNonce` takes no lock, while the page says that it holds one across tabs
(`admin.tsx:1499`) and that a late rejection never unlocks an intent (`admin.tsx:437`). In
`admin_tabs` one tab waits for the wallet, another asks again with the same nonce, the first is
rejected in time and removes the record: the page is unlocked and the second request is open in
the wallet. One tab alone, or two tabs with one
request between them, cannot do this (`admin`).

### 6.4 What is proved

`AdminPageProofs`, for any reviews, any number of requests to the wallet and of transactions, any
reloads, reorganisations and late answers:

* `ResultsAreFinal` (`ResultIsFinal`), for any number of tabs: what a tab shows as created is on
  the final chain and stays there. The height a recovery has seen to be final never exceeds the
  final height, and a receipt is believed only at or below it (`PageInv`).
* `UnlockedAloneIsSafe` and `NoDuplicateAlone` (`UnlockedIsSafe`, `NoDuplicate`), for a tab whose
  rivals are never opened (`AloneSpec`). A request is settled when it was rejected or its nonce is
  final. What is not settled is of the record's intent, wherever the handler and the recovery are,
  and an intent that a recovery still follows is the record's, or none of its requests can be mined
  any more. A nonce is used once on a chain, so a creation that is mined excludes every other
  request of its nonce.

All three rest on the two assumptions on time of section 6.1. With a second tab that may also ask,
the latter two are false: `admin_tabs` is the counterexample. For a pair of tabs that follow one
request they are checked by `admin` and not proved. `RecordIsResolvedAlone` is liveness and stays
with TLC.

## 7. The site: `Site` and its machines

### 7.1 Composition

The pages and the functions that serve them share nothing but the chain, of which each machine
models its own part. `Site` puts them side by side: the initial state chooses a `scene`, all
further steps are of that scene's machine, and variables of the same role (`page`, `run`, `acts`,
...) are used by the machine that is on. What the server keeps between requests, the index and a
paper market, is in `SiteServer`, which `Site` extends. `SiteAssumption` and `PaperAssumption` are
what the machines assume of their constants; `MCSite` gives them values.

| scene | module | the code's asynchrony | what may happen at any time |
|---|---|---|---|
| `trade` | `TradePage` | directory, market and cache are read in parallel, a poll repeats them, a quote waits, a trade, a stake or a proposal is validate, approve, validate, allowance, validate, execute; any other action (claims, exits, materialization, fees, settlement, the creation of a market) is validate, execute | the user goes back, edits, changes the account; reads fail; quotes, and the 90 seconds of a stake, expire |
| `create` | `CreatePage` | `verifyX` reads, signs, asks the service; `create` sends and waits | form, wallet and the factory's configuration change |
| `vault` | `VaultPage` | two-stage reads that overlap, a 250 ms timer and a quote, scripts of wallet calls, each followed by a new read | amount, mode, tab, wallet change; others trade, leave, resolve; the deadline passes |
| `genesis` | `GenesisPanel` | snapshots overlap; quote of the form, quote of the click, approval, transaction, refresh | others trade, Genesis ends, the form or the wallet changes |
| `explore` | `ExploreList` | fetches overlap; each vault is replaced by a default when it fails | vaults are created and resolved; time passes |
| `paper` | `PaperMarket` | none: an order is a pure function; what varies is the order of orders and how many deadlines pass between two | players buy, sell, redeem, stake, leave, ask for an early end, claim; an hour passes |
| `wallet` | `WalletHook` | the page's start, the wallet's events and a click each begin a handler of several requests, and they overlap | the wallet's account or network changes, a request fails, the user connects or disconnects |
| `search` | `BlockSearch` | one header read after the other | none: the chain's timestamps stall, jump and have gaps |
| `share` | `ShareSnapshot` | batched calls at one block and their single fallbacks, for three kinds of answers | the chain grows, the vault is finalised, any call fails |
| `queue` | `HistoryReadQueue` | jobs shared by subscribers, two priorities, a limit | charts ask, upgrade and cancel |
| `history` | `ChainHistory` on `PriceHistory` | claim two leases, read the head, check the base, scan, confirm, save, release: one step per statement or call | blocks are mined and replaced, leases run out early, nodes fail, instances stop |

Each module's comments name what it abstracts. Contracts that are not in this repository (the
zero-capital Genesis, the factory that checks credentials) are modelled from how the pages
call them; the Genesis curve from its replay in `genesisShareQuote.ts`.

`PaperMarket` has one action per order of `execute` in `engine.ts`. Every order acts on `Now`, the
document brought up to the time of the order (`advancePaperMarket`: Genesis may expire, trading
halt and the vault settle at once), and stores the result. `topicMarketAssertLedger`, which ends
every order, is no guard but the invariant. Money is whole units and parts are rounded down, where
the code has floats; `Eps` stands for its `EPS` and covers the rounding: `PaperMarketAssumption`
asks for as many units as the orders of a run can round away, so the smaller the units, the closer
to the code. The bisection for a budget is the greatest lot that the budget affords, and the
logarithm is the constant operator `Slack`. `Init` has markets in which orders were given before;
`StartsAreReached` says that these orders are legal for the constants at hand, and TLC evaluates it.

`WalletHook` assumes that the wallet's answers and events reach the page in the order in which it
sent them, so a read is of the wallet that the page's events have told of. The accounts of a local
test chain, for development only, are left out.

### 7.2 Properties

* `ShownIsTrue` is one promise with a part for each machine. A view that calls itself live is of
  the market and account on the page (`LiveViewIsOfThePage`); a creation sends what its credential
  attests (`SentAsAttested`); a quote that is no longer being computed is for the form
  (`QuoteIsForTheForm`) and `withdraw` pays the account that was read for at least
  the amount called withdrawable, whatever others have claimed since the read, and exactly that if
  nobody has (`ShownPayoutIsPaid`); the bisected budget is the least that buys the
  shares (`BudgetIsLeast`); cards of the list and of a shared link are true of the vault
  (`CardsAreTrue`, `CachedIsTrue`); the queue leaves a slot for what the user looks at
  (`ForegroundIsServed`); once the wallet's handlers have ended the signer is of its account and on
  the target network (`AtRestItIsTheWallets`); and the search never gives up and returns just the
  blocks of the creation's timestamp (`RangeIsExact`).
* `PaperBookHolds`: the assertion over the book of a paper market holds for every document that a
  reader sees now or at the deadlines, and each budget of the settlement is what players may still
  claim, in whatever order they do.
* `NothingStaleIsSigned`: the wallet is asked for a trade, a stake or a proposal only for the market
  and the account shown at that moment; for any other action of the market page only in the name of
  the account that is shown and selected in the wallet (section 7.4 says why no more); and a Genesis
  purchase gives the shares of the form or nothing.
* `EveryChartIsAnswered`, under fairness: no chart waits for ever.
* `RefinesIndex`: `ChainHistory` implements `HistoryIndex` (`INSTANCE ... WITH stored <-
  row.checkpoint`). `HistoryIndex` is one register that holds nothing, or exactly what the market
  logged up to one block; it is dropped, or grows along its own chain.
* `IndexIsComplete`, under fairness: once the chain rests, the register is at its head.

### 7.3 Runs and bounds

`site` checks all six over all scenes; `create_switch` is a finding.

| scene | bounds |
|---|---|
| `trade` | 2 markets, 2 accounts, 4 acts of the user |
| `create` | 2 accounts, 2 contents of the form, 6 acts |
| `vault` | 2 accounts, 3 acts, 2 reads in flight, amounts none, 0 and 1, prices 100 and 102; four topics: late with two stakers; open with shares; of another factory; resolved INVALID with shares, a pool that has lost penalties and two claimants; those with shares open on the market's tab |
| `genesis` | threshold 30, virtual reserves 20 and 40, purchases of 1 and 9 shares, other people's payments 12 and 31 (the second ends Genesis), 2 acts |
| `explore` | one vault, two fetches, deadlines up to 2 |
| `paper` | two players, one of them the creator; three orders (or hours) from each of: a new market, one that has just graduated, one with stakes of every side and shares, the same with a request under way; one size of each kind of order; five hours in all |
| `wallet` | 2 accounts, 2 networks, 4 acts, three handlers at once |
| `search` | every chain of up to 7 blocks with timestamps 1, 2, 4, 9, every creation time in between, a sample 3 blocks below the head, 4 rounds |
| `share` | blocks up to 3, two requests |
| `queue` | three charts, three keys, two slots, 5 acts |
| `history` | two instances, height 2, one block per synchronisation, two faults of any kind |

Two of anything that races are enough for each of the races: an old and a new market, account, read
or lease holder. In `history` two faults allow a lease to run out under its holder and a
reorganisation beside it, and two heights a base and what follows; more faults repeat these. In
`paper` the start states are products of earlier orders, so three more reach every claim, and
`LedgerHolds` looks at each document also as the deadlines will make it. In `search` four rounds
for seven blocks are, as the code's 64 for less than 2^53, one more than the doublings it takes
(`BlockSearchAssumption`). In `queue` three jobs on two slots leave one waiting, so that it can be
upgraded, shared or dropped. When a user has no acts left a page may stop, so deadlock is not
checked.

Fairness: a read of the queue ends (the reader has timeouts), weakly fair per key. Each instance is
weakly fair: requests for a history keep coming and awaits end. Expiry of a lease is strongly fair:
it is a date that no holder extends, and comes in each of the lives of a lease. The model's faults
are bounded, which is how "once the chain rests" is stated.

### 7.4 Finding and observations

Finding (`create_switch`, `CredentialIsOfTheWallet`): `verifyX` installs the credential when the
service answers, whatever account is connected by then. The comment at `permissionless.tsx:302`
says that an old credential must disappear from the page when the account changes. The factory
refuses a creation with a credential of another creator, so the fault is of the page alone.

Observations, none of them against a statement in the repository:

* `TestnetMarketApp`: only `submitSide` and `submitEarlyProposal` bind what they sign to the form
  and the market of the click (`actionGuard`). Claims, exits, materialization, fees and settlement
  pass `liveGuard` (line 247), which asks that the market the page shows now has been read,
  whichever it is, and the browser's back button (line 118) works while they are pending. A user
  who claims on one market and goes back to another while the request is prepared is asked to sign
  for the first when the second is on the page. The funds go where they would have gone; the
  document on these guards, `validation/2026-11-02-one-click-approval.md`, promises the binding for
  trades, stakes and proposals alone, so this is no finding.
* `ExploreView`: a vault whose read failed has the default resolution time 0 and is listed as one
  whose staking is over. `CardsAreTrue` says nothing of the figures of a failed read.
* `_lib/vaultSnapshot.ts:244`: the outcome is allowed to be missing and is then 0, which the share
  page (`api/vault-share.ts:67`) labels INVALID and which is cached for a year. The result card
  refuses such an answer; `CachedIsTrue` is about what is said of being resolved, and about the
  result card.
* `ZeroCapitalGenesis`: the purchase binds the shares, not the cost that was shown; the price may
  move up to the budget the click's own quote found.
* `ZeroCapitalGenesis.tsx:73`: a refresh started for an old wallet is not cancelled and may answer
  last, until the next refresh.
* `useWallet.ts`: a synchronisation that fails clears the network (line 83) beside a signer that
  another one has just set; the page then asks to switch to the network it is on.
  `AtRestItIsTheWallets` allows it.
* `useWallet.ts`: a handler that is under way when the user disconnects connects again.

### 7.5 What is proved

**The index.** `SiteServerProofs`, for any instances, bounds of a scan, heights and faults, from
`ChainHistoryAssumption`: `Refinement` (`RefinesIndex`), the row of a market implements
`HistoryIndex`, and `HistoryInvariant`, the invariant it rests on.

A synchronisation reads a chain that may be replaced between two reads, so what it holds may be of
no chain at all. A replaced block is of a fork that no earlier hash has, so a hash that has left
the chain has left it for good (`Diverged`); each hash that a node gave is on the chain or diverged
(`Known`). If the end that is read up to has diverged, `Confirm` refuses; if it has not, the chain
was one branch up to it at every read, and nothing was missed (`NoneIsMissed`). The lease does the
rest: its holder continues the checkpoint that is in the row, because nobody else saved since, and
one who lost it writes nothing.

**The pages.** `SitePagesProofs` and `SiteProofs`, for any finite set of accounts, any markets,
amounts, times, keys, blocks and acts that meet `SiteAssumption`: `ShownIsTrueTheorem`
(`ShownIsTrue`), `NothingStaleIsSignedTheorem` (`NothingStaleIsSigned`) and the invariant they rest
on, `SiteInvariance`. `SiteAssumption` has what the machines take for granted (a topic is well
formed, and of a resolved one the claims count those who may still claim and what is left covers
their shares; prices are positive, the rounds of the search double past the longest chain) and says
that there are finitely many accounts, which the sums over stakers need.

A scene is never left (`SiteInvariance` begins with that), so the inductive invariant is one part
per scene, and a step of another machine leaves a scene's part alone. Each part is the property
strengthened by what holds while something is under way:

* trade: what is read and shown is of an identity (market and account); a trade, stake or proposal
  whose key is still the page's is of the identity on the page; and any action whose wallet epoch is
  still the page's is of an account that the wallet has had selected since (`TradeInv`).
* create: the hash on the page is that of what its credential attests, and the handler has taken
  both from the page at one moment (`HashIsAttested`).
* vault: a quote that runs is for the form as it is, since every edit drops it (`QuoteHolds`). The
  figures of a resolved topic are those of every read of it, at whatever time, because nothing that
  `withdraw` divides by changes any more, but for the number of claims, which falls, and what is
  left of the pool (`Figures`, `Kept`). What is left covers the shares of all who may still claim
  (`Sound`, kept by each claim), so the last claimant, who is paid what is left, is paid his share
  at least: that takes sums over stakers and over parts of them (`SumLemmas`).
* genesis: the curve keeps its reserve and the payments that made it (`CurveHolds`) and is monotone,
  so each round of the bisection keeps "the lower end does not buy the shares, the upper end does"
  (`BudgetIsLeast`); a purchase that has been quoted asks for the shares of the form.
* explore: what was read of a vault is true of it, in every fetch under way and on the page: a
  deadline never moves and an outcome stays (`CardIsTrue`).
* share: what a request has read bears on its block, and no block that was read is finalised
  afterwards (`RequestIsTrue`, `CacheIsTrue`).
* queue: jobs that wait are known, once, and do not run; at most one background job runs; and if
  one of the foreground waits every slot is taken (`Sound`, `Served`). `Pump` is a loop, so each
  round of it is shown to keep the first two and the last to reach the third.
* wallet: a signer that is not the wallet's is still to be replaced by a handler under way, and so
  is a network that the wallet has left (`SignerIsCurrent`, `NetworkIsCurrent`).
* search: the bracket contains the first block at the target, and `Reach` gives how far the
  doubling has gone after each round, so it never gives up (`StepDoubles`, `Brackets`).

**The paper market.** `SiteServerProofs` and `SiteProofs`, for any finite set of players, any
amounts, stakes, deadlines and number of orders, from `PaperAssumption`: `PaperBookInvariance`
(`LedgerHolds` of `PaperMarket` by itself) and `PaperBookHoldsTheorem` (`PaperBookHolds` of the
site). Both have one hypothesis on the logarithm, `SlackIsBounded`: `b ln(1 + e^(-d/b))` is between
0 and `b`, for which ln 2 < 1 is enough. It is about all numbers, so it is a hypothesis and no
`ASSUME` that TLC would have to enumerate; `MCSlack` meets it, being at most 0.69 b.

The assertion compares sums of money that were rounded order by order, so it is not inductive. The
invariant counts the roundings: a document is `Good` after `n` orders when

* of the money the players began with, no more than `3 n` units are missing from purses, vault,
  trading and escrow less debts, and none was added (`MoneyIsKept`);
* in Genesis the reserve lies on the parabola but for `n` units (`OnParabola`), and afterwards the
  cash is exactly what the market maker asks to hold (`OnCurve`);
* the pool of each outcome is the sum of its stakes and, whatever the outcome will be, the fees of
  the vault are the rewards credited for it, but for `N n` units (`VaultAdds`, `N` players): the
  settlement can give every reward;
* once it is settled or failed, each budget covers what may still be claimed from it and exceeds it
  by `N` units at most, and the vault's budget is that exactly (`OwedIsKept`).

Each order is shown to keep this with one more rounding, and so is each deadline that an order
finds to have passed; a settlement turns the first three into the last, for which it takes the `2 N`
units of its own divisions (`N` players). A `Good` document passes the assertion when `Eps` is
at least `(3 + N) n + 2 N`, which is what `PaperMarketAssumption` says of it (and of `K`, that a
single share is worth more than all the roundings). The start markets are
products of at most four orders, so `BookInv` is `Good` with `n` four more than the orders given.

Model-checked only are `IndexIsComplete` and `EveryChartIsAnswered`, which are liveness. `MCSite`
extends `Site`, and with it `ChainHistory`, so the run checks the very properties that are proved.

## 8. Conventions

A definition named `X_Something` is the definition `X` with one plausible mistake (a strict
comparison made weak, a missing reset, a rounding the other way). No specification uses it; it is
there so that each property can be seen to fail when `X` is replaced by it.

`MC*` modules hold only what an instance needs: start states, bounds, symmetry. The `.cfg` files
are named after the component and the question. Each proof module extends the module it is about.

Numbers are unbounded in all modules. The contracts use 256-bit checked arithmetic, so an overflow
reverts; token supplies and the contracts' own limits keep every product far below that width.
Integer widths therefore do not appear, while every comparison that guards a subtraction does.

## 9. Not modelled

* Exchanges, price snapshots, deployers: stateless wrappers and creation bytecode.
* Asset router and stock factory: one transaction each, which the EVM undoes as a whole; what may
  go wrong in the router is the arithmetic of third-party exchanges. Factory and adapter appear as
  the pages, the Core and the market meet them.
* The adapter's `finalizeMarket` and `claimFees` as one transaction: they call, in a fixed order,
  actions that `OCPCore` and `TopicMarket` let anybody take one by one in any order.
* Of the paper server: authentication and input checks, which come before the first transaction;
  slippage limits, by which a caller refuses an order of his own; reads that change nothing.
* Of the index: the validation of a query, the cache headers of its answers, and what a row tells
  of freshness.
* Of the pages: layout, wording, formatting, routing, the demos and simulations that only replay
  the mechanism for display (`marketLifecycleModel.ts`, `homepageSimulationModel.ts`; the document
  of `topicMarketDemoModel.ts`, which the paper server keeps, is `PaperMarket`), the decoding of
  contract answers in `chainClient.ts`, the route search of `exchangeQuote.ts`, the accounts of a
  local test chain in `useWallet.ts`.
* The drawing of share cards and the signed market shares of `server/share`, which keep no state.
