--------------------------------- MODULE Site ---------------------------------
(***************************************************************************)
(* The site: its pages in a browser, and the functions that serve them.    *)
(* They share no state but the chain, of which each models its own part,   *)
(* so one run checks them side by side: the initial state chooses a scene, *)
(* the next steps are of the machine of that scene, and a variable that    *)
(* several machines have is used by the one that is on.  The indexer and   *)
(* the market of the paper server come with SiteServer; the others are     *)
(* instances here.                                                         *)
(***************************************************************************)
EXTENDS SiteServer

CONSTANTS
    Markets, TradeActs,                                             \* TradePage
    Contents, CreateActs,                                           \* CreatePage
    Topics, Launches, MarketEnabled, LocalDev, Typed, Blank, Prices,
    MaxReads, VaultActs,                                            \* VaultPage
    Threshold, VirtualQuote, VirtualSupply, CapitalBps, Wanted, Bids,
    GenesisActs,                                                    \* GenesisPanel
    Vaults, NoOutcome, Fetches, MaxTime,                            \* ExploreList
    Networks, Target, Handlers, WalletActs,                         \* WalletHook
    Times, MaxHead, Sample, Rounds,                                 \* BlockSearch
    MaxBlock, MaxRequests,                                          \* ShareSnapshot
    Charts, Keys, NoKey, MaxConcurrent, QueueActs                   \* HistoryReadQueue

VARIABLES scene, page, run,
          injected, read,                             \* TradePage
          epoch, sent, topics,                        \* CreatePage
          wallet, reads,                              \* VaultPage, with chain
          genesis,                                    \* GenesisPanel
          fetches,                                    \* ExploreList, with time
          height, vault, left, request, cached,       \* ShareSnapshot
          wants, jobs                                 \* HistoryReadQueue

Trade   == INSTANCE TradePage WITH None <- Nobody, MaxActs <- TradeActs
Create  == INSTANCE CreatePage WITH None <- Nobody, MaxActs <- CreateActs
Vault   == INSTANCE VaultPage WITH Amounts <- Typed, MaxActs <- VaultActs
Genesis == INSTANCE GenesisPanel WITH None <- Nobody, Amounts <- Wanted, MaxActs <- GenesisActs
Explore == INSTANCE ExploreList
Hook    == INSTANCE WalletHook WITH None <- Nobody, Runs <- Handlers, MaxActs <- WalletActs
Search  == INSTANCE BlockSearch
Share   == INSTANCE ShareSnapshot
Queue   == INSTANCE HistoryReadQueue WITH MaxActs <- QueueActs

ASSUME SiteAssumption ==
    /\ Trade!TradePageAssumption /\ Create!CreatePageAssumption /\ Vault!VaultPageAssumption
    /\ Genesis!GenesisPanelAssumption /\ Explore!ExploreListAssumption
    /\ Hook!WalletHookAssumption /\ Search!BlockSearchAssumption /\ Share!ShareSnapshotAssumption
    /\ Queue!HistoryReadQueueAssumption

-----------------------------------------------------------------------------
acting   == <<acts, page, run>>
trading  == <<injected, read>>
creating == <<epoch, sent, topics>>
reading  == <<wallet, reads>>
listing  == <<time, fetches>>
sharing  == <<height, vault, left, request, cached>>
queueing == <<wants, jobs>>
indexing == <<faults, row, global, sync>>
siteVars == <<scene, acting, trading, creating, chain, reading, genesis, listing, book, sharing, queueing, indexing>>

NotActing   == acts = 0 /\ page = Nobody /\ run = Nobody
NotTrading  == injected = Nobody /\ read = Nobody
NotCreating == epoch = 0 /\ sent = {} /\ topics = {}
NotReading  == wallet = Nobody /\ reads = {}
NotListing  == time = 0 /\ fetches = <<>>
NotSharing  == height = 0 /\ vault = Nobody /\ left = 0 /\ request = Nobody /\ cached = {}
NotQueueing == wants = <<>> /\ jobs = Nobody
NotIndexing ==
    /\ faults = 0 /\ global = Free /\ sync = <<>>
    /\ row = [checkpoint |-> NoCheckpoint, origin |-> NoCheckpoint, lease |-> Free]

SiteInit ==
    \/ /\ scene = "trade" /\ Trade!Init
       /\ NotCreating /\ chain = Nobody /\ NotReading /\ genesis = Nobody /\ NotListing /\ book = Nobody
       /\ NotSharing /\ NotQueueing /\ NotIndexing
    \/ /\ scene = "create" /\ Create!Init
       /\ NotTrading /\ chain = Nobody /\ NotReading /\ genesis = Nobody /\ NotListing /\ book = Nobody
       /\ NotSharing /\ NotQueueing /\ NotIndexing
    \/ /\ scene = "vault" /\ Vault!Init
       /\ NotTrading /\ NotCreating /\ genesis = Nobody /\ NotListing /\ book = Nobody
       /\ NotSharing /\ NotQueueing /\ NotIndexing
    \/ /\ scene = "genesis" /\ Genesis!Init
       /\ NotTrading /\ NotCreating /\ chain = Nobody /\ wallet = Nobody /\ NotListing /\ book = Nobody
       /\ NotSharing /\ NotQueueing /\ NotIndexing
    \/ /\ scene = "explore" /\ Explore!Init
       /\ book = Nobody /\ acts = 0 /\ run = Nobody /\ NotTrading /\ NotCreating /\ NotReading /\ genesis = Nobody
       /\ NotSharing /\ NotQueueing /\ NotIndexing
    \/ /\ scene = "paper" /\ Paper!Init
       /\ page = Nobody /\ run = Nobody /\ fetches = <<>> /\ NotTrading /\ NotCreating
       /\ chain = Nobody /\ NotReading /\ genesis = Nobody
       /\ NotSharing /\ NotQueueing /\ NotIndexing
    \/ /\ scene = "wallet" /\ Hook!Init
       /\ NotTrading /\ NotCreating /\ chain = Nobody /\ reads = {} /\ genesis = Nobody
       /\ NotListing /\ book = Nobody /\ NotSharing /\ NotQueueing /\ NotIndexing
    \/ /\ scene = "search" /\ Search!Init
       /\ acts = 0 /\ page = Nobody /\ NotTrading /\ NotCreating /\ NotReading /\ genesis = Nobody
       /\ NotListing /\ book = Nobody /\ NotSharing /\ NotQueueing /\ NotIndexing
    \/ /\ scene = "share" /\ Share!Init
       /\ NotActing /\ NotTrading /\ NotCreating /\ chain = Nobody /\ NotReading /\ genesis = Nobody
       /\ NotListing /\ book = Nobody /\ NotQueueing /\ NotIndexing
    \/ /\ scene = "queue" /\ Queue!Init
       /\ page = Nobody /\ run = Nobody /\ NotTrading /\ NotCreating /\ chain = Nobody /\ NotReading
       /\ genesis = Nobody /\ NotListing /\ book = Nobody /\ NotSharing /\ NotIndexing
    \/ /\ scene = "history" /\ Init
       /\ NotActing /\ NotTrading /\ NotCreating /\ NotReading /\ genesis = Nobody
       /\ NotListing /\ book = Nobody /\ NotSharing /\ NotQueueing

\* A step of the machine that is on leaves what is not its own.
InTrade(A) ==
    /\ scene = "trade" /\ A
    /\ UNCHANGED <<scene, creating, chain, reading, genesis, listing, book, sharing, queueing, indexing>>
InQueue(A) ==
    /\ scene = "queue" /\ A
    /\ UNCHANGED <<scene, page, run, trading, creating, chain, reading, genesis, listing, book, sharing, indexing>>
InHistory(A) ==
    /\ scene = "history" /\ A
    /\ UNCHANGED <<scene, acting, trading, creating, reading, genesis, listing, book, sharing, queueing>>

SiteNext ==
    \/ InTrade(Trade!Next)
    \/ /\ scene = "create" /\ Create!Next
       /\ UNCHANGED <<scene, trading, chain, reading, genesis, listing, book, sharing, queueing, indexing>>
    \/ /\ scene = "vault" /\ Vault!Next
       /\ UNCHANGED <<scene, trading, creating, genesis, listing, book, sharing, queueing, indexing>>
    \/ /\ scene = "genesis" /\ Genesis!Next
       /\ UNCHANGED <<scene, trading, creating, chain, wallet, listing, book, sharing, queueing, indexing>>
    \/ /\ scene = "explore" /\ Explore!Next
       /\ UNCHANGED <<scene, acts, run, trading, creating, reading, genesis, book, sharing, queueing, indexing>>
    \/ /\ scene = "paper" /\ Paper!Next
       /\ UNCHANGED <<scene, page, run, fetches, trading, creating, chain, reading, genesis, sharing, queueing, indexing>>
    \/ /\ scene = "wallet" /\ Hook!Next
       /\ UNCHANGED <<scene, trading, creating, chain, reads, genesis, listing, book, sharing, queueing, indexing>>
    \/ /\ scene = "search" /\ Search!Next
       /\ UNCHANGED <<scene, acts, page, trading, creating, reading, genesis, listing, book, sharing, queueing, indexing>>
    \/ /\ scene = "share" /\ Share!Next
       /\ UNCHANGED <<scene, acting, trading, creating, chain, reading, genesis, listing, book, queueing, indexing>>
    \/ InQueue(Queue!Next)
    \/ InHistory(Next)

\* Every read of the queue ends, for the reader has timeouts; requests for a history
\* keep coming, the node answers, and leases run out.
Fairness ==
    /\ \A k \in Keys : WF_siteVars(InQueue(Queue!Finish(k)))
    /\ SF_siteVars(InHistory(LeaseRunsOut)) /\ SF_siteVars(InHistory(GlobalRunsOut))
    /\ \A i \in Instances : WF_siteVars(InHistory(Request(i) \/ Step(i)))

SiteSpec == SiteInit /\ [][SiteNext]_siteVars /\ Fairness

-----------------------------------------------------------------------------
\* What the user is asked to sign is what the user saw, although reads, prices,
\* wallets and forms change between the click and the wallet: a trade, a stake or a
\* proposal is for the market and the account on the page, any other action is for that
\* account (its market the page does not compare), a Genesis purchase gives the shares
\* of the form.
NothingStaleIsSigned ==
    [][ /\ scene = "trade" => Trade!AsksAsShown
        /\ scene = "genesis" => Genesis!GivesAsAsked ]_siteVars

\* What a page or a card shows is true of the chain it was read from, whatever answered
\* late, twice, in another order or not at all; what a creation attests is what it sends;
\* and the signer is the wallet's once its handlers have ended.
ShownIsTrue ==
    /\ scene = "trade" => Trade!LiveViewIsOfThePage
    /\ scene = "create" => Create!SentAsAttested
    /\ scene = "vault" => Vault!QuoteIsForTheForm /\ Vault!ShownPayoutIsPaid
    /\ scene = "genesis" => Genesis!BudgetIsLeast
    /\ scene = "explore" => Explore!CardsAreTrue
    /\ scene = "wallet" => Hook!AtRestItIsTheWallets
    /\ scene = "search" => Search!RangeIsExact
    /\ scene = "share" => Share!CachedIsTrue
    /\ scene = "queue" => Queue!ForegroundIsServed

\* The book of a market on the paper server adds up, so its assertion refuses no order,
\* and its budgets are what the players may still claim.
PaperBookHolds == scene = "paper" => Paper!LedgerHolds

\* No chart waits for ever, for a job that was dropped or that nobody will start.
EveryChartIsAnswered == []<>(scene = "queue" => Queue!NobodyWaits)

\* Once the chain rests, requests bring the index to its head.
IndexIsComplete == <>[](scene = "history" => IsComplete)
=============================================================================
