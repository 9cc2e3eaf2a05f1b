------------------------------ MODULE VaultPage ------------------------------
(***************************************************************************)
(* The page of one vault and its market (src/frontend/explore/vault.tsx,   *)
(* VaultPage): what it reads from the chain, the quotes it shows for the   *)
(* amount typed, which buttons it offers, and the handlers behind them.    *)
(*                                                                         *)
(* A handler is a script of awaited calls, so everything else may happen   *)
(* between two of its calls: the wallet changes, other people trade, other *)
(* reads end.  Reads of the chain end in any order, each in two steps, as  *)
(* the topic's figures are read before the user's.                         *)
(*                                                                         *)
(* Abstracted: token units, texts, percentages and the token balances; a   *)
(* call may fail for reasons the page cannot see.  chain is what the       *)
(* contracts hold, as far as the page reads or changes it.                 *)
(***************************************************************************)
EXTENDS Integers, Sequences, FiniteSets, Functions

CONSTANTS Accounts, Nobody,
          Topics,       \* the states of the chain a page may be opened on
          Launches,     \* those launched by a Genesis, which open on the market's tab
          MarketEnabled, LocalDev,
          Amounts,      \* what may be typed: the empty field, zero, a number
          Blank,
          Prices,       \* of one share, in cents
          MaxReads,     \* bound: reads of one page in flight
          MaxActs       \* bound: acts of the user, of others and of time

Sides == {"YES", "NO", "INVALID"}

VARIABLES acts,    \* how many acts are left
          chain,   \* the contracts
          wallet,  \* the connected account, or Nobody
          page,    \* the component's state
          reads,   \* the reads of the topic in flight, in the order they began
          run      \* the handler running, or Idle

vars == <<acts, chain, wallet, page, reads, run>>

NoDetail == [of |-> Nobody, resolved |-> FALSE]
NoQuote  == [amount |-> Blank, mode |-> "BUY", price |-> 0]
Idle     == [op |-> "none", calls |-> <<>>]

Acts == acts > 0 /\ acts' = acts - 1

-----------------------------------------------------------------------------
\* The contracts.

Staked(c, s)   == SumFunctionOnSet(c.stake, {a \in Accounts : c.side[a] = s})
AllStaked(c)   == Staked(c, "YES") + Staked(c, "NO") + Staked(c, "INVALID")
Eligible(c, a) == c.stake[a] > 0 /\ c.outcome \in {"INVALID", c.side[a]}

\* The outcome is the strict majority of the stake; the pool is what was staked.
Settled(c) ==
    LET o == IF 2 * Staked(c, "YES") > AllStaked(c) THEN "YES"
             ELSE IF 2 * Staked(c, "NO") > AllStaked(c) THEN "NO" ELSE "INVALID"
        s == [c EXCEPT !.resolved = TRUE, !.outcome = o]
    IN  [s EXCEPT !.pool = AllStaked(c), !.left = AllStaked(c),
                  !.claims = Cardinality({a \in Accounts : Eligible(s, a)})]

\* A share of the pool in proportion; the last who may claim takes what is left.
Whole(c)    == IF c.outcome = "INVALID" THEN AllStaked(c) ELSE Staked(c, c.outcome)
Share(c, a) == (c.pool * c.stake[a]) \div Whole(c)
Principal(c, a) ==
    IF ~Eligible(c, a) THEN 0 ELSE IF c.claims = 1 THEN c.left ELSE Share(c, a)

CanLeave(c, a) == c.resolved /\ c.stake[a] > 0 /\ a \notin c.claimed
PayoutOf(c, a) == Principal(c, a) + c.fees[a]
Left(c, a) ==
    [c EXCEPT !.claimed = @ \cup {a}, !.left = @ - Principal(c, a),
              !.claims = @ - (IF Eligible(c, a) THEN 1 ELSE 0), !.fees[a] = 0]

\* A settled topic counts who may still claim and has their shares left.
Claimants(c) == {a \in Accounts : Eligible(c, a) /\ a \notin c.claimed}
Sound(c) ==
    IF c.resolved
    THEN /\ c.claims = Cardinality(Claimants(c))
         /\ SumFunctionOnSet([a \in Claimants(c) |-> Share(c, a)], Claimants(c)) <= c.left
    ELSE c.claimed = {}

VaultPageAssumption ==
    /\ IsFiniteSet(Accounts) /\ Nobody \notin Accounts /\ Blank \notin Nat
    /\ Topics \subseteq
          [canonical : BOOLEAN, late : BOOLEAN, resolved : BOOLEAN, outcome : Sides \cup {"PENDING"},
           pool : Nat, left : Nat, claims : Nat, claimed : SUBSET Accounts, price : Nat,
           stake : [Accounts -> Nat], side : [Accounts -> Sides], fees : [Accounts -> Nat],
           shares : [Accounts -> [{"YES", "NO"} -> Nat]], forVault : [Accounts -> Nat],
           forMarket : [Accounts -> Nat]]
    /\ Amounts \subseteq Nat \cup {Blank} /\ Blank \in Amounts
    /\ Launches \subseteq Topics /\ \A c \in Topics : Sound(c)
    /\ Prices \subseteq Nat /\ MarketEnabled \in BOOLEAN /\ LocalDev \in BOOLEAN
    /\ {MaxReads, MaxActs} \subseteq Nat

-----------------------------------------------------------------------------
\* What the page knows and shows.

VaultPhase ==
    IF page.detail = NoDetail THEN "none"
    ELSE IF page.detail.resolved THEN "finalized"
    ELSE IF page.late THEN "ready" ELSE "staking"

IsMarketTab == page.tab = "MARKET" /\ MarketEnabled

\* The amount withdrawable, -1 for "not known".
Withdrawable(d) ==
    LET mine == d.user
        eligible == d.outcome \in {"INVALID", mine.side}
    IN  IF ~d.resolved THEN -1
        ELSE IF mine.stake = 0 \/ mine.left = "yes" THEN 0
        ELSE IF mine.left # "no" THEN -1
        ELSE mine.fees
             + (IF ~eligible THEN 0
                ELSE IF d.claims = 1 THEN d.remaining
                ELSE LET whole == IF d.outcome = "INVALID" THEN d.total ELSE d.staked[d.outcome]
                     IN  IF whole > 0 THEN (d.pool * mine.stake) \div whole ELSE 0)
CanWithdraw == Withdrawable(page.detail) > 0 /\ page.detail.user.left # "yes"

FaucetOffered == wallet # Nobody /\ LocalDev /\ ~page.busy
StakeOffered(s) ==
    /\ ~IsMarketTab /\ VaultPhase = "staking" /\ ~page.busy /\ wallet # Nobody
    /\ page.amount # Blank
    /\ page.detail.user.stake > 0 => page.detail.user.side = s
TradeOffered(s) ==
    /\ IsMarketTab /\ s \in {"YES", "NO"} /\ ~page.detail.resolved /\ ~page.busy
    /\ page.mode = "SELL" => page.detail # NoDetail /\ page.detail.user.shares[s] > 0
HoldsShares == page.detail # NoDetail /\ \E s \in {"YES", "NO"} : page.detail.user.shares[s] > 0
RedeemOffered   == IsMarketTab /\ page.detail.resolved /\ ~page.busy /\ wallet # Nobody /\ HoldsShares
RedeemOfferedToo == ~IsMarketTab /\ VaultPhase = "finalized" /\ MarketEnabled /\ ~page.busy
                    /\ wallet # Nobody /\ HoldsShares
FinalizeOffered == ~IsMarketTab /\ VaultPhase = "ready" /\ ~page.busy /\ wallet # Nobody
WithdrawOffered == ~IsMarketTab /\ VaultPhase = "finalized" /\ ~page.busy /\ wallet # Nobody
                   /\ CanWithdraw
\* The boxes of quotes are there while a quote is held or being read.
QuoteShown == page.quote # NoQuote \/ page.quoteBusy

\* Any change of what a quote depends on drops the read in flight and its
\* timer, and starts the timer again.
Requoted(p) == [p EXCEPT !.timer = TRUE, !.quoting = NoQuote]

-----------------------------------------------------------------------------
\* Reading the topic.

\* fetchDetailState begins.  It reads for the account its closure knows.
ReadBegun(p) == [p EXCEPT !.loading = TRUE, !.loadFailed = FALSE]
NewRead(a, own) == [of |-> a, own |-> own, got |-> NoDetail]

\* The pair's registration, the block, the topic's and the market's figures.
ReadTopic(i) ==
    /\ reads[i].got = NoDetail /\ chain.canonical
    /\ reads' = [reads EXCEPT ![i].got =
          [of |-> reads[i].of, resolved |-> chain.resolved, outcome |-> chain.outcome,
           total |-> AllStaked(chain), staked |-> [s \in Sides |-> Staked(chain, s)],
           pool |-> chain.pool, remaining |-> chain.left, claims |-> chain.claims,
           price |-> chain.price]]
    /\ page' = [page EXCEPT !.late = chain.late]
    /\ UNCHANGED <<acts, chain, wallet, run>>

\* The user's figures, withdraw tried as a call without a transaction; a node
\* that answers something else leaves it unknown whether the user has left.
UserFigures(d, told) ==
    LET a == d.of IN
    IF a = Nobody THEN [stake |-> 0, side |-> "YES", fees |-> 0, left |-> "unknown",
                        shares |-> [s \in {"YES", "NO"} |-> 0]]
    ELSE [stake |-> chain.stake[a], side |-> chain.side[a], shares |-> chain.shares[a],
          fees |-> IF d.resolved THEN chain.fees[a] ELSE 0,
          left |-> IF ~d.resolved \/ chain.stake[a] = 0 \/ ~told THEN "unknown"
                   ELSE IF CanLeave(chain, a) THEN "no"
                   ELSE IF a \in chain.claimed THEN "yes" ELSE "unknown"]

\* The end of a read, and of the handler that waits for it.
Without(i) == [j \in 1..(Len(reads) - 1) |-> reads[IF j < i THEN j ELSE j + 1]]
Ended(p, i) == [p EXCEPT !.loading = FALSE, !.busy = IF reads[i].own THEN FALSE ELSE @]
HandlerAfter(i) == IF reads[i].own THEN Idle ELSE run

Publish(i) == \E told \in BOOLEAN :
    LET g == reads[i].got IN
    /\ g # NoDetail
    /\ page' = Requoted(Ended([page EXCEPT !.detail =
          [of |-> g.of, resolved |-> g.resolved, outcome |-> g.outcome, total |-> g.total,
           staked |-> g.staked, pool |-> g.pool, remaining |-> g.remaining,
           claims |-> g.claims, price |-> g.price, user |-> UserFigures(g, told)]], i))
    /\ reads' = Without(i) /\ run' = HandlerAfter(i)
    /\ UNCHANGED <<acts, chain, wallet>>

ReadFails(i) ==
    /\ page' = Ended([page EXCEPT !.loadFailed = TRUE], i)
    /\ reads' = Without(i) /\ run' = HandlerAfter(i)
    /\ UNCHANGED <<acts, chain, wallet>>

\* The buttons that read again, and the event of the embedded launch panel.
Reload ==
    /\ Len(reads) < MaxReads
    /\ reads' = Append(reads, NewRead(wallet, FALSE))
    /\ page' = ReadBegun(page)
    /\ Acts /\ UNCHANGED <<chain, wallet, run>>

-----------------------------------------------------------------------------
\* The form and the quote.

TypeAmount(a) ==
    /\ a # page.amount
    /\ page' = Requoted([page EXCEPT !.amount = a])
    /\ Acts /\ UNCHANGED <<chain, wallet, reads, run>>

ChooseMode(m) ==
    /\ IsMarketTab /\ ~page.detail.resolved /\ m # page.mode
    /\ page' = Requoted([page EXCEPT !.mode = m])
    /\ Acts /\ UNCHANGED <<chain, wallet, reads, run>>

ChooseTab(t) ==
    /\ MarketEnabled /\ t # page.tab
    /\ page' = [page EXCEPT !.tab = t]
    /\ Acts /\ UNCHANGED <<chain, wallet, reads, run>>

\* 250 ms after the last change.
QuoteTimer ==
    /\ page.timer
    /\ page' =
          IF ~MarketEnabled \/ page.detail = NoDetail \/ page.detail.resolved
             \/ page.amount \in {Blank, 0}
          THEN [page EXCEPT !.timer = FALSE, !.quote = NoQuote, !.quoteBusy = FALSE]
          ELSE [page EXCEPT !.timer = FALSE, !.quoteBusy = TRUE,
                            !.quoting = [amount |-> page.amount, mode |-> page.mode,
                                         price |-> chain.price]]
    /\ UNCHANGED <<acts, chain, wallet, reads, run>>

\* The answer of a read that was not cancelled: a quote, or none.
QuoteAnswer == \E q \in {page.quoting, NoQuote} :
    /\ page.quoting # NoQuote
    /\ page' = [page EXCEPT !.quote = q, !.quoting = NoQuote, !.quoteBusy = FALSE]
    /\ UNCHANGED <<acts, chain, wallet, reads, run>>

\* Another account, or none: what was typed is forgotten and the topic is read
\* for the new account.
SwitchWallet(a) ==
    /\ a # wallet /\ Len(reads) < MaxReads
    /\ wallet' = a
    /\ page' = ReadBegun(Requoted([page EXCEPT !.amount = Blank, !.quote = NoQuote,
                                               !.failed = FALSE]))
    /\ reads' = Append(reads, NewRead(a, FALSE))
    /\ Acts /\ UNCHANGED <<chain, run>>

\* The page's clock runs on between two reads of the block's time.
ClockRuns ==
    /\ page.detail # NoDetail /\ ~page.late
    /\ page' = [page EXCEPT !.late = TRUE]
    /\ Acts /\ UNCHANGED <<chain, wallet, reads, run>>

-----------------------------------------------------------------------------
\* The handlers, as the calls they wait for.

StakeCalls    == <<"pair", "approveVault", "stake", "clear", "refresh">>
FaucetCalls   == <<"gas", "mint", "refresh">>
BuyCalls      == <<"pair", "quote", "approveMarket", "buy", "clear", "refresh">>
SellCalls     == <<"pair", "quote", "sell", "clear", "refresh">>
WithdrawCalls == <<"pair", "withdraw", "refresh">>
FinalizeCalls == <<"pair", "resolve", "refresh">>
RedeemCalls   == <<"pair", "resolveIfOpen", "redeem", "refresh">>

\* A click: the handler keeps the account, the form and the side of that moment.
Begin(op, s, calls) ==
    /\ run' = [op |-> op, side |-> s, by |-> wallet, amount |-> page.amount,
               limit |-> 0, calls |-> calls]
    /\ page' = [page EXCEPT !.busy = TRUE, !.failed = FALSE]
    /\ Acts /\ UNCHANGED <<chain, wallet, reads>>

ClickStake(s) == StakeOffered(s) /\ Begin("stake", s, StakeCalls)
ClickFaucet   == FaucetOffered /\ Begin("faucet", "YES", FaucetCalls)
ClickTrade(s) ==
    /\ TradeOffered(s) /\ wallet # Nobody /\ page.amount # Blank /\ page.detail # NoDetail
    /\ Begin("trade", s, IF page.mode = "BUY" THEN BuyCalls ELSE SellCalls)
ClickWithdraw == WithdrawOffered /\ Begin("withdraw", "YES", WithdrawCalls)
ClickFinalize == FinalizeOffered /\ Begin("finalize", "YES", FinalizeCalls)
ClickRedeem   == (RedeemOffered \/ RedeemOfferedToo) /\ Begin("redeem", "YES", RedeemCalls)

\* 101 of 100, rounded up, and 99 of 100, rounded down.
MaxCost(q)   == (q * 101 + 99) \div 100
MinPayout(q) == (q * 99) \div 100

\* What a call does to the contracts; a call they refuse is not among these.
Performed(call) ==
    LET a == run.by
        s == run.side
        n == run.amount
        cost == IF n \in Nat THEN n * chain.price ELSE 0
    IN
    \/ /\ call = "pair" /\ chain.canonical /\ chain' = chain
       /\ run.op \in {"stake", "trade"} => n > 0
    \/ call \in {"gas", "mint", "quote"} /\ chain' = chain
    \/ call = "approveVault"  /\ chain' = [chain EXCEPT !.forVault[a] = n]
    \/ call = "approveMarket" /\ chain' = [chain EXCEPT !.forMarket[a] = run.limit]
    \/ /\ call = "stake" /\ ~chain.late /\ ~chain.resolved
       /\ chain.stake[a] > 0 => chain.side[a] = s
       /\ chain.forVault[a] >= n
       /\ chain' = [chain EXCEPT !.stake[a] = @ + n, !.side[a] = s, !.forVault[a] = @ - n]
    \/ /\ call = "buy" /\ ~chain.late /\ ~chain.resolved
       /\ cost <= run.limit /\ cost <= chain.forMarket[a]
       /\ chain' = [chain EXCEPT !.shares[a][s] = @ + n, !.forMarket[a] = @ - cost]
    \/ /\ call = "sell" /\ ~chain.late /\ ~chain.resolved
       /\ chain.shares[a][s] >= n /\ cost >= run.limit
       /\ chain' = [chain EXCEPT !.shares[a][s] = @ - n]
    \/ call = "withdraw" /\ CanLeave(chain, a) /\ chain' = Left(chain, a)
    \/ /\ call \in {"resolve", "resolveIfOpen"} /\ chain.late /\ ~chain.resolved
       /\ chain' = Settled(chain)
    \/ call = "resolveIfOpen" /\ chain.resolved /\ chain' = chain
    \/ /\ call = "redeem" /\ chain.resolved /\ \E t \in {"YES", "NO"} : chain.shares[a][t] > 0
       /\ chain' = [chain EXCEPT !.shares[a] = [t \in {"YES", "NO"} |-> 0]]

\* The next call of the handler is made and confirmed.
Call ==
    /\ run # Idle /\ run.calls # <<>>
    /\ Head(run.calls) \notin {"clear", "refresh"}
    /\ Performed(Head(run.calls))
    /\ run' = [run EXCEPT !.calls = Tail(@),
                          !.limit = IF Head(run.calls) # "quote" THEN @
                                    ELSE IF run.calls[2] = "sell"
                                         THEN MinPayout(run.amount * chain.price)
                                         ELSE MaxCost(run.amount * chain.price)]
    /\ UNCHANGED <<acts, wallet, page, reads>>

\* The wallet or the contract refuses it, or the network fails.
CallFails ==
    /\ run # Idle /\ run.calls # <<>>
    /\ Head(run.calls) \notin {"clear", "refresh"}
    /\ page' = [page EXCEPT !.failed = TRUE, !.busy = FALSE]
    /\ run' = Idle
    /\ UNCHANGED <<acts, chain, wallet, reads>>

\* At the end of a handler: the amount is forgotten where the handler says so,
\* and the topic is read again, for the account of the click.
Refresh ==
    /\ run # Idle /\ run.calls # <<>>
    /\ Head(run.calls) \in {"clear", "refresh"}
    /\ page' = ReadBegun(IF Head(run.calls) = "clear"
                         THEN Requoted([page EXCEPT !.amount = Blank]) ELSE page)
    /\ reads' = Append(reads, NewRead(run.by, TRUE))
    /\ run' = [run EXCEPT !.calls = <<>>]
    /\ UNCHANGED <<acts, chain, wallet>>

-----------------------------------------------------------------------------
\* Everybody else.

DeadlinePasses ==
    /\ ~chain.late /\ chain' = [chain EXCEPT !.late = TRUE]
    /\ Acts /\ UNCHANGED <<wallet, page, reads, run>>
PriceMoves == \E p \in Prices :
    /\ ~chain.late /\ p # chain.price
    /\ chain' = [chain EXCEPT !.price = p]
    /\ Acts /\ UNCHANGED <<wallet, page, reads, run>>
SomebodyResolves ==
    /\ chain.late /\ ~chain.resolved /\ chain' = Settled(chain)
    /\ Acts /\ UNCHANGED <<wallet, page, reads, run>>
SomebodyLeaves(a) ==
    /\ CanLeave(chain, a) /\ chain' = Left(chain, a)
    /\ Acts /\ UNCHANGED <<wallet, page, reads, run>>

-----------------------------------------------------------------------------
Init ==
    /\ acts = MaxActs
    /\ chain \in Topics
    /\ wallet \in Accounts \cup {Nobody}
    /\ page = [detail |-> NoDetail, loading |-> TRUE, loadFailed |-> FALSE, late |-> FALSE,
               tab |-> IF MarketEnabled /\ chain \in Launches THEN "MARKET" ELSE "PROTOCOL",
               mode |-> "BUY", amount |-> Blank, quote |-> NoQuote, quoting |-> NoQuote, timer |-> TRUE, quoteBusy |-> FALSE,
               busy |-> FALSE, failed |-> FALSE]
    /\ reads = <<NewRead(wallet, FALSE)>>
    /\ run = Idle

Next ==
    \/ \E i \in DOMAIN reads : ReadTopic(i) \/ Publish(i) \/ ReadFails(i)
    \/ Reload \/ QuoteTimer \/ QuoteAnswer \/ ClockRuns
    \/ \E a \in Amounts : TypeAmount(a)
    \/ \E m \in {"BUY", "SELL"} : ChooseMode(m)
    \/ \E t \in {"PROTOCOL", "MARKET"} : ChooseTab(t)
    \/ \E a \in Accounts \cup {Nobody} : SwitchWallet(a)
    \/ \E s \in Sides : ClickStake(s) \/ ClickTrade(s)
    \/ ClickFaucet \/ ClickWithdraw \/ ClickFinalize \/ ClickRedeem
    \/ Call \/ CallFails \/ Refresh
    \/ DeadlinePasses \/ PriceMoves \/ SomebodyResolves
    \/ \E a \in Accounts : SomebodyLeaves(a)

Spec == Init /\ [][Next]_vars

-----------------------------------------------------------------------------
\* A quote left on the page is one for the amount and direction in the form:
\* an answer that comes late never replaces it.
QuoteIsForTheForm ==
    QuoteShown /\ ~page.timer /\ ~page.quoteBusy =>
        page.quote.amount = page.amount /\ page.quote.mode = page.mode

\* Whatever others have claimed since the page read its figures, whoever they are of is
\* paid at least the amount called withdrawable, unless it has left by now, and exactly
\* that if nobody else has claimed.  (The account is the one read for: the page goes on
\* showing it until the read for another wallet ends.)
ShownPayoutIsPaid ==
    LET d == page.detail
        a == d.of
    IN  d # NoDetail /\ a # Nobody /\ Withdrawable(d) > 0 /\ a \notin chain.claimed =>
            /\ CanLeave(chain, a)
            /\ Withdrawable(d) <= PayoutOf(chain, a)
            /\ d.claims = chain.claims => Withdrawable(d) = PayoutOf(chain, a)
==============================================================================
