----------------------------- MODULE PaperMarket -----------------------------
(***************************************************************************)
(* The inside of a document of the paper server: the market and the vault  *)
(* of one topic, kept by a pure program                                    *)
(* (src/frontend/components/topicMarketDemoModel.ts), as the orders of      *)
(* src/frontend/server/paper/engine.ts drive it.                           *)
(*                                                                         *)
(* A document is brought up to the time of an order before the order acts  *)
(* on it, and every order ends in an assertion over the whole book; when   *)
(* it fails, the order is refused and nothing is stored.  The assertion is *)
(* no guard here: that it never fails is the property.                     *)
(*                                                                         *)
(* Money is counted in units; a part of it is rounded down, where the code *)
(* keeps a float with an error far below its EPS.  Hours are whole.        *)
(*                                                                         *)
(* Abstracted: the wallet that is lent for one order (PaperEngine); what   *)
(* only counts for display (events, volume, fees earned); the recipients   *)
(* outside the document, who claim nothing here; the functions no order    *)
(* calls (transfers of LP, an exit from the pool).                         *)
(***************************************************************************)
EXTENDS Integers, FiniteSetsExt, Functions

CONSTANTS
    Users, Creator, None,
    Grant,             \* what every player brings along
    K, RTarget,        \* reserve = K * shares ^ 2; the reserve that graduates
    Slack(_, _),       \* b ln(1 + e^(-d/b)) of a distance d and a depth b
    Shares,            \* shares one Genesis order may name
    Lots, Budgets,     \* outcome tokens, and budgets, of one formal order
    Stakes, Bond,
    TC,                \* hours from creation to the final deadline
    Eps,               \* EPS, which covers the rounding
    MaxOrders          \* bound

PaperMarketAssumption ==
    /\ IsFiniteSet(Users) /\ Creator \in Users /\ None \notin Users
    /\ None \notin {"YES", "NO", "INVALID"} /\ None \notin [proposer : Users, side : {"YES", "NO"}, after : Int]
    /\ TC \in Nat /\ TC > 4 /\ MaxOrders \in Nat
    /\ Shares \cup Lots \cup Budgets \cup Stakes \cup {Bond, Eps, Grant, K, RTarget} \subseteq Nat \ {0}
    /\ \A S \in {Shares, Lots, Stakes} : IsFiniteSet(S) /\ S # {}
    \* Units are so small that no rounding shows: four orders may precede the first.
    /\ K >= MaxOrders + 4
    /\ Eps >= (3 + Cardinality(Users)) * (MaxOrders + 4) + 2 * Cardinality(Users)

\* What is known of the logarithm: ln 2 < 1.
SlackIsBounded == \A d \in Nat, b \in Nat \ {0} : Slack(d, b) \in 0..b

VARIABLES acts, time, book

vars == <<acts, time, book>>

TF == TC - 1
TG == TF - 1

Side    == {"YES", "NO"}
Outcome == Side \cup {"INVALID"}

-----------------------------------------------------------------------------
\* The state of a market, and of the vault beside it.

Nothing == [i \in Outcome |-> 0]
Account ==
    [wallet |-> Grant, g |-> 0, lp |-> 0, held |-> [s \in Side |-> 0], refund |-> 0,
     side |-> None, stake |-> 0, reward |-> Nothing, claimed |-> FALSE]

NewMarket ==
    [phase |-> "GENESIS", now |-> 0, R |-> 0, S |-> 0, b |-> 0, M0 |-> 0, cash |-> 0,
     lpFees |-> 0, creatorFees |-> 0, protocolFees |-> 0, lpSupply |-> 0, result |-> None,
     accounts |-> [u \in Users |-> Account],
     core |-> [open |-> FALSE, pool |-> Nothing, cash |-> 0, fees |-> 0, official |-> Nothing],
     early |-> [pending |-> None, penalty |-> 0, failed |-> 0, forfeited |-> Nothing],
     budget |-> [lp |-> 0, outcomes |-> 0, failed |-> 0, core |-> 0, official |-> 0],
     initial |-> [lp |-> 0, supply |-> 0],
     payouts |-> [u \in Users |-> 0]]

Part(total, n, whole) == IF whole = 0 THEN 0 ELSE (total * n) \div whole

Pay(m, u, x) == [m EXCEPT !.accounts[u].wallet = @ - x]
Receive(m, u, x) == [m EXCEPT !.accounts[u].wallet = @ + x]

TotalStake(m) == SumFunction(m.core.pool)
Majority(m) ==
    IF 2 * m.core.pool["YES"] > TotalStake(m) THEN "YES"
    ELSE IF 2 * m.core.pool["NO"] > TotalStake(m) THEN "NO" ELSE "INVALID"

\* Who shares in the vault's fees if the outcome is i.
Earns(a, i) == IF i = "INVALID" THEN a.side \in Side ELSE a.side = i
Base(m, i) ==
    IF i = "INVALID" THEN m.core.pool["YES"] + m.core.pool["NO"] ELSE m.core.pool[i]

\* A fee is credited three times over, once for every outcome; one of them is paid.
\* Mistake (Credited_AllOnInvalid): the stakers of INVALID share in the third.
Credited_AllOnInvalid(m, u, i, fee) ==
    IF Earns(m.accounts[u], i) \/ i = "INVALID"
    THEN Part(fee, m.accounts[u].stake, Base(m, i)) ELSE 0
Credited(m, u, i, fee) ==
    IF Earns(m.accounts[u], i) THEN Part(fee, m.accounts[u].stake, Base(m, i)) ELSE 0
AccrueCoreFee(m, fee) ==
    [m EXCEPT
        !.core.fees = @ + fee,
        !.core.official = [i \in Outcome |-> @[i] + IF Base(m, i) = 0 THEN fee ELSE 0],
        !.accounts = [u \in Users |->
            [m.accounts[u] EXCEPT !.reward = [i \in Outcome |-> @[i] + Credited(m, u, i, fee)]]]]

-----------------------------------------------------------------------------
\* The end of a market.

Coordinates(m) == [s \in Side |-> SumFunction([u \in Users |-> m.accounts[u].held[s]])]
Value(held, i) == IF i = "INVALID" THEN (held["YES"] + held["NO"]) \div 2 ELSE held[i]

\* What the vault owes a staker if the outcome is i: principal, fees, and the fees
\* that those who left have forfeited.
CorePayout(m, u, i) ==
    LET a == m.accounts[u]
        pot == m.core.cash + m.early.penalty + m.early.failed
    IN  (IF i = "INVALID" THEN Part(pot, a.stake, TotalStake(m))
         ELSE IF a.side = i THEN Part(pot, a.stake, Base(m, i)) ELSE 0)
        + a.reward[i]
        + (IF Earns(a, i) THEN Part(m.early.forfeited[i], a.stake, Base(m, i)) ELSE 0)

Unclaimed(m, i) ==
    m.core.official[i] + (IF Base(m, i) = 0 THEN m.early.forfeited[i] ELSE 0)
    + (IF TotalStake(m) = 0 THEN m.early.penalty + m.early.failed ELSE 0)

Settle(m) ==
    LET i == Majority(m)
        owed == Value(Coordinates(m), i)
        nav == Max({0, m.cash + m.lpFees - owed})
        payouts == [u \in Users |-> CorePayout(m, u, i)]
    IN  [m EXCEPT
            !.phase = "SETTLED", !.result = i, !.cash = 0, !.lpFees = 0,
            !.budget = [lp |-> nav, outcomes |-> owed, failed |-> 0,
                        core |-> SumFunction(payouts), official |-> Unclaimed(m, i)],
            !.initial = [lp |-> nav, supply |-> m.lpSupply],
            !.payouts = payouts,
            !.early.penalty = 0, !.early.failed = 0, !.early.forfeited = Nothing,
            !.core.cash = 0, !.core.fees = 0]

Fail(m) ==
    [m EXCEPT !.phase = "FAILED", !.R = 0, !.budget.failed = m.R,
              !.initial = [lp |-> m.R, supply |-> m.S]]

\* advancePaperMarket: several deadlines may have passed at once.
Expired(m) == IF m.phase = "GENESIS" /\ m.now >= TG THEN Fail(m) ELSE m
Halted(m) == IF m.phase = "FORMAL" /\ m.now >= TF THEN [m EXCEPT !.phase = "WAIT_CORE"] ELSE m
Finalized(m) ==
    IF m.phase \in {"FORMAL", "WAIT_CORE"} /\ m.now >= TC /\ m.early.pending = None
    THEN Settle(m) ELSE m
Advance(m, t) == Finalized(Halted(Expired([m EXCEPT !.now = Max({t, @})])))

\* What an order finds, the m of the orders below, and what it leaves behind.
Now == Advance(book, time)
Store(m) == acts' = acts - 1 /\ book' = m /\ UNCHANGED time

-----------------------------------------------------------------------------
\* Genesis: shares are bought and sold along a parabola.

GenesisOpen(m) == m.phase = "GENESIS" /\ m.now < TG

Graduate(m) ==
    IF m.R < RTarget THEN m
    ELSE [m EXCEPT !.phase = "FORMAL", !.b = m.R, !.M0 = m.R, !.cash = m.R, !.R = 0,
                   !.lpSupply = m.S, !.core.open = TRUE,
                   !.accounts = [u \in Users |-> [m.accounts[u] EXCEPT !.lp = m.accounts[u].g, !.g = 0]]]

AccrueGenesis(m, gross) ==
    [m EXCEPT !.creatorFees = @ + (7 * gross) \div 1000, !.protocolFees = @ + (3 * gross) \div 1000]

\* The budget that buys n shares: 99 of 100 reach the reserve.
QuoteBuy(m, n) == (100 * K * n * (2 * m.S + n)) \div 99
Bought(m, u, n) ==
    LET paid == QuoteBuy(m, n)
    IN  Graduate(AccrueGenesis([Pay(m, u, paid) EXCEPT !.R = @ + (99 * paid) \div 100, !.S = @ + n,
                                                       !.accounts[u].g = @ + n], paid))
GenesisBuy(m, u, n) ==
    /\ GenesisOpen(m) /\ QuoteBuy(m, n) <= m.accounts[u].wallet
    /\ Store(Bought(m, u, n))

\* The last shares take what the reserve holds.
QuoteSell(m, n) == IF n = m.S THEN m.R ELSE K * n * (2 * m.S - n)
GenesisSell(m, u, n) ==
    LET gross == QuoteSell(m, n)
    IN  /\ GenesisOpen(m) /\ n <= m.accounts[u].g
        /\ Store(Graduate(Receive(AccrueGenesis(
                [m EXCEPT !.R = @ - gross, !.S = @ - n, !.accounts[u].g = @ - n], gross),
                u, (99 * gross) \div 100)))

-----------------------------------------------------------------------------
\* Formal trading, against a logarithmic market maker; a request that is due stops it.

EarlyDue(m) == m.early.pending # None /\ m.now >= m.early.pending.after
FormalOpen(m) == m.phase = "FORMAL" /\ m.now < TF /\ ~EarlyDue(m)

Cost(q, b) ==
    LET d == q["YES"] - q["NO"]
    IN  IF d >= 0 THEN q["YES"] + Slack(d, b) ELSE q["NO"] + Slack(-d, b)
CurveDelta(m, s, n) ==
    LET q == Coordinates(m) IN Cost([q EXCEPT ![s] = @ + n], m.b) - Cost(q, m.b)

AccrueFormal(m, gross) ==
    AccrueCoreFee([m EXCEPT !.lpFees = @ + gross \div 100,
                            !.protocolFees = @ + (3 * gross) \div 1000], (7 * gross) \div 1000)

QuoteFormalBuy(m, s, n) == (100 * CurveDelta(m, s, n)) \div 98
FormalBought(m, u, s, n) ==
    AccrueFormal([Pay(m, u, QuoteFormalBuy(m, s, n)) EXCEPT
                      !.cash = @ + CurveDelta(m, s, n), !.accounts[u].held[s] = @ + n],
                 QuoteFormalBuy(m, s, n))
FormalBuyShares(m, u, s, n) ==
    /\ FormalOpen(m) /\ CurveDelta(m, s, n) > 0
    /\ QuoteFormalBuy(m, s, n) <= m.accounts[u].wallet
    /\ Store(FormalBought(m, u, s, n))

\* The bisection finds the most tokens that a budget buys.
Affordable(m, s, budget) == {n \in Lots : CurveDelta(m, s, n) > 0 /\ QuoteFormalBuy(m, s, n) <= budget}
FormalBuy(m, u, s, budget) ==
    /\ FormalOpen(m) /\ budget <= m.accounts[u].wallet /\ Affordable(m, s, budget) # {}
    /\ Store(FormalBought(m, u, s, Max(Affordable(m, s, budget))))

QuoteFormalSell(m, s, n) == -CurveDelta(m, s, -n)
FormalSell(m, u, s, n) ==
    LET gross == QuoteFormalSell(m, s, n)
    IN  /\ FormalOpen(m) /\ n <= m.accounts[u].held[s] /\ gross > 0 /\ gross <= m.cash + Eps
        /\ Store(Receive(AccrueFormal([m EXCEPT !.cash = @ - gross, !.accounts[u].held[s] = @ - n],
                                      gross), u, (98 * gross) \div 100))

\* A pair of both outcomes is worth one unit of cash whatever happens.
RedeemPairs(m, u, n) ==
    /\ m.phase \in {"FORMAL", "WAIT_CORE"} /\ ~EarlyDue(m)
    /\ \A s \in Side : n <= m.accounts[u].held[s]
    /\ n <= m.cash
    /\ Store(Receive([m EXCEPT !.cash = @ - n, !.accounts[u].held = [s \in Side |-> @[s] - n]], u, n))

-----------------------------------------------------------------------------
\* The vault.

CoreOpen(m) ==
    m.phase \in {"FORMAL", "WAIT_CORE"} /\ m.now < TC /\ m.core.open /\ ~EarlyDue(m)

Staked(m, u, s, n) ==
    [Pay(m, u, n) EXCEPT !.accounts[u].side = s, !.accounts[u].stake = @ + n,
                         !.core.cash = @ + n, !.core.pool[s] = @ + n]
CoreStake(m, u, s, n) ==
    /\ CoreOpen(m) /\ m.accounts[u].side \in {None, s} /\ n <= m.accounts[u].wallet
    /\ Store(Staked(m, u, s, n))

\* A tenth, rounded up, stays behind, and so do the fees.
Penalty(n) == Min({n, (n + 9) \div 10})
CoreExit(m, u) ==
    LET a == m.accounts[u]
    IN  /\ CoreOpen(m) /\ a.stake > 0
        /\ Store(Receive(
             [m EXCEPT
                !.early.penalty = @ + Penalty(a.stake),
                !.early.forfeited = [i \in Outcome |-> @[i] + a.reward[i]],
                !.core.cash = @ - a.stake, !.core.pool[a.side] = @ - a.stake,
                !.accounts[u] = [a EXCEPT !.side = None, !.stake = 0, !.reward = Nothing, !.claimed = FALSE]],
             u, a.stake - Penalty(a.stake)))

Proposed(m, u, s) ==
    [Pay(m, u, Bond) EXCEPT !.early.pending = [proposer |-> u, side |-> s, after |-> m.now + 1]]
ProposeEarly(m, u, s) ==
    /\ CoreOpen(m) /\ m.early.pending = None /\ m.core.cash > 0 /\ m.now + 1 < TC
    /\ Bond <= m.accounts[u].wallet
    /\ Store(Proposed(m, u, s))

\* The vote of the stakes decides; a bond that lost is shared out with the principal.
ProcessEarly(m) ==
    LET p == m.early.pending
        done == [m EXCEPT !.early.pending = None]
        lost == [done EXCEPT !.early.failed = @ + Bond]
    IN  /\ m.phase \in {"FORMAL", "WAIT_CORE"} /\ EarlyDue(m)
        /\ Store(IF Majority(m) = p.side THEN Settle([done EXCEPT !.accounts[p.proposer].refund = @ + Bond])
                 ELSE IF m.now >= TC THEN Settle(lost) ELSE lost)

-----------------------------------------------------------------------------
\* Claims.

ClaimEarlyBond(m, u) ==
    /\ m.accounts[u].refund > 0
    /\ Store(Receive([m EXCEPT !.accounts[u].refund = 0], u, m.accounts[u].refund))

\* Every share pays the same part of the first budget, whoever claims before.
LPPart(m, a) == IF m.phase = "SETTLED" THEN Part(m.initial.lp, a.lp, m.initial.supply) ELSE 0
ClaimPreview(m, u) ==
    LET a == m.accounts[u]
    IN  [outcomes |-> IF m.phase = "SETTLED" THEN Value(a.held, m.result) ELSE 0,
         lp |-> LPPart(m, a),
         failed |-> IF m.phase = "FAILED" THEN Part(m.initial.lp, a.g, m.initial.supply) ELSE 0]

Claim(m, u) ==
    LET a == m.accounts[u]
        p == ClaimPreview(m, u)
    IN  /\ m.phase \in {"SETTLED", "FAILED"} /\ a.lp + a.g + a.held["YES"] + a.held["NO"] > 0
        /\ Store(Receive(
             [m EXCEPT
                !.lpSupply = @ - a.lp, !.S = IF m.phase = "FAILED" THEN @ - a.g ELSE @,
                !.budget.lp = @ - p.lp, !.budget.outcomes = @ - p.outcomes, !.budget.failed = @ - p.failed,
                !.accounts[u] = [a EXCEPT !.lp = 0, !.g = 0, !.held = [s \in Side |-> 0]]],
             u, p.outcomes + p.lp + p.failed))

ClaimCore(m, u) ==
    /\ m.phase = "SETTLED" /\ ~m.accounts[u].claimed
    /\ Store(Receive([m EXCEPT !.accounts[u].claimed = TRUE, !.budget.core = @ - m.payouts[u]],
                     u, m.payouts[u]))

ClaimCreatorFees(m) ==
    /\ m.creatorFees > 0
    /\ Store(Receive([m EXCEPT !.creatorFees = 0], Creator, m.creatorFees))

-----------------------------------------------------------------------------
\* An hour passes; nothing looks at the document.
Tick == acts > 0 /\ time < TC /\ time' = time + 1 /\ UNCHANGED <<acts, book>>

\* A new market; one that two players have just brought to its target; and one where
\* both have a stake, and then shares, and one may ask for an early end.
Graduated(v) == LET n == Max(Shares) IN Bought(Bought(NewMarket, Creator, n), v, n)
Running(v, s) ==
    LET n == Max(Stakes)
        m == Staked(Staked(Graduated(v), Creator, "YES", n), v, s, n)
    IN  FormalBought(FormalBought(m, Creator, "YES", Max(Lots)), v, "NO", Max(Lots))
Init ==
    /\ acts = MaxOrders /\ time = 0
    /\ book \in {NewMarket}
         \cup {Graduated(v) : v \in Users}
         \cup {Running(v, s) : v \in Users \ {Creator}, s \in Outcome}
         \cup {Proposed(Running(v, s), v, "NO") : v \in Users \ {Creator}, s \in {"NO", "INVALID"}}

\* The orders that lead to these markets are legal.
StartsAreReached ==
    \A v \in Users :
      LET n == Max(Shares)
          first == Bought(NewMarket, Creator, n)
          second == Graduated(v)
      IN  /\ QuoteBuy(NewMarket, n) <= Grant /\ first.phase = "GENESIS"
          /\ QuoteBuy(first, n) <= first.accounts[v].wallet /\ second.phase = "FORMAL"
          /\ v # Creator => \A s \in Outcome :
               LET stake == Max(Stakes)
                   lot == Max(Lots)
                   one == Staked(second, Creator, "YES", stake)
                   both == Staked(one, v, s, stake)
                   third == FormalBought(both, Creator, "YES", lot)
               IN  /\ second.accounts[Creator].side \in {None, "YES"} /\ stake <= second.accounts[Creator].wallet
                   /\ one.accounts[v].side \in {None, s} /\ stake <= one.accounts[v].wallet
                   /\ CurveDelta(both, "YES", lot) > 0
                   /\ QuoteFormalBuy(both, "YES", lot) <= both.accounts[Creator].wallet
                   /\ CurveDelta(third, "NO", lot) > 0
                   /\ QuoteFormalBuy(third, "NO", lot) <= third.accounts[v].wallet
                   /\ Running(v, s).early.pending = None /\ Bond <= Running(v, s).accounts[v].wallet

\* Every order acts on the document as its time has made it; MaxOrders bounds their number.
Next ==
    \/ Tick
    \/ acts > 0 /\ \E m \in {Now} :
         \/ ProcessEarly(m) \/ ClaimCreatorFees(m)
         \/ \E u \in Users : CoreExit(m, u) \/ ClaimEarlyBond(m, u) \/ Claim(m, u) \/ ClaimCore(m, u)
         \/ \E u \in Users, n \in Shares : GenesisBuy(m, u, n) \/ GenesisSell(m, u, n)
         \/ \E u \in Users, s \in Side, n \in Lots : FormalBuyShares(m, u, s, n) \/ FormalSell(m, u, s, n)
         \/ \E u \in Users, s \in Side, x \in Budgets : FormalBuy(m, u, s, x)
         \/ \E u \in Users, n \in Lots : RedeemPairs(m, u, n)
         \/ \E u \in Users, s \in Outcome, n \in Stakes : CoreStake(m, u, s, n)
         \/ \E u \in Users, s \in Side : ProposeEarly(m, u, s)

Spec == Init /\ [][Next]_vars

-----------------------------------------------------------------------------
\* topicMarketAssertLedger.

Near(x, y) == x - y \in -Eps..Eps

Wallets(m) == SumFunction([u \in Users |-> m.accounts[u].wallet])
EarlyFunds(m) ==
    (IF m.early.pending = None THEN 0 ELSE Bond) + m.early.penalty + m.early.failed
    + SumFunction([u \in Users |-> m.accounts[u].refund])
Reserves(m) ==
    EarlyFunds(m) + m.R + m.cash + m.lpFees + m.creatorFees + m.protocolFees
    + m.core.cash + m.core.fees + SumFunction(m.budget)
Balances(m) ==
    {m.R, m.cash, m.core.cash, m.core.fees} \cup {m.budget[k] : k \in DOMAIN m.budget}
    \cup {m.accounts[u].wallet : u \in Users}

LedgerAdds(m) ==
    LET q == Coordinates(m)
    IN  /\ \A x \in Balances(m) : x >= -Eps
        /\ Near(Wallets(m) + Reserves(m), Grant * Cardinality(Users))
        /\ m.phase = "GENESIS" =>
             /\ SumFunction([u \in Users |-> m.accounts[u].g]) = m.S
             /\ Near(m.R, K * m.S * m.S)
        /\ m.phase \in {"FORMAL", "WAIT_CORE"} =>
             /\ SumFunction([u \in Users |-> m.accounts[u].lp]) = m.lpSupply
             /\ \A s \in Side : q[s] <= m.cash + Eps
             /\ Near(m.cash, m.M0 + Cost(q, m.b) - Cost([s \in Side |-> 0], m.b))

\* What the claims still to come add up to.
Owed(m) ==
    [lp |-> SumFunction([u \in Users |-> ClaimPreview(m, u).lp]),
     outcomes |-> SumFunction([u \in Users |-> ClaimPreview(m, u).outcomes]),
     failed |-> SumFunction([u \in Users |-> ClaimPreview(m, u).failed]),
     core |-> SumFunction([u \in Users |-> IF m.accounts[u].claimed THEN 0 ELSE m.payouts[u]])]

\* The assertion that ends every order holds, for every document that a reader sees now
\* or at the deadlines: no money appears or is lost, the reserve lies on the curve, and
\* cash covers the dearer outcome.  And the budgets are just what is still to be claimed,
\* in whatever order the players claim.
LedgerHolds ==
    \A m \in {Now, Advance(book, TC)} :
        LET owed == Owed(m)
        IN  LedgerAdds(m) /\ \A k \in DOMAIN owed : Near(m.budget[k], owed[k])
=============================================================================
