----------------------------- MODULE TopicMarket -----------------------------
(***************************************************************************)
(* The market of one topic: contracts/topic-market/src/TopicMarket.sol with *)
(* its curve (TopicMarketMath.sol) and its liquidity token                  *)
(* (TopicMarketRightsToken.sol).                                            *)
(*                                                                         *)
(* GENESIS: shares are bought from and sold to a quadratic curve.  When its *)
(* reserve reaches RTarget the market graduates: the reserve becomes the    *)
(* trading cash, the shares become liquidity (LP) rights.  FORMAL: YES and  *)
(* NO are sold and bought back by a logarithmic market maker whose depth    *)
(* never changes.  WAIT_CORE: trading is over, the vault has not decided.   *)
(* SETTLED: outcomes and LP rights are paid from separate budgets.  FAILED: *)
(* the target was missed, shares are refunded.                              *)
(*                                                                         *)
(* Every external function is one atomic step.  The core contract is seen   *)
(* through the adapter's two answers, finalOutcome() and tradingAllowed();  *)
(* it accepts a fee whenever it allows trading.  The market's fixed fee     *)
(* recipients may refuse a payment at any time.                             *)
(*                                                                         *)
(* _assertOutcomeSolvency is not a guard but part of the invariant          *)
(* OutcomesBacked: where that holds the runtime assertion never reverts.    *)
(* Comparisons before a subtraction are Solidity's checked arithmetic.      *)
(* Abstracted: what a caller may only refuse with (slippage limits, expiry, *)
(* the intent to graduate), gas, events, re-entrancy locks, the trusted     *)
(* forwarder, and the legacy fields that no function writes.  Numbers are   *)
(* unbounded: Supply, the token in existence, bounds all inflows.           *)
(*                                                                         *)
(* A definition named X_Something is X with a plausible mistake; it is used *)
(* only to see that the properties notice it.                               *)
(***************************************************************************)
EXTENDS Integers, FiniteSets

CONSTANTS
    Users,            \* traders and holders
    PaidAmounts,      \* amounts one Genesis buy may pay
    ShareAmounts,     \* quantities one Genesis sell may name
    TradeAmounts,     \* outcome amounts of one formal trade
    PairAmounts,      \* collateral amounts of one pair redemption
    LPAmounts,        \* amounts of one LP transfer or partial LP claim
    GiftAmounts,      \* amounts of a plain token transfer to the market
    CoreEnd,          \* coreCutoff, counted from creation
    Hour,
    RTarget,          \* rTarget: the reserve that graduates
    K, CurveScale,    \* k and curveScale: reserve = K * supply^2 / CurveScale
    Scale,            \* SCALE: outcome units per collateral unit
    Wad,              \* WAD of the curve's fixed point numbers
    LnOnePlusExp(_),  \* the library's ln(1 + e^-x), x and result in Wad
    GuardFloor, GuardDepth, GuardSlack,  \* the constants of _formalGuard
    Limit,            \* LIMIT
    MaxOutcomeSupply, \* MAX_OUTCOME_SUPPLY
    Supply            \* bound: the market never holds more token than exists

Phase  == {"GENESIS", "FORMAL", "WAIT_CORE", "SETTLED", "FAILED"}
Side   == {"YES", "NO"}
Result == {"YES", "NO", "INVALID"}

ASSUME UsersAssumption == IsFiniteSet(Users)
ASSUME AmountsAssumption ==
    /\ PaidAmounts \subseteq Nat \ {0} /\ ShareAmounts \subseteq Nat \ {0}
    /\ TradeAmounts \subseteq Nat \ {0} /\ PairAmounts \subseteq Nat \ {0}
    /\ LPAmounts \subseteq Nat \ {0} /\ GiftAmounts \subseteq Nat \ {0}
    /\ Limit \in Nat /\ MaxOutcomeSupply \in Nat /\ Supply \in Nat
ASSUME TimeAssumption == Hour \in Nat \ {0} /\ CoreEnd \in Nat /\ CoreEnd > 4 * Hour
ASSUME CurveAssumption ==
    /\ RTarget \in Nat \ {0} /\ K \in Nat \ {0} /\ CurveScale \in Nat \ {0}
    /\ Scale \in Nat \ {0} /\ Wad \in Nat \ {0}
    /\ GuardFloor \in Nat \ {0} /\ GuardDepth \in Nat \ {0} /\ GuardSlack \in Nat
\* The library's logarithm is a natural number, and ln 2 is below 1.
ASSUME LnAssumption ==
    /\ \A x \in 0..(60 * Wad) : LnOnePlusExp(x) \in Nat
    /\ LnOnePlusExp(0) <= Wad

FormalCutoff  == CoreEnd - Hour
GenesisCutoff == CoreEnd - 2 * Hour

VARIABLES
    now,                \* block.timestamp - creation
    phase,
    balance,            \* token.balanceOf(address(this))
    R, S,               \* Genesis reserve and supply
    shares,             \* Genesis holdings, then LP rights not yet materialized
    protocolFees, creatorFees, dust,
    graduationSupply, initialCollateral,
    liquiditySupply,    \* LP tokens in existence
    unmaterializedLP,   \* LP tokens the market still keeps for their owners
    lpBalance,          \* lpToken.balanceOf(user)
    cash, lpFees,
    coreFeesSent,
    tokens,             \* yes[user] and no[user]
    supply,             \* yesSupply and noSupply
    outcome, lpSnapshot, lpBudgetInitial,
    collateralCash, lpBudgetRemaining,
    failedRInitial, failedRRemaining, failedSupply,
    coreResult,         \* core.finalOutcome(), "PENDING" for 0
    coreDue             \* core.earlyTerminationProcessingDue()

genesisVars == <<R, S, shares>>
feeVars     == <<protocolFees, creatorFees, dust>>
depthVars   == <<graduationSupply, initialCollateral>>
lpVars      == <<liquiditySupply, unmaterializedLP, lpBalance>>
tradeVars   == <<cash, lpFees, coreFeesSent>>
outcomeVars == <<tokens, supply>>
resultVars  == <<outcome, lpSnapshot, lpBudgetInitial>>
budgetVars  == <<collateralCash, lpBudgetRemaining>>
failedVars  == <<failedRInitial, failedRRemaining, failedSupply>>
coreVars    == <<coreResult, coreDue>>

vars == <<now, phase, balance, genesisVars, feeVars, depthVars, lpVars,
          tradeVars, outcomeVars, resultVars, budgetVars, failedVars, coreVars>>
------------------------------------------------------------------------------
CeilDiv(a, b) == (a + b - 1) \div b
Larger(a, b)  == IF a >= b THEN a ELSE b
Distance(a, b) == IF a >= b THEN a - b ELSE b - a

\* Genesis: supply s for a reserve of r, rounded down; the reserve a sale frees.
IsCurveSupply_RoundedUp(s, r) ==
    LET x == (r * CurveScale) \div K IN x <= s * s /\ (s = 0 \/ (s - 1) * (s - 1) < x)
IsCurveSupply(s, r) ==
    LET x == (r * CurveScale) \div K IN s * s <= x /\ x < (s + 1) * (s + 1)
GenesisGross(q) == (K * (S * S - (S - q) * (S - q))) \div CurveScale

\* TopicMarketMath.cost: what y YES and n NO cost at depth b.
Cost(y, n, b) ==
    LET hi   == Larger(y, n)
        diff == Distance(y, n)
    IN  IF diff \div b >= 60 THEN hi
        ELSE hi + (b * LnOnePlusExp((diff * Wad) \div b)) \div Wad

bWad == initialCollateral * Scale
FormalGuard == CeilDiv(Larger(GuardFloor, bWad \div GuardDepth + GuardSlack), Scale)

SupplyWith(s, amount) == [supply EXCEPT ![s] = @ + amount]
CostOf(q) == Cost(q["YES"], q["NO"], bWad)

\* Gross price of buying, and gross proceeds of selling, amount of side s.
BuyGross(s, amount) ==
    CeilDiv((CeilDiv(CostOf(SupplyWith(s, amount)) - CostOf(supply), Scale)
               + FormalGuard) * 100, 98)
SellRaw(s, amount) == (CostOf(supply) - CostOf(SupplyWith(s, -amount))) \div Scale
SellGross(s, amount) == SellRaw(s, amount) - FormalGuard

\* What y YES and n NO are worth under result r.
Value_RoundedUp(y, n, r) ==
    IF r = "YES" THEN CeilDiv(y, Scale) ELSE IF r = "NO" THEN CeilDiv(n, Scale)
    ELSE CeilDiv(y + n, 2 * Scale)
Value(y, n, r) == IF r = "YES" THEN y \div Scale ELSE IF r = "NO" THEN n \div Scale
                  ELSE (y + n) \div (2 * Scale)

\* Percentages of a gross amount, each rounded down on its own.
Percent99(base)     == (base * 99) \div 100
Percent98(base)     == (base * 98) \div 100
LPFee(base)         == base \div 100
CoreFee(base)       == (base * 7) \div 1000
CreatorPart(base)   == (base * 7) \div 1000
ProtocolPart(base)  == (base * 3) \div 1000

ReachesTarget(r) == r >= RTarget
TradingAllowed == coreResult = "PENDING" /\ ~coreDue
GenesisOpen    == phase = "GENESIS" /\ now < GenesisCutoff
FormalOpen     == TradingAllowed /\ phase = "FORMAL" /\ now < FormalCutoff
IsFormalMarket == phase \in {"FORMAL", "WAIT_CORE", "SETTLED"}
------------------------------------------------------------------------------
NewMarket ==
    /\ phase = "GENESIS" /\ balance = 0
    /\ R = 0 /\ S = 0 /\ shares = [u \in Users |-> 0]
    /\ protocolFees = 0 /\ creatorFees = 0 /\ dust = 0
    /\ graduationSupply = 0 /\ initialCollateral = 0
    /\ liquiditySupply = 0 /\ unmaterializedLP = 0
    /\ lpBalance = [u \in Users |-> 0]
    /\ cash = 0 /\ lpFees = 0 /\ coreFeesSent = 0
    /\ tokens = [u \in Users |-> [s \in Side |-> 0]]
    /\ supply = [s \in Side |-> 0]
    /\ outcome = "PENDING" /\ lpSnapshot = 0 /\ lpBudgetInitial = 0
    /\ collateralCash = 0 /\ lpBudgetRemaining = 0
    /\ failedRInitial = 0 /\ failedRRemaining = 0 /\ failedSupply = 0
    /\ coreResult = "PENDING" /\ coreDue = FALSE

Init == now = 0 /\ NewMarket

\* The reserve r becomes the cash of a formal market and the s shares become
\* LP tokens that the market keeps.  core.open refuses a vault that is over.
Graduate(r, s) ==
    /\ coreResult = "PENDING"
    /\ phase' = "FORMAL"
    /\ graduationSupply' = s /\ liquiditySupply' = s /\ unmaterializedLP' = s
    /\ initialCollateral' = r /\ cash' = r /\ R' = 0 /\ S' = s

\* The reserve stays on the curve, or graduates when it reached the target.
Reserve(r, s, hit) ==
    IF hit THEN Graduate(r, s)
    ELSE /\ R' = r /\ S' = s
         /\ UNCHANGED <<phase, depthVars, liquiditySupply, unmaterializedLP, cash>>

\* Fees of a Genesis trade, and the rounding that belongs to nobody.
AccrueGen(base, more) ==
    /\ creatorFees'  = creatorFees + CreatorPart(base)
    /\ protocolFees' = protocolFees + ProtocolPart(base)
    /\ dust' = dust + base - Percent99(base) - CreatorPart(base) - ProtocolPart(base)
                 + more

GenesisBuy(u, paid) ==
    LET r == R + Percent99(paid)
    IN  /\ GenesisOpen
        /\ paid <= Limit /\ Percent99(paid) > 0 /\ r <= Limit
        /\ balance + paid <= Supply
        /\ \E next \in (S + 1)..((r * CurveScale) \div K) :
             /\ IsCurveSupply(next, r)
             /\ shares' = [shares EXCEPT ![u] = @ + (next - S)]
             /\ Reserve(r, next, ReachesTarget(r))
        /\ AccrueGen(paid, 0)
        /\ balance' = balance + paid
        /\ UNCHANGED <<now, lpBalance, lpFees, coreFeesSent, outcomeVars,
                       resultVars, budgetVars, failedVars, coreVars>>

\* When the last share is sold the reserve that is left becomes dust.
GenesisSell(u, q) ==
    LET gross == GenesisGross(q)
        left  == R - gross
    IN  /\ GenesisOpen
        /\ q <= S /\ q <= shares[u]
        /\ gross > 0 /\ gross <= R
        /\ Percent99(gross) <= balance
        /\ shares' = [shares EXCEPT ![u] = @ - q]
        /\ Reserve(IF S = q THEN 0 ELSE left, S - q, ReachesTarget(left))
        /\ AccrueGen(gross, IF S = q THEN left ELSE 0)
        /\ balance' = balance - Percent99(gross)
        /\ UNCHANGED <<now, lpBalance, lpFees, coreFeesSent, outcomeVars,
                       resultVars, budgetVars, failedVars, coreVars>>
------------------------------------------------------------------------------
\* What a formal trade of gross leaves in the fee books.  The core's part goes
\* to the vault in the same transaction.
AccrueFormal_ProtocolTwice(gross) ==
    /\ lpFees' = lpFees + LPFee(gross)
    /\ protocolFees' = protocolFees + ProtocolPart(gross)
    /\ dust' = dust + gross - Percent98(gross) - LPFee(gross) - CoreFee(gross)
    /\ coreFeesSent' = coreFeesSent + CoreFee(gross)
AccrueFormal(gross) ==
    /\ lpFees' = lpFees + LPFee(gross)
    /\ protocolFees' = protocolFees + ProtocolPart(gross)
    /\ dust' = dust + gross - Percent98(gross) - LPFee(gross) - CoreFee(gross)
                 - ProtocolPart(gross)
    /\ coreFeesSent' = coreFeesSent + CoreFee(gross)

FormalBuy(u, s, amount) ==
    LET gross == BuyGross(s, amount)
    IN  /\ FormalOpen
        /\ amount <= MaxOutcomeSupply - supply[s]
        /\ CostOf(SupplyWith(s, amount)) >= CostOf(supply)
        /\ gross <= Limit /\ balance + gross <= Supply
        /\ cash' = cash + Percent98(gross)
        /\ AccrueFormal(gross)
        /\ supply' = SupplyWith(s, amount)
        /\ tokens' = [tokens EXCEPT ![u][s] = @ + amount]
        /\ balance' = balance + gross - CoreFee(gross)
        /\ UNCHANGED <<now, phase, genesisVars, creatorFees, depthVars, lpVars,
                       resultVars, budgetVars, failedVars, coreVars>>

FormalSell(u, s, amount) ==
    LET gross == SellGross(s, amount)
    IN  /\ FormalOpen
        /\ amount <= tokens[u][s] /\ amount <= supply[s]
        /\ CostOf(supply) >= CostOf(SupplyWith(s, -amount))
        /\ SellRaw(s, amount) > FormalGuard /\ gross <= cash
        /\ CoreFee(gross) + Percent98(gross) <= balance
        /\ cash' = cash - gross
        /\ AccrueFormal(gross)
        /\ supply' = SupplyWith(s, -amount)
        /\ tokens' = [tokens EXCEPT ![u][s] = @ - amount]
        /\ balance' = balance - CoreFee(gross) - Percent98(gross)
        /\ UNCHANGED <<now, phase, genesisVars, creatorFees, depthVars, lpVars,
                       resultVars, budgetVars, failedVars, coreVars>>

\* A complete pair is worth its collateral, free of fees, until the result.
RedeemOpen_WhileDue == coreResult = "PENDING" /\ phase \in {"FORMAL", "WAIT_CORE"}
RedeemOpen == TradingAllowed /\ phase \in {"FORMAL", "WAIT_CORE"}
HoldsPairs_YesSide(u, burn) == burn <= tokens[u]["YES"]
HoldsPairs(u, burn) == \A s \in Side : burn <= tokens[u][s]
RedeemPairs(u, amount) ==
    LET burn == amount * Scale
    IN  /\ RedeemOpen
        /\ amount <= cash /\ amount <= balance
        /\ HoldsPairs(u, burn) /\ \A s \in Side : burn <= supply[s]
        /\ tokens' = [tokens EXCEPT ![u] = [s \in Side |-> @[s] - burn]]
        /\ supply' = [s \in Side |-> supply[s] - burn]
        /\ cash' = cash - amount
        /\ balance' = balance - amount
        /\ UNCHANGED <<now, phase, genesisVars, feeVars, depthVars, lpVars,
                       lpFees, coreFeesSent, resultVars, budgetVars,
                       failedVars, coreVars>>
------------------------------------------------------------------------------
\* LP rights: kept by the market until their owner takes them, then an ERC20.
EmptyEscrow(u) == shares' = [shares EXCEPT ![u] = 0]
MaterializeLP(u) ==
    /\ IsFormalMarket
    /\ shares[u] > 0 /\ shares[u] <= unmaterializedLP
    /\ EmptyEscrow(u)
    /\ unmaterializedLP' = unmaterializedLP - shares[u]
    /\ lpBalance' = [lpBalance EXCEPT ![u] = @ + shares[u]]
    /\ UNCHANGED <<now, phase, balance, R, S, feeVars, depthVars,
                   liquiditySupply, tradeVars, outcomeVars, resultVars,
                   budgetVars, failedVars, coreVars>>

TransferLP(u, v, amount) ==
    /\ u # v /\ amount <= lpBalance[u]
    /\ lpBalance' = [lpBalance EXCEPT ![u] = @ - amount, ![v] = @ + amount]
    /\ UNCHANGED <<now, phase, balance, genesisVars, feeVars, depthVars,
                   liquiditySupply, unmaterializedLP, tradeVars, outcomeVars,
                   resultVars, budgetVars, failedVars, coreVars>>
------------------------------------------------------------------------------
\* _flushFees with debts creatorDebt and protocolDebt: each transfer succeeds
\* or leaves its debt as it was.
FlushFees(creatorDebt, protocolDebt, creatorPaid, protocolPaid) ==
    LET paid == (IF creatorPaid THEN creatorDebt ELSE 0)
                  + (IF protocolPaid THEN protocolDebt ELSE 0)
    IN  /\ paid <= balance
        /\ creatorFees'  = IF creatorPaid THEN 0 ELSE creatorDebt
        /\ protocolFees' = IF protocolPaid THEN 0 ELSE protocolDebt
        /\ balance' = balance - paid

\* Genesis missed its target.
GenesisExpired == phase = "GENESIS" /\ now >= GenesisCutoff
CloseGenesis(creatorPaid, protocolPaid) ==
    /\ GenesisExpired
    /\ phase' = "FAILED"
    /\ failedRInitial' = R /\ failedRRemaining' = R /\ failedSupply' = S
    /\ R' = 0
    /\ FlushFees(creatorFees, protocolFees, creatorPaid, protocolPaid)
    /\ UNCHANGED <<now, S, shares, dust, depthVars, lpVars, tradeVars,
                   outcomeVars, resultVars, budgetVars, coreVars>>

CloseFormal ==
    /\ phase = "FORMAL" /\ now >= FormalCutoff
    /\ phase' = "WAIT_CORE"
    /\ UNCHANGED <<now, balance, genesisVars, feeVars, depthVars, lpVars,
                   tradeVars, outcomeVars, resultVars, budgetVars, failedVars,
                   coreVars>>

\* The outcome holders' money is set apart; LP rights share all the rest.
Liability == Value(supply["YES"], supply["NO"], coreResult)
LPBudget == cash + lpFees - Liability
SnapshotSupply_Materialized == graduationSupply - unmaterializedLP
SnapshotSupply == graduationSupply

Finalize(creatorPaid, protocolPaid) ==
    /\ phase \in {"FORMAL", "WAIT_CORE"}
    /\ coreResult \in Result
    /\ Liability <= cash
    /\ outcome' = coreResult /\ phase' = "SETTLED"
    /\ collateralCash' = Liability
    /\ lpBudgetInitial' = LPBudget /\ lpBudgetRemaining' = LPBudget
    /\ lpSnapshot' = SnapshotSupply
    /\ cash' = 0 /\ lpFees' = 0
    /\ FlushFees(creatorFees, protocolFees, creatorPaid, protocolPaid)
    /\ UNCHANGED <<now, genesisVars, dust, depthVars, lpVars, coreFeesSent,
                   outcomeVars, failedVars, coreVars>>
------------------------------------------------------------------------------
\* What u is owed, and the ledger of paying it.
OutcomePay(u) == Value(tokens[u]["YES"], tokens[u]["NO"], outcome)
HoldsOutcome(u) == \E s \in Side : tokens[u][s] > 0
OutcomePayable(u) ==
    /\ \A s \in Side : tokens[u][s] <= supply[s]
    /\ OutcomePay(u) <= collateralCash
PayOutcome(u) ==
    /\ HoldsOutcome(u) /\ OutcomePayable(u)
    /\ tokens' = [tokens EXCEPT ![u] = [s \in Side |-> 0]]
    /\ supply' = [s \in Side |-> supply[s] - tokens[u][s]]
    /\ collateralCash' = collateralCash - OutcomePay(u)

\* A claim materializes first, then burns amount of u's LP tokens.
LPRights(u) == shares[u] + lpBalance[u]
LPPay_OfRest(amount) == (lpBudgetInitial * amount) \div liquiditySupply
LPPay(amount) == (lpBudgetInitial * amount) \div lpSnapshot
LPPayable(u, amount) ==
    /\ lpSnapshot > 0 /\ shares[u] <= unmaterializedLP /\ amount <= liquiditySupply
    /\ LPPay(amount) <= lpBudgetRemaining
PayLP(u, amount) ==
    /\ amount > 0 /\ amount <= LPRights(u) /\ LPPayable(u, amount)
    /\ shares' = [shares EXCEPT ![u] = 0]
    /\ unmaterializedLP' = unmaterializedLP - shares[u]
    /\ lpBalance' = [lpBalance EXCEPT ![u] = LPRights(u) - amount]
    /\ liquiditySupply' = liquiditySupply - amount
    /\ lpBudgetRemaining' = lpBudgetRemaining - LPPay(amount)

ClaimOutcome(u) ==
    /\ phase = "SETTLED"
    /\ PayOutcome(u)
    /\ OutcomePay(u) <= balance
    /\ balance' = balance - OutcomePay(u)
    /\ UNCHANGED <<now, phase, genesisVars, feeVars, depthVars, lpVars,
                   tradeVars, resultVars, lpBudgetRemaining, failedVars,
                   coreVars>>

ClaimLP(u, amount) ==
    /\ phase = "SETTLED"
    /\ PayLP(u, amount)
    /\ LPPay(amount) <= balance
    /\ balance' = balance - LPPay(amount)
    /\ UNCHANGED <<now, phase, R, S, feeVars, depthVars, tradeVars, outcomeVars,
                   resultVars, collateralCash, failedVars, coreVars>>

FailedPay(u) == (failedRInitial * shares[u]) \div failedSupply
FailedPayable(u) ==
    /\ failedSupply > 0 /\ shares[u] <= S
    /\ FailedPay(u) <= failedRRemaining /\ FailedPay(u) <= balance
ClaimFailed(u) ==
    /\ phase = "FAILED" /\ shares[u] > 0 /\ FailedPayable(u)
    /\ shares' = [shares EXCEPT ![u] = 0]
    /\ S' = S - shares[u]
    /\ failedRRemaining' = failedRRemaining - FailedPay(u)
    /\ balance' = balance - FailedPay(u)
    /\ UNCHANGED <<now, phase, R, feeVars, depthVars, lpVars, tradeVars,
                   outcomeVars, resultVars, budgetVars, failedRInitial,
                   failedSupply, coreVars>>

\* Everything u is owed in one call: LP rights first, then outcomes.
SettledPay(u) == (IF LPRights(u) > 0 THEN LPPay(LPRights(u)) ELSE 0)
                   + (IF HoldsOutcome(u) THEN OutcomePay(u) ELSE 0)
ClaimAllSettled(u) ==
    /\ phase = "SETTLED"
    /\ LPRights(u) > 0 \/ HoldsOutcome(u)
    /\ IF LPRights(u) > 0 THEN PayLP(u, LPRights(u))
       ELSE UNCHANGED <<shares, lpVars, lpBudgetRemaining>>
    /\ IF HoldsOutcome(u) THEN PayOutcome(u)
       ELSE UNCHANGED <<outcomeVars, collateralCash>>
    /\ SettledPay(u) <= balance
    /\ balance' = balance - SettledPay(u)
    /\ UNCHANGED <<now, phase, R, S, feeVars, depthVars, tradeVars, resultVars,
                   failedVars, coreVars>>
ClaimAll(u) == ClaimFailed(u) \/ ClaimAllSettled(u)

ClaimFees(creatorPaid, protocolPaid) ==
    /\ creatorFees > 0 \/ protocolFees > 0
    /\ FlushFees(creatorFees, protocolFees, creatorPaid, protocolPaid)
    /\ UNCHANGED <<now, phase, genesisVars, dust, depthVars, lpVars, tradeVars,
                   outcomeVars, resultVars, budgetVars, failedVars, coreVars>>

\* Once every right is burned, all that is nobody's goes to the protocol.
NoRightsLeft_SharesToo == S = 0 /\ liquiditySupply = 0 /\ \A s \in Side : supply[s] = 0
NoRightsLeft == IF phase = "FAILED" THEN S = 0
                ELSE liquiditySupply = 0 /\ \A s \in Side : supply[s] = 0
CollectDust(creatorPaid, protocolPaid) ==
    /\ phase \in {"SETTLED", "FAILED"} /\ NoRightsLeft
    /\ creatorFees + protocolFees <= balance
    /\ R' = 0 /\ dust' = 0 /\ collateralCash' = 0 /\ cash' = 0 /\ lpFees' = 0
    /\ lpBudgetRemaining' = 0 /\ failedRRemaining' = 0
    /\ FlushFees(creatorFees, balance - creatorFees, creatorPaid, protocolPaid)
    /\ UNCHANGED <<now, phase, S, shares, depthVars, lpVars, coreFeesSent,
                   outcomeVars, resultVars, failedRInitial, failedSupply,
                   coreVars>>
------------------------------------------------------------------------------
\* The core: an early-end request falls due, and is refused or decides; the
\* vote decides at the end.  Unlaunched topics may be cancelled at any time.
CoreFallsDue ==
    /\ IsFormalMarket /\ TradingAllowed /\ now < CoreEnd
    /\ coreDue' = TRUE
    /\ UNCHANGED <<now, phase, balance, genesisVars, feeVars, depthVars, lpVars,
                   tradeVars, outcomeVars, resultVars, budgetVars, failedVars,
                   coreResult>>
CoreRefuses ==
    /\ coreDue /\ now < CoreEnd
    /\ coreDue' = FALSE
    /\ UNCHANGED <<now, phase, balance, genesisVars, feeVars, depthVars, lpVars,
                   tradeVars, outcomeVars, resultVars, budgetVars, failedVars,
                   coreResult>>
CoreResolves(r) ==
    /\ coreResult = "PENDING"
    /\ \/ coreDue /\ (r # "INVALID" \/ now >= CoreEnd)
       \/ IsFormalMarket /\ now >= CoreEnd
       \/ ~IsFormalMarket /\ r = "INVALID"
    /\ coreResult' = r /\ coreDue' = FALSE
    /\ UNCHANGED <<now, phase, balance, genesisVars, feeVars, depthVars, lpVars,
                   tradeVars, outcomeVars, resultVars, budgetVars, failedVars>>

Gift(amount) ==
    /\ balance + amount <= Supply
    /\ balance' = balance + amount
    /\ UNCHANGED <<now, phase, genesisVars, feeVars, depthVars, lpVars, tradeVars,
                   outcomeVars, resultVars, budgetVars, failedVars, coreVars>>

Tick ==
    /\ now < CoreEnd
    /\ now' = now + 1
    /\ UNCHANGED <<phase, balance, genesisVars, feeVars, depthVars, lpVars,
                   tradeVars, outcomeVars, resultVars, budgetVars, failedVars,
                   coreVars>>

Core == CoreFallsDue \/ CoreRefuses \/ \E r \in Result : CoreResolves(r)

Next ==
    \/ \E u \in Users, a \in PaidAmounts : GenesisBuy(u, a)
    \/ \E u \in Users : \E q \in ShareAmounts \cup {shares[u]} : GenesisSell(u, q)
    \/ \E u \in Users, s \in Side, a \in TradeAmounts : FormalBuy(u, s, a)
    \/ \E u \in Users, s \in Side, a \in TradeAmounts : FormalSell(u, s, a)
    \/ \E u \in Users, a \in PairAmounts : RedeemPairs(u, a)
    \/ \E u \in Users : MaterializeLP(u)
    \/ \E u, v \in Users, a \in LPAmounts : TransferLP(u, v, a)
    \/ \E c, p \in BOOLEAN : CloseGenesis(c, p)
    \/ CloseFormal
    \/ \E c, p \in BOOLEAN : Finalize(c, p)
    \/ \E u \in Users : ClaimOutcome(u)
    \/ \E u \in Users : \E a \in LPAmounts \cup {LPRights(u)} : ClaimLP(u, a)
    \/ \E u \in Users : ClaimAll(u)
    \/ \E c, p \in BOOLEAN : ClaimFees(c, p)
    \/ \E c, p \in BOOLEAN : CollectDust(c, p)
    \/ Core
    \/ \E a \in GiftAmounts : Gift(a)
    \/ Tick

Spec == Init /\ [][Next]_vars

\* Whoever cares closes, settles and claims in the end, the vault decides, and
\* the fixed recipients accept their money some day.
Fairness ==
    /\ WF_vars(Tick) /\ WF_vars(CloseFormal)
    /\ WF_vars(\E c, p \in BOOLEAN : CloseGenesis(c, p))
    /\ WF_vars(\E r \in Result : CoreResolves(r))
    /\ WF_vars(\E c, p \in BOOLEAN : Finalize(c, p))
    /\ \A u \in Users : SF_vars(ClaimAll(u))
    /\ WF_vars(CollectDust(TRUE, TRUE))

FairSpec == Spec /\ Fairness
------------------------------------------------------------------------------
TimeOK   == now \in 0..CoreEnd /\ phase \in Phase /\ balance \in Nat
GenesisOK ==
    /\ R \in Nat /\ S \in Nat /\ shares \in [Users -> Nat]
    /\ protocolFees \in Nat /\ creatorFees \in Nat /\ dust \in Nat
LPOK ==
    /\ graduationSupply \in Nat /\ initialCollateral \in Nat
    /\ liquiditySupply \in Nat /\ unmaterializedLP \in Nat
    /\ lpBalance \in [Users -> Nat]
TradeOK ==
    /\ cash \in Nat /\ lpFees \in Nat /\ coreFeesSent \in Nat
    /\ tokens \in [Users -> [Side -> Nat]] /\ supply \in [Side -> Nat]
ResultOK ==
    /\ outcome \in Result \cup {"PENDING"}
    /\ lpSnapshot \in Nat /\ lpBudgetInitial \in Nat
    /\ collateralCash \in Nat /\ lpBudgetRemaining \in Nat
    /\ failedRInitial \in Nat /\ failedRRemaining \in Nat /\ failedSupply \in Nat
    /\ coreResult \in Result \cup {"PENDING"} /\ coreDue \in BOOLEAN
TypeOK == TimeOK /\ GenesisOK /\ LPOK /\ TradeOK /\ ResultOK

\* The Genesis reserve pays the whole curve below the supply, whatever was
\* bought and sold in which order: the last holder can leave as the first.
CurveBacked == phase = "GENESIS" => K * S * S <= R * CurveScale

\* A market with its target reached has graduated: no sell graduates it.
GraduationIsPrompt == phase = "GENESIS" => R < RTarget

\* The cash covers the curve: what the outcomes in circulation could be sold
\* back for, above the loss the depth can bear.
CashCoversCost ==
    phase \in {"FORMAL", "WAIT_CORE"} =>
        cash * Scale + Cost(0, 0, bWad) >= bWad + CostOf(supply)

\* Each side is paid in full if it wins, a half-half result too, and when the
\* result is known the budget set apart covers the claims still out.  So
\* _assertOutcomeSolvency never refuses a trade or a redemption.
OutcomesBacked ==
    /\ phase \in {"FORMAL", "WAIT_CORE"} => \A s \in Side : supply[s] <= cash * Scale
    /\ phase = "SETTLED" =>
         Value(supply["YES"], supply["NO"], outcome) <= collateralCash

\* LP rights keep their part of the budget whoever claimed before, in what
\* portions; and so do the shares of a failed market.
BudgetsKeepTheirShare ==
    /\ phase = "SETTLED" =>
         lpBudgetInitial * liquiditySupply <= lpBudgetRemaining * lpSnapshot
    /\ phase = "FAILED" =>
         failedRInitial * S <= failedRRemaining * failedSupply

\* The books explain the balance: nothing is promised that is not there, and
\* without gifts nothing is there that is not in the books.
Accounted == R + protocolFees + creatorFees + dust + collateralCash + cash + lpFees
               + lpBudgetRemaining + failedRRemaining
BooksCoverBalance == Accounted <= balance /\ (GiftAmounts = {} => Accounted = balance)

\* No holder is ever locked in, whatever the others did: where his sale would pay something
\* it is covered by the supplies, the books and the balance, his pairs are redeemed and his LP
\* rights come out of the market's keeping, and every claim of his, whole or partial, is paid.
NoExitRefused ==
    /\ GenesisOpen => \A u \in Users : \A q \in 1..shares[u] :
         q <= S /\ GenesisGross(q) <= R /\ Percent99(GenesisGross(q)) <= balance
    /\ FormalOpen => \A u \in Users, s \in Side, a \in TradeAmounts :
         LET gross == SellGross(s, a)
         IN  a <= tokens[u][s] =>
               a <= supply[s] /\ gross <= cash /\ CoreFee(gross) + Percent98(gross) <= balance
    /\ RedeemOpen => \A u \in Users, a \in PairAmounts :
         HoldsPairs(u, a * Scale) =>
           a <= cash /\ a <= balance /\ \A s \in Side : a * Scale <= supply[s]
    /\ IsFormalMarket => \A u \in Users : shares[u] <= unmaterializedLP
    /\ phase = "SETTLED" => \A u \in Users :
         /\ \A a \in 1..LPRights(u) : LPPayable(u, a)
         /\ OutcomePayable(u) /\ SettledPay(u) <= balance
    /\ phase = "FAILED" => \A u \in Users : shares[u] > 0 => FailedPayable(u)

\* While the vault is processing, or has decided, nobody trades or redeems.
TradingStopsWithTheVault ==
    [][~TradingAllowed /\ phase' \in {"FORMAL", "WAIT_CORE"} =>
         UNCHANGED <<cash, lpFees, coreFeesSent, tokens, supply>>]_vars

\* Launched or refunded, every holder is paid in the end, whatever he did
\* with his liquidity rights before and whichever fee payment failed.
EverybodyIsPaid ==
    <>[](\A u \in Users : LPRights(u) = 0 /\ ~HoldsOutcome(u))

\* Nothing stays in the contract: gifts, rounding and refused fees leave it too.
MarketEmpties == []<>(balance = 0)
==============================================================================
