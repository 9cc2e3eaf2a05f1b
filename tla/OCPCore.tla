------------------------------- MODULE OCPCore -------------------------------
(***************************************************************************)
(* The staking vault of one topic: contracts/topic-market/src/core/        *)
(* OCPCore.sol, with the state of its early-termination module.            *)
(*                                                                         *)
(* Users stake a token on YES, NO or INVALID until ResolutionTime.  Market  *)
(* fees that arrive meanwhile are credited to whoever is staking at that    *)
(* moment, in three mutually exclusive books, one per possible outcome: at  *)
(* settlement only the book of the actual outcome is paid.  A user may      *)
(* leave early against a penalty and loses his fees.  Anybody may post a    *)
(* bond to ask for an early end: after Window the side he named either has  *)
(* the strict majority, and the topic ends as of that instant, or the bond  *)
(* is lost to the settlement pool.                                         *)
(*                                                                         *)
(* Every external function is one atomic step (a transaction that reverts   *)
(* changes nothing: its requires are guards).  Two things of the code are   *)
(* not guards here.  _assertVaultSolvent, which the code evaluates at the   *)
(* end of nearly every function, is the invariant VaultSolvent: where it    *)
(* holds in every state the runtime assertion never reverts.  Numbers are   *)
(* unbounded: Supply, the amount of token that exists, bounds all inflows.  *)
(*                                                                         *)
(* Abstracted: hashes, events, gas, addresses of the fixed recipients, and  *)
(* the pure outputs settledPenaltyAmount and marketFeesInSettlementPool.    *)
(* settlementReady is written in the same step as resolved and not kept     *)
(* apart.  The account that pays or receives is the caller; when it is the  *)
(* trusted forwarder the user named here is the actor it stands for.        *)
(*                                                                         *)
(* A definition named X_Something is X with a plausible mistake; it is used *)
(* only to see that the properties notice it.                               *)
(***************************************************************************)
EXTENDS Integers, FiniteSets

CONSTANTS
    Users,            \* actors: stakers and proposers
    Nobody,           \* address(0)
    Market,           \* the market address that bindMarket records
    ExtraMarkets,     \* addresses that authorizeAdditionalMarket may be given
    StakeAmounts,     \* amounts one stake call may carry
    FeeAmounts,       \* amounts one depositMarketFee call may carry
    GiftAmounts,      \* amounts of a plain token transfer to the vault
    Bond,             \* earlyTerminationBondAmount, 0 disables proposals
    ResolutionTime,   \* originalResolutionTime, counted from creation
    Window,           \* the hour between a proposal and its processing
    Precision,        \* FEE_INDEX_PRECISION
    Supply            \* bound: the vault never holds more token than exists

Side  == {"YES", "NO", "INVALID"}
Book  == Side                        \* the outcome a fee book pays under
Outcome == Side \cup {"PENDING"}

ASSUME UsersAssumption == IsFiniteSet(Users) /\ Nobody \notin Users
ASSUME AmountsAssumption ==
    /\ StakeAmounts \subseteq Nat \ {0}
    /\ FeeAmounts   \subseteq Nat \ {0}
    /\ GiftAmounts  \subseteq Nat \ {0}
    /\ Bond \in Nat
    /\ Supply \in Nat
ASSUME TimeAssumption == ResolutionTime \in Nat \ {0} /\ Window \in Nat \ {0}
ASSUME PrecisionAssumption == Precision \in Nat \ {0}
ASSUME MarketAssumption == Market \notin ExtraMarkets

VARIABLES
    now,                          \* block.timestamp - createdAt
    balance,                      \* stakeToken.balanceOf(address(this))
    permissionless,               \* permissionlessCreator is set
    earlyTerminationModule,       \* the module is configured
    market,                       \* "none", "genesis" or "formal"
    marketCoordinator,            \* the coordinator is set
    authorizedMarkets,            \* isAuthorizedMarket
    stakeOf,                      \* _stakeOf[user], per side
    totalStake,                   \* _totalStakeBySide
    participants,                 \* _participantCountBySide
    totalPrincipal,
    totalParticipants,
    feeIndex,                     \* _feeHistory[user].*Index, per book
    feeRemainder,                 \* _feeHistory[user].*Remainder, per book
    pendingFees,                  \* _pending*Fees[user], per book
    accFeePerStake,               \* acc*FeePerStake, per book
    distributedFees,              \* distributed*MarketFees, per book
    totalMarketFeesAccrued,
    forfeitedFees,                \* forfeitedMarketFees, per book
    forfeitedRemainders,          \* forfeitedFeeRemainders, per book
    exitPenaltyPool,
    failedProposalBondPool,
    pending,                      \* the module's _pending request
    proposalCount,
    pendingBondEscrow,
    claimableEarlyBond,           \* per user
    totalEarlyBondRefunds,
    terminatedEarlyAt,
    resolved,
    outcome,
    settlementPool,
    remainingSettlementPool,
    emptySettlementClaimable,
    remainingEligibleClaims,
    marketFeeUserPoolRemaining,
    historicalFeePoolRemaining,
    forfeitedBonusPool,
    forfeitedBonusPoolRemaining,
    officialMarketFeesClaimable,
    remainingMarketFeeClaims,
    claimed,                      \* users in _claimed
    marketFeeClaimed              \* users in _marketFeeClaimed

setupVars   == <<permissionless, earlyTerminationModule, market,
                 marketCoordinator, authorizedMarkets>>
voteVars    == <<stakeOf, totalStake, participants, totalPrincipal,
                 totalParticipants>>
historyVars == <<feeIndex, feeRemainder, pendingFees>>
feeVars     == <<accFeePerStake, distributedFees, totalMarketFeesAccrued>>
forfeitVars == <<forfeitedFees, forfeitedRemainders>>
penaltyVars == <<exitPenaltyPool, failedProposalBondPool>>
requestVars == <<pending, proposalCount, pendingBondEscrow>>
refundVars  == <<claimableEarlyBond, totalEarlyBondRefunds>>
resultVars  == <<terminatedEarlyAt, resolved, outcome>>
poolVars    == <<settlementPool, remainingSettlementPool,
                 emptySettlementClaimable, remainingEligibleClaims>>
rewardVars  == <<marketFeeUserPoolRemaining, historicalFeePoolRemaining,
                 forfeitedBonusPool, forfeitedBonusPoolRemaining,
                 officialMarketFeesClaimable, remainingMarketFeeClaims>>
claimVars   == <<claimed, marketFeeClaimed>>

\* What staking writes, and what settlement and the claims after it write.
ledgerVars     == <<voteVars, historyVars, feeVars, forfeitVars>>
settlementVars == <<poolVars, rewardVars, claimVars>>

vars == <<now, balance, setupVars, ledgerVars, penaltyVars, requestVars,
          refundVars, resultVars, settlementVars>>
------------------------------------------------------------------------------
ZeroBooks == [b \in Book |-> 0]

Request == [id : Nat, proposer : Users \cup {Nobody},
            requestedOutcome : Outcome, processAfter : Nat, bond : Nat]
NoRequest == [id |-> 0, proposer |-> Nobody, requestedOutcome |-> "PENDING",
              processAfter |-> 0, bond |-> 0]

Principal(u)   == stakeOf[u]["YES"] + stakeOf[u]["NO"] + stakeOf[u]["INVALID"]
SideOf(u)      == IF stakeOf[u]["YES"] > 0 THEN "YES"
                  ELSE IF stakeOf[u]["NO"] > 0 THEN "NO" ELSE "INVALID"

\* The stake that earns in book b, of one user and of all of them.
EarningStake(u, b) == IF b = "INVALID" THEN stakeOf[u]["YES"] + stakeOf[u]["NO"]
                      ELSE stakeOf[u][b]
BookStake(b) == IF b = "INVALID" THEN totalStake["YES"] + totalStake["NO"]
                ELSE totalStake[b]

Majority(s)     == totalStake[s] > totalPrincipal - totalStake[s]
DerivedOutcome  == IF Majority("YES") THEN "YES"
                   ELSE IF Majority("NO") THEN "NO" ELSE "INVALID"

Launched_Bound == ~permissionless \/ market # "none"
Launched      == ~permissionless \/ market = "formal"
ProcessingDue == pending.id # 0 /\ now >= pending.processAfter
StakingOpen_NotFrozen  == ~resolved /\ now < ResolutionTime /\ Launched
StakingOpen_AfterEnd   == now < ResolutionTime /\ ~ProcessingDue /\ Launched
StakingOpen   == ~resolved /\ now < ResolutionTime /\ ~ProcessingDue /\ Launched

EffectiveResolutionTime ==
    IF terminatedEarlyAt = 0 THEN ResolutionTime ELSE terminatedEarlyAt

\* What _checkpointMarketFees makes of u's fee history: the growth since the
\* last checkpoint joins the fraction kept from it; whole tokens are credited.
Growth(u, b) == EarningStake(u, b) * (accFeePerStake[b] - feeIndex[u][b])
                  + feeRemainder[u][b]
EarnedFees_Stale(u) == pendingFees[u]
EarnedFees(u)      == [b \in Book |-> pendingFees[u][b] + Growth(u, b) \div Precision]
EarnedRemainder(u) == [b \in Book |-> Growth(u, b) % Precision]

Checkpoint_DropsFraction(u) ==
    /\ pendingFees'  = [pendingFees EXCEPT ![u] = EarnedFees(u)]
    /\ feeRemainder' = [feeRemainder EXCEPT ![u] = ZeroBooks]
    /\ feeIndex'     = [feeIndex EXCEPT ![u] = accFeePerStake]
Checkpoint_NotReduced(u) ==
    /\ pendingFees'  = [pendingFees EXCEPT ![u] = EarnedFees(u)]
    /\ feeRemainder' = [feeRemainder EXCEPT ![u] = [b \in Book |-> Growth(u, b)]]
    /\ feeIndex'     = [feeIndex EXCEPT ![u] = accFeePerStake]
Checkpoint(u) ==
    /\ pendingFees'  = [pendingFees EXCEPT ![u] = EarnedFees(u)]
    /\ feeRemainder' = [feeRemainder EXCEPT ![u] = EarnedRemainder(u)]
    /\ feeIndex'     = [feeIndex EXCEPT ![u] = accFeePerStake]

ExitPenalty(u) == (Principal(u) + 9) \div 10
------------------------------------------------------------------------------
\* The vault as constructed: nothing staked, nothing owed.
EmptyVault ==
    /\ now = 0 /\ balance = 0
    /\ stakeOf = [u \in Users |-> [s \in Side |-> 0]]
    /\ totalStake = [s \in Side |-> 0] /\ participants = [s \in Side |-> 0]
    /\ totalPrincipal = 0 /\ totalParticipants = 0
    /\ feeIndex = [u \in Users |-> ZeroBooks]
    /\ feeRemainder = [u \in Users |-> ZeroBooks]
    /\ pendingFees = [u \in Users |-> ZeroBooks]
    /\ accFeePerStake = ZeroBooks /\ distributedFees = ZeroBooks
    /\ totalMarketFeesAccrued = 0
    /\ forfeitedFees = ZeroBooks /\ forfeitedRemainders = ZeroBooks
    /\ exitPenaltyPool = 0 /\ failedProposalBondPool = 0
    /\ pending = NoRequest /\ proposalCount = 0 /\ pendingBondEscrow = 0
    /\ claimableEarlyBond = [u \in Users |-> 0] /\ totalEarlyBondRefunds = 0
    /\ terminatedEarlyAt = 0 /\ resolved = FALSE /\ outcome = "PENDING"
    /\ settlementPool = 0 /\ remainingSettlementPool = 0
    /\ emptySettlementClaimable = 0 /\ remainingEligibleClaims = 0
    /\ marketFeeUserPoolRemaining = 0 /\ historicalFeePoolRemaining = 0
    /\ forfeitedBonusPool = 0 /\ forfeitedBonusPoolRemaining = 0
    /\ officialMarketFeesClaimable = 0 /\ remainingMarketFeeClaims = 0
    /\ claimed = {} /\ marketFeeClaimed = {}

\* The constructor, and the factory's configurePermissionless and
\* configureEarlyTerminationModule: VaultCoreAdapter calls them in the
\* transaction that creates the vault.
Init ==
    /\ EmptyVault
    /\ permissionless \in BOOLEAN /\ earlyTerminationModule \in BOOLEAN
    /\ market = "none" /\ marketCoordinator = FALSE /\ authorizedMarkets = {}

\* A token transfer of amount to the vault; the token has no more than Supply.
Receive(amount) ==
    /\ balance + amount <= Supply
    /\ balance' = balance + amount
------------------------------------------------------------------------------
\* The factory binds the market and lets further addresses pay its fees.
BindMarket ==
    /\ ~resolved /\ market = "none"
    /\ market' = "genesis"
    /\ UNCHANGED <<now, balance, permissionless, earlyTerminationModule,
                   marketCoordinator, authorizedMarkets, ledgerVars,
                   penaltyVars, requestVars, refundVars, resultVars,
                   settlementVars>>

SetMarketCoordinator ==
    /\ market # "none" /\ ~marketCoordinator
    /\ marketCoordinator' = TRUE
    /\ UNCHANGED <<now, balance, permissionless, earlyTerminationModule,
                   market, authorizedMarkets, ledgerVars, penaltyVars,
                   requestVars, refundVars, resultVars, settlementVars>>

AuthorizeAdditionalMarket(m) ==
    /\ marketCoordinator /\ ~resolved /\ m \notin authorizedMarkets
    /\ authorizedMarkets' = authorizedMarkets \cup {m}
    /\ UNCHANGED <<now, balance, permissionless, earlyTerminationModule,
                   market, marketCoordinator, ledgerVars, penaltyVars,
                   requestVars, refundVars, resultVars, settlementVars>>

\* The bound market graduates: isFormalMarket() is true from then on.  The
\* Core only reads the answer.  A graduation is a Genesis buy, which ends two
\* hours (Windows) before the resolution, and it opens the adapter, which
\* refuses once the vault has resolved.
MarketGraduates ==
    /\ market = "genesis" /\ ~resolved
    /\ now + 2 * Window < ResolutionTime
    /\ market' = "formal"
    /\ UNCHANGED <<now, balance, permissionless, earlyTerminationModule,
                   marketCoordinator, authorizedMarkets, ledgerVars,
                   penaltyVars, requestVars, refundVars, resultVars,
                   settlementVars>>
------------------------------------------------------------------------------
Stake(u, s, amount) ==
    /\ StakingOpen
    /\ Principal(u) > 0 => SideOf(u) = s
    /\ Receive(amount)
    /\ Checkpoint(u)
    /\ stakeOf' = [stakeOf EXCEPT ![u] =
                     [t \in Side |-> IF t = s THEN Principal(u) + amount ELSE 0]]
    /\ totalStake' = [totalStake EXCEPT ![s] = @ + amount]
    /\ totalPrincipal' = totalPrincipal + amount
    /\ IF Principal(u) = 0
         THEN /\ participants' = [participants EXCEPT ![s] = @ + 1]
              /\ totalParticipants' = totalParticipants + 1
         ELSE UNCHANGED <<participants, totalParticipants>>
    /\ UNCHANGED <<now, setupVars, feeVars, forfeitVars, penaltyVars,
                   requestVars, refundVars, resultVars, settlementVars>>

\* The whole position leaves.  The penalty and the fees earned so far stay.
\* The comparisons are the checked subtractions of the totals.
ExitStake(u) ==
    LET side       == SideOf(u)
        fractions  == [b \in Book |-> forfeitedRemainders[b] + EarnedRemainder(u)[b]]
    IN  /\ StakingOpen
        /\ Principal(u) > 0
        /\ Principal(u) <= totalStake[side] /\ Principal(u) <= totalPrincipal
        /\ participants[side] >= 1 /\ totalParticipants >= 1
        /\ Principal(u) - ExitPenalty(u) <= balance
        /\ forfeitedFees' = [b \in Book |-> forfeitedFees[b] + EarnedFees(u)[b]
                                              + fractions[b] \div Precision]
        /\ forfeitedRemainders' = [b \in Book |-> fractions[b] % Precision]
        /\ pendingFees'  = [pendingFees EXCEPT ![u] = ZeroBooks]
        /\ feeRemainder' = [feeRemainder EXCEPT ![u] = ZeroBooks]
        /\ feeIndex'     = [feeIndex EXCEPT ![u] = ZeroBooks]
        /\ totalStake' = [totalStake EXCEPT ![side] = @ - Principal(u)]
        /\ participants' = [participants EXCEPT ![side] = @ - 1]
        /\ totalPrincipal' = totalPrincipal - Principal(u)
        /\ totalParticipants' = totalParticipants - 1
        /\ exitPenaltyPool' = exitPenaltyPool + ExitPenalty(u)
        /\ stakeOf' = [stakeOf EXCEPT ![u] = [s \in Side |-> 0]]
        /\ claimed' = claimed \ {u}
        /\ marketFeeClaimed' = marketFeeClaimed \ {u}
        /\ balance' = balance - (Principal(u) - ExitPenalty(u))
        /\ UNCHANGED <<now, setupVars, feeVars, failedProposalBondPool,
                       requestVars, refundVars, resultVars, poolVars,
                       rewardVars>>

\* A market pays a fee: each book with stake behind it promises all of it.
\* A fee nobody was staking for in a book is not promised under that outcome.
DepositMarketFee(m, amount) ==
    /\ (m = Market /\ market # "none") \/ m \in authorizedMarkets
    /\ ~resolved /\ now < EffectiveResolutionTime /\ ~ProcessingDue
    /\ Receive(amount)
    /\ totalMarketFeesAccrued' = totalMarketFeesAccrued + amount
    /\ accFeePerStake' = [b \in Book |->
         IF BookStake(b) > 0
           THEN accFeePerStake[b] + (amount * Precision) \div BookStake(b)
           ELSE accFeePerStake[b]]
    /\ distributedFees' = [b \in Book |->
         IF BookStake(b) > 0 THEN distributedFees[b] + amount ELSE distributedFees[b]]
    /\ UNCHANGED <<now, setupVars, voteVars, historyVars, forfeitVars,
                   penaltyVars, requestVars, refundVars, resultVars,
                   settlementVars>>
------------------------------------------------------------------------------
\* The window must end strictly before the resolution.
WindowFits_Inclusive == ResolutionTime - now >= Window
WindowFits == ResolutionTime - now > Window

\* Core.proposeEarlyTermination with the module's propose: one transaction.
ProposeEarlyTermination(u, s) ==
    /\ earlyTerminationModule /\ StakingOpen /\ pendingBondEscrow = 0
    /\ s \in {"YES", "NO"}
    /\ pending.id = 0 /\ totalPrincipal > 0
    /\ WindowFits
    /\ Bond > 0
    /\ Receive(Bond)
    /\ proposalCount' = proposalCount + 1
    /\ pending' = [id |-> proposalCount + 1, proposer |-> u,
                   requestedOutcome |-> s, processAfter |-> now + Window,
                   bond |-> Bond]
    /\ pendingBondEscrow' = Bond
    /\ UNCHANGED <<now, setupVars, ledgerVars, penaltyVars, refundVars,
                   resultVars, settlementVars>>

\* _snapshotSettlement: the ledgers of outcome o become the pools to claim
\* from, while owed is the total of the bonds to give back.
SnapshotSettlement(o, owed) ==
    LET claims    == IF o = "INVALID" THEN participants["YES"] + participants["NO"]
                     ELSE participants[o]
        selected  == IF claims = 0 THEN 0 ELSE distributedFees[o]
        forfeited == IF claims = 0 THEN 0 ELSE forfeitedFees[o]
        funds     == balance - totalMarketFeesAccrued - owed
    IN  /\ balance >= totalMarketFeesAccrued + owed
        /\ distributedFees[o] <= totalMarketFeesAccrued
        /\ forfeitedFees[o] <= distributedFees[o]
        /\ remainingMarketFeeClaims' = claims
        /\ marketFeeUserPoolRemaining' = selected
        /\ historicalFeePoolRemaining' = selected - forfeited
        /\ forfeitedBonusPool' = forfeited
        /\ forfeitedBonusPoolRemaining' = forfeited
        /\ officialMarketFeesClaimable' = totalMarketFeesAccrued - selected
        /\ exitPenaltyPool' = 0 /\ failedProposalBondPool' = 0
        /\ remainingSettlementPool' = funds
        /\ settlementPool' = IF totalPrincipal = 0 THEN 0 ELSE funds
        /\ emptySettlementClaimable' = IF totalPrincipal = 0 THEN funds ELSE 0
        /\ remainingEligibleClaims' = IF totalPrincipal = 0 THEN 0
                                      ELSE IF o = "INVALID" THEN totalParticipants
                                      ELSE participants[o]
        /\ resolved' = TRUE /\ outcome' = o

\* _finalizeNow: a topic whose market never launched refunds as INVALID.
FinalizeNow(owed) ==
    SnapshotSettlement(IF Launched THEN DerivedOutcome ELSE "INVALID", owed)

\* The bond of a confirmed request becomes a debt to its proposer.
RefundBond_NotTotalled(u, bond) ==
    /\ claimableEarlyBond' = [claimableEarlyBond EXCEPT ![u] = @ + bond]
    /\ UNCHANGED totalEarlyBondRefunds
RefundBond(u, bond) ==
    /\ claimableEarlyBond' = [claimableEarlyBond EXCEPT ![u] = @ + bond]
    /\ totalEarlyBondRefunds' = totalEarlyBondRefunds + bond

\* _processEarlyRequest, the core of processEarlyTermination and of finalize.
ProcessEarlyRequest ==
    LET bond     == pending.bond
        accepted == DerivedOutcome = pending.requestedOutcome
    IN  /\ ProcessingDue
        /\ pending.processAfter < ResolutionTime
        /\ pending.requestedOutcome \in {"YES", "NO"}
        /\ pending.proposer # Nobody /\ bond > 0 /\ bond = pendingBondEscrow
        /\ pending' = NoRequest /\ pendingBondEscrow' = 0
        /\ \/ /\ accepted
              /\ RefundBond(pending.proposer, bond)
              /\ terminatedEarlyAt' = pending.processAfter
              /\ FinalizeNow(totalEarlyBondRefunds + bond)
           \/ /\ ~accepted /\ now >= ResolutionTime
              /\ FinalizeNow(totalEarlyBondRefunds)
              /\ UNCHANGED <<refundVars, terminatedEarlyAt>>
           \/ /\ ~accepted /\ now < ResolutionTime
              /\ failedProposalBondPool' = failedProposalBondPool + bond
              /\ UNCHANGED <<refundVars, resultVars, exitPenaltyPool,
                             poolVars, rewardVars>>

ProcessEarlyTermination ==
    /\ ~resolved /\ earlyTerminationModule
    /\ ProcessEarlyRequest
    /\ UNCHANGED <<now, balance, setupVars, ledgerVars, proposalCount,
                   claimVars>>

\* A request still in escrow is settled first, on its own earlier deadline.
Finalize ==
    /\ ~resolved /\ now >= ResolutionTime
    /\ \/ /\ pendingBondEscrow # 0
          /\ ProcessEarlyRequest
       \/ /\ pendingBondEscrow = 0
          /\ FinalizeNow(totalEarlyBondRefunds)
          /\ UNCHANGED <<pending, pendingBondEscrow, refundVars,
                         terminatedEarlyAt>>
    /\ UNCHANGED <<now, balance, setupVars, ledgerVars, proposalCount,
                   claimVars>>

CancelUnlaunched ==
    /\ permissionless /\ market # "formal" /\ ~resolved
    /\ pendingBondEscrow = 0
    /\ SnapshotSettlement("INVALID", totalEarlyBondRefunds)
    /\ UNCHANGED <<now, balance, setupVars, ledgerVars, requestVars,
                   refundVars, terminatedEarlyAt, claimVars>>

ClaimEarlyTerminationBond(u) ==
    /\ claimableEarlyBond[u] > 0
    /\ claimableEarlyBond[u] <= totalEarlyBondRefunds
    /\ claimableEarlyBond[u] <= balance
    /\ claimableEarlyBond' = [claimableEarlyBond EXCEPT ![u] = 0]
    /\ totalEarlyBondRefunds' = totalEarlyBondRefunds - claimableEarlyBond[u]
    /\ balance' = balance - claimableEarlyBond[u]
    /\ UNCHANGED <<now, setupVars, ledgerVars, penaltyVars, requestVars,
                   resultVars, settlementVars>>
------------------------------------------------------------------------------
\* Who shares in the principal pool, and who in the fees, of the outcome.
PrincipalEligible(u) == outcome = "INVALID" \/ outcome = SideOf(u)
FeeEligible_AllOnInvalid(u) ==
    \/ outcome \in {"YES", "NO"} /\ SideOf(u) = outcome
    \/ outcome = "INVALID"
FeeEligible(u) ==
    \/ outcome \in {"YES", "NO"} /\ SideOf(u) = outcome
    \/ outcome = "INVALID" /\ SideOf(u) # "INVALID"

\* u's part of the principal pool; the last claimant takes what is left.
PoolDenominator_OfBook == BookStake(outcome)
PoolDenominator == IF outcome = "INVALID" THEN totalPrincipal
                   ELSE totalStake[outcome]
PrincipalPayout_OfRest(u) ==
    IF ~PrincipalEligible(u) THEN 0
    ELSE IF remainingEligibleClaims = 1 THEN remainingSettlementPool
    ELSE (remainingSettlementPool * Principal(u)) \div PoolDenominator
PrincipalPayout(u) ==
    IF ~PrincipalEligible(u) THEN 0
    ELSE IF remainingEligibleClaims = 1 THEN remainingSettlementPool
    ELSE (settlementPool * Principal(u)) \div PoolDenominator

\* The fees other users forfeited, shared by final principal.
FeeBonus(u) ==
    IF forfeitedBonusPool = 0 \/ BookStake(outcome) = 0 THEN 0
    ELSE (forfeitedBonusPool * Principal(u)) \div BookStake(outcome)

FeesDue(u) == u \notin marketFeeClaimed /\ FeeEligible(u)
FeePayout(u) ==
    IF ~FeesDue(u) THEN 0
    ELSE IF remainingMarketFeeClaims = 1 THEN marketFeeUserPoolRemaining
    ELSE EarnedFees(u)[outcome] + FeeBonus(u)

\* The requires that _claimSelectedMarketFees and the principal payout meet
\* before anything is paid: a claim that fails one of them reverts.
FeesCovered(u) ==
    FeesDue(u) =>
      /\ remainingMarketFeeClaims >= 1
      /\ remainingMarketFeeClaims > 1 =>
           /\ EarnedFees(u)[outcome] <= historicalFeePoolRemaining
           /\ FeeBonus(u) <= forfeitedBonusPoolRemaining
           /\ FeePayout(u) <= marketFeeUserPoolRemaining
PrincipalCovered(u) ==
    PrincipalEligible(u) =>
      /\ remainingEligibleClaims >= 1
      /\ remainingEligibleClaims > 1 => PoolDenominator > 0
      /\ PrincipalPayout(u) <= remainingSettlementPool

\* _claimSelectedMarketFees: the ledger of the fees paid to u.
ClaimSelectedMarketFees(u) ==
    /\ FeesCovered(u)
    /\ marketFeeClaimed' = marketFeeClaimed \cup {u}
    /\ marketFeeUserPoolRemaining' = marketFeeUserPoolRemaining - FeePayout(u)
    /\ IF ~FeesDue(u)
         THEN UNCHANGED <<historicalFeePoolRemaining,
                          forfeitedBonusPoolRemaining,
                          remainingMarketFeeClaims>>
         ELSE /\ remainingMarketFeeClaims' = remainingMarketFeeClaims - 1
              /\ IF remainingMarketFeeClaims = 1
                   THEN /\ historicalFeePoolRemaining' = 0
                        /\ forfeitedBonusPoolRemaining' = 0
                   ELSE /\ historicalFeePoolRemaining' =
                             historicalFeePoolRemaining - EarnedFees(u)[outcome]
                        /\ forfeitedBonusPoolRemaining' =
                             forfeitedBonusPoolRemaining - FeeBonus(u)
    /\ UNCHANGED <<forfeitedBonusPool, officialMarketFeesClaimable>>

Withdraw(u) ==
    /\ resolved /\ u \notin claimed /\ Principal(u) > 0
    /\ PrincipalCovered(u)
    /\ PrincipalPayout(u) + FeePayout(u) <= balance
    /\ Checkpoint(u)
    /\ ClaimSelectedMarketFees(u)
    /\ claimed' = claimed \cup {u}
    /\ remainingSettlementPool' = remainingSettlementPool - PrincipalPayout(u)
    /\ remainingEligibleClaims' =
         remainingEligibleClaims - (IF PrincipalEligible(u) THEN 1 ELSE 0)
    /\ balance' = balance - (PrincipalPayout(u) + FeePayout(u))
    /\ UNCHANGED <<now, setupVars, voteVars, feeVars, forfeitVars,
                   penaltyVars, requestVars, refundVars, resultVars,
                   settlementPool, emptySettlementClaimable>>

\* Anybody may trigger it; the fees go to u whoever calls.
ClaimMarketFeesFor(u) ==
    /\ resolved /\ Principal(u) > 0 /\ FeesDue(u)
    /\ FeePayout(u) <= balance
    /\ Checkpoint(u)
    /\ ClaimSelectedMarketFees(u)
    /\ balance' = balance - FeePayout(u)
    /\ UNCHANGED <<now, setupVars, voteVars, feeVars, forfeitVars,
                   penaltyVars, requestVars, refundVars, resultVars,
                   poolVars, claimed>>

ClaimEmptySettlement ==
    /\ resolved /\ totalPrincipal = 0
    /\ remainingSettlementPool > 0 /\ remainingSettlementPool <= balance
    /\ remainingSettlementPool' = 0 /\ emptySettlementClaimable' = 0
    /\ balance' = balance - remainingSettlementPool
    /\ UNCHANGED <<now, setupVars, ledgerVars, penaltyVars, requestVars,
                   refundVars, resultVars, settlementPool,
                   remainingEligibleClaims, rewardVars, claimVars>>

ClaimOfficialMarketFees ==
    /\ resolved
    /\ officialMarketFeesClaimable > 0 /\ officialMarketFeesClaimable <= balance
    /\ officialMarketFeesClaimable' = 0
    /\ balance' = balance - officialMarketFeesClaimable
    /\ UNCHANGED <<now, setupVars, ledgerVars, penaltyVars, requestVars,
                   refundVars, resultVars, poolVars,
                   marketFeeUserPoolRemaining, historicalFeePoolRemaining,
                   forfeitedBonusPool, forfeitedBonusPoolRemaining,
                   remainingMarketFeeClaims, claimVars>>

\* Both official payments, each of which may fail and then stays owed.
FlushOfficialPayments(feesPaid, emptyPaid) ==
    LET fees  == IF feesPaid THEN officialMarketFeesClaimable ELSE 0
        empty == IF emptyPaid /\ totalPrincipal = 0 THEN remainingSettlementPool ELSE 0
    IN  /\ resolved
        /\ officialMarketFeesClaimable > 0
             \/ (totalPrincipal = 0 /\ remainingSettlementPool > 0)
        /\ fees + empty <= balance
        /\ officialMarketFeesClaimable' = officialMarketFeesClaimable - fees
        /\ remainingSettlementPool' = remainingSettlementPool - empty
        /\ emptySettlementClaimable' =
             IF totalPrincipal = 0 /\ remainingSettlementPool > 0
               THEN remainingSettlementPool - empty ELSE emptySettlementClaimable
        /\ balance' = balance - (fees + empty)
        /\ UNCHANGED <<now, setupVars, ledgerVars, penaltyVars, requestVars,
                       refundVars, resultVars, settlementPool,
                       remainingEligibleClaims, marketFeeUserPoolRemaining,
                       historicalFeePoolRemaining, forfeitedBonusPool,
                       forfeitedBonusPoolRemaining, remainingMarketFeeClaims,
                       claimVars>>

\* What remains after every recorded debt is paid arrived uninvited.
ClaimSurplus ==
    /\ resolved
    /\ remainingSettlementPool = 0 /\ marketFeeUserPoolRemaining = 0
    /\ remainingEligibleClaims = 0 /\ remainingMarketFeeClaims = 0
    /\ officialMarketFeesClaimable = 0 /\ totalEarlyBondRefunds = 0
    /\ balance > 0
    /\ balance' = 0
    /\ UNCHANGED <<now, setupVars, ledgerVars, penaltyVars, requestVars,
                   refundVars, resultVars, settlementVars>>
------------------------------------------------------------------------------
\* Outside the contract: a plain token transfer to it, and the clock.  No
\* condition of the Core tells instants after ResolutionTime apart, so the
\* clock stops there.
Gift(amount) ==
    /\ Receive(amount)
    /\ UNCHANGED <<now, setupVars, ledgerVars, penaltyVars, requestVars,
                   refundVars, resultVars, settlementVars>>

Tick ==
    /\ now < ResolutionTime
    /\ now' = now + 1
    /\ UNCHANGED <<balance, setupVars, ledgerVars, penaltyVars, requestVars,
                   refundVars, resultVars, settlementVars>>

\* The transactions of the vault's own functions, and everything that happens.
Transaction ==
    \/ BindMarket
    \/ SetMarketCoordinator
    \/ \E m \in ExtraMarkets : AuthorizeAdditionalMarket(m)
    \/ \E u \in Users, s \in Side, a \in StakeAmounts : Stake(u, s, a)
    \/ \E u \in Users : ExitStake(u)
    \/ \E m \in ExtraMarkets \cup {Market}, a \in FeeAmounts : DepositMarketFee(m, a)
    \/ \E u \in Users, s \in Side : ProposeEarlyTermination(u, s)
    \/ ProcessEarlyTermination
    \/ Finalize
    \/ CancelUnlaunched
    \/ \E u \in Users : ClaimEarlyTerminationBond(u)
    \/ \E u \in Users : Withdraw(u)
    \/ \E u \in Users : ClaimMarketFeesFor(u)
    \/ ClaimEmptySettlement
    \/ ClaimOfficialMarketFees
    \/ \E f, e \in BOOLEAN : FlushOfficialPayments(f, e)
    \/ ClaimSurplus

Next ==
    \/ Transaction
    \/ MarketGraduates
    \/ \E a \in GiftAmounts : Gift(a)
    \/ Tick

Spec == Init /\ [][Next]_vars

\* The keeper that the deployment runs, stakers who want their money, and the
\* chain's clock: these happen when they can.  Everything else may never.
Fairness ==
    /\ WF_vars(Tick)
    /\ WF_vars(ProcessEarlyTermination)
    /\ WF_vars(Finalize)
    /\ \A u \in Users : WF_vars(Withdraw(u)) /\ WF_vars(ClaimEarlyTerminationBond(u))
    /\ WF_vars(ClaimOfficialMarketFees)
    /\ WF_vars(ClaimEmptySettlement)

FairSpec == Spec /\ Fairness
------------------------------------------------------------------------------
\* Every ledger keeps the shape of its Solidity type, unsigned integers all,
\* and the fraction of a token kept for later is less than a token.
SetupOK ==
    /\ permissionless \in BOOLEAN /\ earlyTerminationModule \in BOOLEAN
    /\ market \in {"none", "genesis", "formal"} /\ marketCoordinator \in BOOLEAN
    /\ authorizedMarkets \subseteq ExtraMarkets
VotesOK ==
    /\ stakeOf \in [Users -> [Side -> Nat]]
    /\ totalStake \in [Side -> Nat] /\ participants \in [Side -> Nat]
    /\ totalPrincipal \in Nat /\ totalParticipants \in Nat
FeesOK ==
    /\ feeIndex \in [Users -> [Book -> Nat]]
    /\ feeRemainder \in [Users -> [Book -> 0..(Precision - 1)]]
    /\ pendingFees \in [Users -> [Book -> Nat]]
    /\ accFeePerStake \in [Book -> Nat] /\ distributedFees \in [Book -> Nat]
    /\ totalMarketFeesAccrued \in Nat
    /\ forfeitedFees \in [Book -> Nat]
    /\ forfeitedRemainders \in [Book -> 0..(Precision - 1)]
RequestsOK ==
    /\ exitPenaltyPool \in Nat /\ failedProposalBondPool \in Nat
    /\ pending \in Request /\ proposalCount \in Nat /\ pendingBondEscrow \in Nat
    /\ claimableEarlyBond \in [Users -> Nat] /\ totalEarlyBondRefunds \in Nat
    /\ terminatedEarlyAt \in Nat /\ resolved \in BOOLEAN /\ outcome \in Outcome
    /\ resolved <=> outcome # "PENDING"
SettlementOK ==
    /\ settlementPool \in Nat /\ remainingSettlementPool \in Nat
    /\ emptySettlementClaimable \in Nat /\ remainingEligibleClaims \in Nat
    /\ marketFeeUserPoolRemaining \in Nat /\ historicalFeePoolRemaining \in Nat
    /\ forfeitedBonusPool \in Nat /\ forfeitedBonusPoolRemaining \in Nat
    /\ officialMarketFeesClaimable \in Nat /\ remainingMarketFeeClaims \in Nat
    /\ claimed \subseteq Users /\ marketFeeClaimed \subseteq Users

TypeOK == /\ now \in 0..ResolutionTime /\ balance \in Nat
          /\ SetupOK /\ VotesOK /\ FeesOK /\ RequestsOK /\ SettlementOK

\* What the vault owes at any moment, as _assertVaultSolvent adds it up.
Liabilities ==
    IF resolved
      THEN remainingSettlementPool + marketFeeUserPoolRemaining
             + officialMarketFeesClaimable + totalEarlyBondRefunds
      ELSE totalPrincipal + totalMarketFeesAccrued + exitPenaltyPool
             + failedProposalBondPool + pendingBondEscrow + totalEarlyBondRefunds

\* The vault can always pay everything it owes: the assertion at the end of
\* its functions never reverts one of them.
VaultSolvent == balance >= Liabilities

\* The bond in escrow is the bond of the one pending request, whose window
\* ends before the resolution; a settled topic holds neither (the snapshot's
\* EARLY_ESCROW_PENDING and the process's EARLY_ESCROW_CONFIG never revert).
EscrowBacksRequest ==
    /\ pending.id = 0 => pending = NoRequest /\ pendingBondEscrow = 0
    /\ pending.id # 0 => /\ pendingBondEscrow = pending.bond /\ pending.bond > 0
                         /\ pending.proposer \in Users
                         /\ pending.requestedOutcome \in {"YES", "NO"}
                         /\ pending.processAfter < ResolutionTime
                         /\ ~resolved

\* A claim that is due is never refused: the requires of a withdrawal and of
\* a fee claim hold for every staker who has not claimed yet, whatever the
\* others claimed before ("Reward exceeds pool" and its kin never revert).
NoClaimRefused ==
    resolved => \A u \in Users : Principal(u) > 0 =>
        /\ FeesCovered(u)
        /\ u \notin claimed =>
             PrincipalCovered(u) /\ PrincipalPayout(u) + FeePayout(u) <= balance

\* From the end of a request's window until somebody processes it nothing
\* that decides the outcome or the fees changes, however late that is.
VotesFrozenWhileDue ==
    [][ProcessingDue => UNCHANGED <<voteVars, historyVars, feeVars, forfeitVars>>]_vars

\* A settlement is final: no later call revises the result, the votes it
\* was taken from, or the pool that is shared.
SettlementIsFinal ==
    [][resolved => UNCHANGED <<resultVars, voteVars, feeVars, settlementPool,
                               forfeitedBonusPool>>]_vars

\* No claim pays less than its share: a withdrawal takes at least the pro
\* rata part of the pool, and the last one leaves nothing behind.
WithdrawalsPayTheShare ==
    [][\A u \in claimed' \ claimed : PrincipalEligible(u) =>
         /\ (remainingSettlementPool - remainingSettlementPool') * PoolDenominator
               > settlementPool * Principal(u) - PoolDenominator
         /\ remainingEligibleClaims' = 0 => remainingSettlementPool' = 0]_vars

\* Every topic settles: no request that is due, lost bond, exit or fee makes
\* its settlement revert for ever.
TopicSettles == <>resolved

\* Once it has, every staker is paid out: no order of claims blocks the last.
StakersArePaid ==
    \A u \in Users : (resolved /\ Principal(u) > 0) ~> u \in claimed

==============================================================================
