---------------------------- MODULE OCPCoreProofs ----------------------------
(***************************************************************************)
(* Proofs about OCPCore and about what its observers (OCPCoreHistory) say   *)
(* of it, for every value of its constants, in three parts.                 *)
(*                                                                         *)
(* The vault: its ledgers keep their types, it is solvent, the bond in      *)
(* escrow backs the pending request, the vote is frozen while a request is  *)
(* due and a settlement is final.  The invariants are proved together.      *)
(* VaultSolvent needs the types (every subtraction stays in Nat), the       *)
(* escrow's equality with the bond (so that a lost bond moves between two   *)
(* debts), and IndexBehind, without which a checkpoint could credit a       *)
(* negative amount.                                                         *)
(*                                                                         *)
(* Its history: it holds what it owes and the uninvited tokens to the last  *)
(* one, the fee history of a user shows what his stake earned to the last   *)
(* fraction, and the outcome is the vote as it stood at the deadline.  Each *)
(* has an inductive invariant of its own, on top of the first part's: every *)
(* step of the observed vault is one of the vault.                          *)
(*                                                                         *)
(* Its claims: no claim that is due is ever refused, a withdrawal takes its *)
(* pro rata share of the pool, a fee claim pays what was earned, and        *)
(* whoever claims last leaves nothing behind.  What one user can still      *)
(* claim depends on what all the others left in the pools, so the           *)
(* inductive invariant is about sums over all users.  VotesCounted: the     *)
(* totals of the vault are the sums of its users' stakes.  FeesBacked: a    *)
(* book never promises its stakers and leavers more than was distributed to *)
(* it, whatever is rounded.  ClaimsKept: each pool of a settled vault       *)
(* covers the shares of those who have not claimed, and each counter counts *)
(* them.                                                                    *)
(***************************************************************************)
EXTENDS OCPCoreHistory, SumLemmas, TLAPS

\* No user's fee history is ahead of the book it was last read from.
IndexBehind ==
    \A u \in Users, b \in Book : feeIndex[u][b] <= accFeePerStake[b]

IInv == TypeOK /\ IndexBehind /\ VaultSolvent /\ EscrowBacksRequest
------------------------------------------------------------------------------
\* Facts of arithmetic that the fee and penalty formulas rest on.
LEMMA Division ==
    ASSUME NEW a \in Nat, NEW d \in Nat, d > 0
    PROVE  a \div d \in Nat /\ a % d \in 0..(d - 1)
  OBVIOUS

LEMMA Product ==
    ASSUME NEW a \in Nat, NEW d \in Nat
    PROVE  a * d \in Nat
  OBVIOUS

\* What a leaver pays is at least nothing and at most his principal.
LEMMA PenaltyBounds ==
    ASSUME NEW p \in Nat
    PROVE  (p + 9) \div 10 \in Nat /\ (p > 0 => (p + 9) \div 10 <= p)
  OBVIOUS

\* The amounts read from typed ledgers are natural numbers.
LEMMA PrincipalType ==
    ASSUME VotesOK, NEW u \in Users
    PROVE  /\ Principal(u) \in Nat /\ SideOf(u) \in Side
           /\ ExitPenalty(u) \in Nat
           /\ Principal(u) > 0 => ExitPenalty(u) <= Principal(u)
  <1>1. Principal(u) \in Nat /\ SideOf(u) \in Side
    BY DEF VotesOK, Principal, SideOf, Side
  <1>2. QED
    BY <1>1, PenaltyBounds DEF ExitPenalty

LEMMA BookStakeType ==
    ASSUME VotesOK, NEW b \in Book
    PROVE  BookStake(b) \in Nat
  BY DEF VotesOK, BookStake, Book, Side

\* A checkpoint credits whole tokens and keeps a fraction, never less than 0.
LEMMA EarnedType ==
    ASSUME VotesOK, FeesOK, IndexBehind, NEW u \in Users
    PROVE  /\ EarnedFees(u) \in [Book -> Nat]
           /\ EarnedRemainder(u) \in [Book -> 0..(Precision - 1)]
  <1>1. ASSUME NEW b \in Book
        PROVE  Growth(u, b) \in Nat
    <2>1. EarningStake(u, b) \in Nat
      BY DEF VotesOK, EarningStake, Book, Side
    <2>2. accFeePerStake[b] - feeIndex[u][b] \in Nat /\ feeRemainder[u][b] \in Nat
      BY DEF FeesOK, IndexBehind
    <2>3. EarningStake(u, b) * (accFeePerStake[b] - feeIndex[u][b]) \in Nat
      BY <2>1, <2>2, Product
    <2>4. QED
      BY <2>2, <2>3 DEF Growth
  <1>2. ASSUME NEW b \in Book
        PROVE  /\ Growth(u, b) \div Precision \in Nat
               /\ Growth(u, b) % Precision \in 0..(Precision - 1)
    BY <1>1, Division, PrecisionAssumption
  <1>3. \A b \in Book : pendingFees[u][b] \in Nat
    BY DEF FeesOK
  <1>4. QED
    BY <1>2, <1>3 DEF EarnedFees, EarnedRemainder

LEMMA CheckpointTypes ==
    ASSUME VotesOK, FeesOK, IndexBehind, NEW u \in Users, Checkpoint(u),
           UNCHANGED <<feeVars, forfeitVars>>
    PROVE  FeesOK' /\ IndexBehind'
  <1>1. /\ EarnedFees(u) \in [Book -> Nat]
        /\ EarnedRemainder(u) \in [Book -> 0..(Precision - 1)]
    BY EarnedType
  <1>2. FeesOK'
    BY <1>1 DEF FeesOK, Checkpoint, feeVars, forfeitVars
  <1>3. IndexBehind'
    BY DEF FeesOK, Checkpoint, feeVars, forfeitVars, IndexBehind
  <1>4. QED
    BY <1>2, <1>3

\* What a settled vault is about to pay somebody is a natural number.
LEMMA PayoutTypes ==
    ASSUME VotesOK, FeesOK, IndexBehind, RequestsOK, SettlementOK, resolved,
           NEW u \in Users
    PROVE  /\ FeePayout(u) \in Nat /\ FeeBonus(u) \in Nat
           /\ EarnedFees(u)[outcome] \in Nat
           /\ PrincipalCovered(u) => PrincipalPayout(u) \in Nat
  <1>1. outcome \in Book
    BY DEF RequestsOK, Outcome, Book, Side
  <1>2. Principal(u) \in Nat
    BY PrincipalType
  <1>3. EarnedFees(u)[outcome] \in Nat
    BY <1>1, EarnedType
  <1>4. FeeBonus(u) \in Nat
    <2>1. BookStake(outcome) \in Nat
      BY <1>1, BookStakeType
    <2>2. forfeitedBonusPool * Principal(u) \in Nat
      BY <1>2, Product DEF SettlementOK
    <2>3. CASE BookStake(outcome) = 0
      BY <2>3 DEF FeeBonus
    <2>4. CASE BookStake(outcome) # 0
      <3>1. (forfeitedBonusPool * Principal(u)) \div BookStake(outcome) \in Nat
        BY <2>1, <2>2, <2>4, Division
      <3>2. QED
        BY <3>1 DEF FeeBonus
    <2>5. QED
      BY <2>3, <2>4
  <1>5. FeePayout(u) \in Nat
    BY <1>3, <1>4 DEF FeePayout, SettlementOK
  <1>6. ASSUME PrincipalCovered(u)
        PROVE  PrincipalPayout(u) \in Nat
    <2>1. PoolDenominator \in Nat
      BY <1>1 DEF PoolDenominator, VotesOK, Book
    <2>2. settlementPool * Principal(u) \in Nat
      BY <1>2, Product DEF SettlementOK
    <2>3. CASE ~PrincipalEligible(u) \/ remainingEligibleClaims = 1
      BY <2>3 DEF PrincipalPayout, SettlementOK
    <2>4. CASE PrincipalEligible(u) /\ remainingEligibleClaims # 1
      <3>1. PoolDenominator > 0
        BY <1>6, <2>4 DEF PrincipalCovered, SettlementOK
      <3>2. (settlementPool * Principal(u)) \div PoolDenominator \in Nat
        BY <2>1, <2>2, <3>1, Division
      <3>3. QED
        BY <3>2, <2>4 DEF PrincipalPayout
    <2>5. QED
      BY <2>3, <2>4
  <1>7. QED
    BY <1>3, <1>4, <1>5, <1>6

\* A fee claim that its requires let through takes no more than the pools
\* hold, and takes from the fee pool exactly what it pays.
LEMMA FeeClaimTypes ==
    ASSUME VotesOK, FeesOK, IndexBehind, RequestsOK, SettlementOK, resolved,
           NEW u \in Users, ClaimSelectedMarketFees(u)
    PROVE  /\ FeePayout(u) <= marketFeeUserPoolRemaining
           /\ marketFeeUserPoolRemaining' \in Nat
           /\ marketFeeUserPoolRemaining' = marketFeeUserPoolRemaining - FeePayout(u)
           /\ historicalFeePoolRemaining' \in Nat
           /\ forfeitedBonusPoolRemaining' \in Nat
           /\ remainingMarketFeeClaims' \in Nat
           /\ forfeitedBonusPool' = forfeitedBonusPool
           /\ officialMarketFeesClaimable' = officialMarketFeesClaimable
           /\ marketFeeClaimed' \subseteq Users
  <1>1. /\ FeePayout(u) \in Nat /\ FeeBonus(u) \in Nat
        /\ EarnedFees(u)[outcome] \in Nat
    BY PayoutTypes
  <1>2. FeePayout(u) <= marketFeeUserPoolRemaining
    BY DEF ClaimSelectedMarketFees, FeesCovered, FeePayout, SettlementOK
  <1>3. CASE FeesDue(u)
    BY <1>1, <1>2, <1>3 DEF ClaimSelectedMarketFees, FeesCovered, SettlementOK
  <1>4. CASE ~FeesDue(u)
    BY <1>1, <1>2, <1>4 DEF ClaimSelectedMarketFees, SettlementOK
  <1>5. QED
    BY <1>3, <1>4

\* A settlement turns the whole balance into debts of a settled vault.
LEMMA SnapshotTypes ==
    ASSUME VotesOK, FeesOK, SettlementOK, balance \in Nat,
           NEW o \in Book, NEW owed \in Nat, SnapshotSettlement(o, owed),
           UNCHANGED <<claimed, marketFeeClaimed>>
    PROVE  /\ SettlementOK' /\ resolved' = TRUE /\ outcome' = o
           /\ exitPenaltyPool' = 0 /\ failedProposalBondPool' = 0
           /\ remainingSettlementPool' + marketFeeUserPoolRemaining'
                + officialMarketFeesClaimable' + owed = balance
  BY DEF VotesOK, FeesOK, SettlementOK, SnapshotSettlement, Book, Side

\* The same for a settlement whose outcome is read from the vote.
LEMMA FinalizeTypes ==
    ASSUME VotesOK, FeesOK, SettlementOK, balance \in Nat,
           NEW owed \in Nat, FinalizeNow(owed),
           UNCHANGED <<claimed, marketFeeClaimed>>
    PROVE  /\ SettlementOK' /\ resolved' = TRUE /\ outcome' \in Book
           /\ exitPenaltyPool' = 0 /\ failedProposalBondPool' = 0
           /\ remainingSettlementPool' + marketFeeUserPoolRemaining'
                + officialMarketFeesClaimable' + owed = balance
  <1>1. PICK o \in Book : SnapshotSettlement(o, owed)
    BY DEF FinalizeNow, DerivedOutcome, Book, Side
  <1>2. QED
    BY <1>1, SnapshotTypes
------------------------------------------------------------------------------
\* The constructor's state satisfies the invariant.
LEMMA InitInvariant == Init => IInv
  <1> SUFFICES ASSUME Init PROVE IInv
    OBVIOUS
  <1> USE DEF Init, EmptyVault
  <1>1. VotesOK /\ FeesOK /\ SetupOK
    <2>1. 0 \in 0..(Precision - 1)
      BY PrecisionAssumption
    <2>2. ZeroBooks \in [Book -> Nat] /\ ZeroBooks \in [Book -> 0..(Precision - 1)]
      BY <2>1 DEF ZeroBooks
    <2>3. FeesOK
      BY <2>2 DEF FeesOK
    <2>4. QED
      BY <2>3 DEF VotesOK, SetupOK
  <1>2. RequestsOK /\ SettlementOK
    BY UsersAssumption DEF RequestsOK, SettlementOK, NoRequest, Request, Outcome, Side
  <1>3. now \in 0..ResolutionTime /\ balance \in Nat
    BY TimeAssumption
  <1>4. IndexBehind
    BY DEF IndexBehind, ZeroBooks
  <1>5. VaultSolvent
    BY DEF VaultSolvent, Liabilities
  <1>6. EscrowBacksRequest
    BY DEF EscrowBacksRequest, NoRequest
  <1>7. QED
    BY <1>1, <1>2, <1>3, <1>4, <1>5, <1>6 DEF IInv, TypeOK

\* A stake adds to the balance what it adds to the principal.
LEMMA StakeStep ==
    ASSUME IInv, NEW u \in Users, NEW s \in Side, NEW a \in StakeAmounts,
           Stake(u, s, a)
    PROVE  IInv'
  <1> USE DEF IInv, TypeOK
  <1>1. a \in Nat /\ Principal(u) \in Nat
    BY AmountsAssumption, PrincipalType
  <1>2. VotesOK'
    BY <1>1 DEF Stake, VotesOK
  <1>3. FeesOK' /\ IndexBehind'
    BY CheckpointTypes DEF Stake
  <1>4. SetupOK' /\ RequestsOK' /\ SettlementOK'
    BY DEF Stake, SetupOK, RequestsOK, SettlementOK, setupVars, penaltyVars,
           requestVars, refundVars, resultVars, settlementVars, poolVars,
           rewardVars, claimVars
  <1>5. now' \in 0..ResolutionTime /\ balance' \in Nat
    BY <1>1 DEF Stake, Receive
  <1>6. VaultSolvent'
    BY <1>1 DEF Stake, Receive, VaultSolvent, Liabilities, VotesOK, FeesOK,
                RequestsOK, StakingOpen, feeVars, penaltyVars, requestVars,
                refundVars, resultVars
  <1>7. EscrowBacksRequest'
    BY DEF Stake, EscrowBacksRequest, requestVars, resultVars
  <1>8. QED
    BY <1>2, <1>3, <1>4, <1>5, <1>6, <1>7

\* An exit takes the whole principal off the books; of it the refund leaves
\* the balance and the penalty stays, owed to the settlement.
LEMMA ExitStep ==
    ASSUME IInv, NEW u \in Users, ExitStake(u)
    PROVE  IInv'
  <1> USE DEF IInv, TypeOK
  <1>1. /\ Principal(u) \in Nat /\ SideOf(u) \in Side /\ ExitPenalty(u) \in Nat
        /\ ExitPenalty(u) <= Principal(u)
    BY PrincipalType DEF ExitStake
  <1>2. /\ EarnedFees(u) \in [Book -> Nat]
        /\ EarnedRemainder(u) \in [Book -> 0..(Precision - 1)]
    BY EarnedType
  <1>3. VotesOK'
    BY <1>1 DEF ExitStake, VotesOK
  <1>4. FeesOK'
    <2>1. /\ pendingFees' \in [Users -> [Book -> Nat]]
          /\ feeRemainder' \in [Users -> [Book -> 0..(Precision - 1)]]
          /\ feeIndex' \in [Users -> [Book -> Nat]]
      BY PrecisionAssumption DEF ExitStake, FeesOK, ZeroBooks
    <2>2. ASSUME NEW b \in Book
          PROVE  LET f == forfeitedRemainders[b] + EarnedRemainder(u)[b]
                 IN  f \div Precision \in Nat /\ f % Precision \in 0..(Precision - 1)
      <3>1. forfeitedRemainders[b] + EarnedRemainder(u)[b] \in Nat
        BY <1>2 DEF FeesOK
      <3>2. QED
        BY <3>1, Division, PrecisionAssumption
    <2>3. /\ forfeitedFees' \in [Book -> Nat]
          /\ forfeitedRemainders' \in [Book -> 0..(Precision - 1)]
      BY <1>2, <2>2 DEF ExitStake, FeesOK
    <2>4. QED
      BY <2>1, <2>3 DEF ExitStake, FeesOK, feeVars
  <1>5. IndexBehind'
    BY DEF ExitStake, IndexBehind, FeesOK, feeVars, ZeroBooks
  <1>6. SetupOK' /\ RequestsOK' /\ SettlementOK'
    <2>1. SetupOK'
      BY DEF ExitStake, SetupOK, setupVars
    <2>2. RequestsOK'
      BY <1>1 DEF ExitStake, RequestsOK, requestVars, refundVars, resultVars
    <2>3. SettlementOK'
      BY DEF ExitStake, SettlementOK, poolVars, rewardVars
    <2>4. QED
      BY <2>1, <2>2, <2>3
  <1>7. now' \in 0..ResolutionTime /\ balance' \in Nat
    BY <1>1 DEF ExitStake
  <1>8. VaultSolvent'
    BY <1>1 DEF ExitStake, VaultSolvent, Liabilities, VotesOK, FeesOK,
                RequestsOK, StakingOpen, feeVars, requestVars, refundVars,
                resultVars
  <1>9. EscrowBacksRequest'
    BY DEF ExitStake, EscrowBacksRequest, requestVars, resultVars
  <1>10. QED
    BY <1>3, <1>4, <1>5, <1>6, <1>7, <1>8, <1>9

\* A fee adds to the balance what it adds to the fees received, and no book
\* index ever moves back.
LEMMA DepositStep ==
    ASSUME IInv, NEW m \in ExtraMarkets \cup {Market}, NEW a \in FeeAmounts,
           DepositMarketFee(m, a)
    PROVE  IInv'
  <1> USE DEF IInv, TypeOK
  <1>1. a \in Nat
    BY AmountsAssumption
  <1>2. ASSUME NEW b \in Book
        PROVE  /\ accFeePerStake'[b] \in Nat /\ accFeePerStake[b] \in Nat
               /\ accFeePerStake'[b] >= accFeePerStake[b]
               /\ distributedFees'[b] \in Nat
    <2>1. BookStake(b) \in Nat /\ a * Precision \in Nat
      BY <1>1, BookStakeType, Product, PrecisionAssumption
    <2>2. BookStake(b) > 0 => (a * Precision) \div BookStake(b) \in Nat
      BY <2>1, Division
    <2>3. QED
      BY <1>1, <2>1, <2>2 DEF DepositMarketFee, FeesOK
  <1>3. FeesOK'
    <2>1. accFeePerStake' \in [Book -> Nat] /\ distributedFees' \in [Book -> Nat]
      BY <1>2 DEF DepositMarketFee
    <2>2. QED
      BY <1>1, <2>1 DEF DepositMarketFee, FeesOK, historyVars, forfeitVars
  <1>4. IndexBehind'
    <2>1. ASSUME NEW u \in Users, NEW b \in Book
          PROVE  feeIndex'[u][b] <= accFeePerStake'[b]
      <3>1. feeIndex'[u][b] = feeIndex[u][b] /\ feeIndex[u][b] \in Nat
        BY DEF DepositMarketFee, historyVars, FeesOK
      <3>2. QED
        BY <3>1, <1>2 DEF IndexBehind
    <2>2. QED
      BY <2>1 DEF IndexBehind
  <1>5. VotesOK' /\ SetupOK' /\ RequestsOK' /\ SettlementOK'
    BY DEF DepositMarketFee, VotesOK, SetupOK, RequestsOK, SettlementOK,
           setupVars, voteVars, penaltyVars, requestVars, refundVars,
           resultVars, settlementVars, poolVars, rewardVars, claimVars
  <1>6. now' \in 0..ResolutionTime /\ balance' \in Nat
    BY <1>1 DEF DepositMarketFee, Receive
  <1>7. VaultSolvent'
    BY <1>1 DEF DepositMarketFee, Receive, VaultSolvent, Liabilities, VotesOK,
                FeesOK, RequestsOK, voteVars, penaltyVars, requestVars,
                refundVars, resultVars
  <1>8. EscrowBacksRequest'
    BY DEF DepositMarketFee, EscrowBacksRequest, requestVars, resultVars
  <1>9. QED
    BY <1>3, <1>4, <1>5, <1>6, <1>7, <1>8

\* A proposal puts in escrow exactly what it brings.
LEMMA ProposeStep ==
    ASSUME IInv, NEW u \in Users, NEW s \in Side, ProposeEarlyTermination(u, s)
    PROVE  IInv'
  <1> USE DEF IInv, TypeOK
  <1>1. Bond \in Nat /\ Window \in Nat \ {0} /\ ResolutionTime \in Nat
    BY AmountsAssumption, TimeAssumption
  <1>2. pending' \in Request
    BY <1>1 DEF ProposeEarlyTermination, Request, RequestsOK, Outcome, Side
  <1>3. RequestsOK'
    BY <1>1, <1>2 DEF ProposeEarlyTermination, RequestsOK, penaltyVars,
                      refundVars, resultVars
  <1>4. SetupOK' /\ VotesOK' /\ FeesOK' /\ SettlementOK' /\ IndexBehind'
    BY DEF ProposeEarlyTermination, VotesOK, FeesOK, SetupOK, SettlementOK,
           IndexBehind, setupVars, ledgerVars, voteVars, historyVars, feeVars,
           forfeitVars, settlementVars, poolVars, rewardVars, claimVars
  <1>5. now' \in 0..ResolutionTime /\ balance' \in Nat
    BY <1>1 DEF ProposeEarlyTermination, Receive
  <1>6. VaultSolvent'
    BY <1>1 DEF ProposeEarlyTermination, StakingOpen, Receive, VaultSolvent,
                Liabilities, VotesOK, FeesOK, RequestsOK, ledgerVars, voteVars,
                feeVars, penaltyVars, refundVars, resultVars
  <1>7. EscrowBacksRequest'
    BY <1>1 DEF ProposeEarlyTermination, WindowFits, StakingOpen,
                EscrowBacksRequest, RequestsOK, resultVars
  <1>8. QED
    BY <1>3, <1>4, <1>5, <1>6, <1>7

\* What every way to settle has in common: the books are closed on a balance
\* that is split, to the token, among the debts of the settled vault.
LEMMA SettledInvariant ==
    ASSUME IInv, SettlementOK', resolved' = TRUE, outcome' \in Book,
           exitPenaltyPool' = 0, failedProposalBondPool' = 0,
           claimableEarlyBond' \in [Users -> Nat], totalEarlyBondRefunds' \in Nat,
           terminatedEarlyAt' \in Nat,
           pending' = NoRequest, pendingBondEscrow' = 0,
           remainingSettlementPool' + marketFeeUserPoolRemaining'
             + officialMarketFeesClaimable' + totalEarlyBondRefunds' = balance,
           UNCHANGED <<now, balance, setupVars, voteVars, historyVars, feeVars,
                       forfeitVars, proposalCount>>
    PROVE  IInv'
  <1> USE DEF IInv, TypeOK
  <1>1. RequestsOK'
    BY UsersAssumption DEF RequestsOK, NoRequest, Request, Outcome, Book, Side
  <1>2. SetupOK' /\ VotesOK' /\ FeesOK' /\ IndexBehind'
    BY DEF SetupOK, VotesOK, FeesOK, IndexBehind, setupVars, voteVars,
           historyVars, feeVars, forfeitVars
  <1>3. VaultSolvent'
    <2>1. Liabilities' = balance
      BY DEF Liabilities
    <2>2. balance' >= balance
      OBVIOUS
    <2>3. QED
      BY <2>1, <2>2 DEF VaultSolvent
  <1>4. EscrowBacksRequest'
    BY DEF EscrowBacksRequest, NoRequest
  <1>5. QED
    BY <1>1, <1>2, <1>3, <1>4

\* A processed request either settles, its bond owed to the proposer or
\* absorbed, or moves its bond from escrow to the pool of lost bonds.
LEMMA ProcessStep ==
    ASSUME IInv, ProcessEarlyRequest,
           UNCHANGED <<now, balance, setupVars, ledgerVars, proposalCount,
                       claimVars>>
    PROVE  IInv'
  <1> USE DEF IInv, TypeOK
  <1> DEFINE bond == pending.bond
             p == pending.proposer
  <1>1. /\ bond \in Nat /\ p \in Users /\ bond = pendingBondEscrow
        /\ pending.processAfter \in Nat /\ pending.id # 0
    BY DEF ProcessEarlyRequest, ProcessingDue, RequestsOK, Request, EscrowBacksRequest
  <1>2. UNCHANGED <<voteVars, historyVars, feeVars, forfeitVars>>
    BY DEF ledgerVars
  <1>3. UNCHANGED <<claimed, marketFeeClaimed>>
    BY DEF claimVars
  <1>4. pending' = NoRequest /\ pendingBondEscrow' = 0
    BY DEF ProcessEarlyRequest
  <1>5. CASE /\ claimableEarlyBond' = [claimableEarlyBond EXCEPT ![p] = @ + bond]
             /\ totalEarlyBondRefunds' = totalEarlyBondRefunds + bond
             /\ terminatedEarlyAt' = pending.processAfter
             /\ FinalizeNow(totalEarlyBondRefunds + bond)
    <2>1. /\ totalEarlyBondRefunds + bond \in Nat
          /\ claimableEarlyBond' \in [Users -> Nat]
      BY <1>1, <1>5 DEF RequestsOK
    <2> HIDE DEF bond
    <2>2. /\ SettlementOK' /\ resolved' = TRUE /\ outcome' \in Book
          /\ exitPenaltyPool' = 0 /\ failedProposalBondPool' = 0
          /\ remainingSettlementPool' + marketFeeUserPoolRemaining'
               + officialMarketFeesClaimable' + (totalEarlyBondRefunds + bond) = balance
      BY <2>1, <1>3, <1>5, FinalizeTypes
    <2>3. QED
      BY <1>1, <1>2, <1>4, <1>5, <2>1, <2>2, SettledInvariant
  <1>6. CASE /\ FinalizeNow(totalEarlyBondRefunds)
             /\ UNCHANGED <<refundVars, terminatedEarlyAt>>
    <2>1. totalEarlyBondRefunds \in Nat
      BY DEF RequestsOK
    <2>2. /\ SettlementOK' /\ resolved' = TRUE /\ outcome' \in Book
          /\ exitPenaltyPool' = 0 /\ failedProposalBondPool' = 0
          /\ remainingSettlementPool' + marketFeeUserPoolRemaining'
               + officialMarketFeesClaimable' + totalEarlyBondRefunds = balance
      BY <2>1, <1>3, <1>6, FinalizeTypes
    <2>3. /\ totalEarlyBondRefunds' = totalEarlyBondRefunds
          /\ claimableEarlyBond' \in [Users -> Nat] /\ terminatedEarlyAt' \in Nat
      BY <1>6 DEF refundVars, RequestsOK
    <2>4. QED
      BY <1>2, <1>4, <2>1, <2>2, <2>3, SettledInvariant
  <1>7. CASE /\ failedProposalBondPool' = failedProposalBondPool + bond
             /\ UNCHANGED <<refundVars, resultVars, exitPenaltyPool,
                            poolVars, rewardVars>>
    <2>1. RequestsOK'
      BY <1>1, <1>4, <1>7, UsersAssumption
         DEF RequestsOK, NoRequest, Request, Outcome, refundVars, resultVars
    <2>2. SetupOK' /\ VotesOK' /\ FeesOK' /\ IndexBehind' /\ SettlementOK'
      BY <1>2, <1>7 DEF SetupOK, VotesOK, FeesOK, IndexBehind, SettlementOK,
         setupVars, voteVars, historyVars, feeVars, forfeitVars, poolVars,
         rewardVars, claimVars
    <2>3. VaultSolvent'
      BY <1>1, <1>2, <1>4, <1>7 DEF VaultSolvent, Liabilities, VotesOK, FeesOK,
         RequestsOK, EscrowBacksRequest, voteVars, feeVars, refundVars, resultVars
    <2>4. EscrowBacksRequest'
      BY <1>4 DEF EscrowBacksRequest, NoRequest
    <2>5. QED
      BY <2>1, <2>2, <2>3, <2>4
  <1>8. QED
    BY <1>5, <1>6, <1>7 DEF ProcessEarlyRequest, RefundBond

\* The two other ways to settle find no request in escrow.
LEMMA FinalizeStep ==
    ASSUME IInv, Finalize
    PROVE  IInv'
  <1> USE DEF IInv, TypeOK
  <1>1. CASE pendingBondEscrow # 0 /\ ProcessEarlyRequest
    BY <1>1, ProcessStep DEF Finalize
  <1>2. CASE /\ pendingBondEscrow = 0
             /\ FinalizeNow(totalEarlyBondRefunds)
             /\ UNCHANGED <<pending, pendingBondEscrow, refundVars,
                            terminatedEarlyAt>>
    <2>1. pending' = NoRequest /\ pendingBondEscrow' = 0
      BY <1>2 DEF EscrowBacksRequest
    <2>2. /\ totalEarlyBondRefunds \in Nat
          /\ totalEarlyBondRefunds' = totalEarlyBondRefunds
          /\ claimableEarlyBond' \in [Users -> Nat] /\ terminatedEarlyAt' \in Nat
      BY <1>2 DEF refundVars, RequestsOK
    <2>3. /\ UNCHANGED <<now, balance, setupVars, voteVars, historyVars,
                         feeVars, forfeitVars, proposalCount>>
          /\ UNCHANGED <<claimed, marketFeeClaimed>>
      BY DEF Finalize, ledgerVars, claimVars
    <2>4. /\ SettlementOK' /\ resolved' = TRUE /\ outcome' \in Book
          /\ exitPenaltyPool' = 0 /\ failedProposalBondPool' = 0
          /\ remainingSettlementPool' + marketFeeUserPoolRemaining'
               + officialMarketFeesClaimable' + totalEarlyBondRefunds = balance
      BY <1>2, <2>2, <2>3, FinalizeTypes
    <2>5. QED
      BY <2>1, <2>2, <2>3, <2>4, SettledInvariant
  <1>3. QED
    BY <1>1, <1>2 DEF Finalize

LEMMA CancelStep ==
    ASSUME IInv, CancelUnlaunched
    PROVE  IInv'
  <1> USE DEF IInv, TypeOK
  <1>1. pending' = NoRequest /\ pendingBondEscrow' = 0
    BY DEF CancelUnlaunched, EscrowBacksRequest, requestVars
  <1>2. /\ totalEarlyBondRefunds \in Nat
        /\ totalEarlyBondRefunds' = totalEarlyBondRefunds
        /\ claimableEarlyBond' \in [Users -> Nat] /\ terminatedEarlyAt' \in Nat
    BY DEF CancelUnlaunched, refundVars, RequestsOK
  <1>3. /\ UNCHANGED <<now, balance, setupVars, voteVars, historyVars, feeVars,
                       forfeitVars, proposalCount>>
        /\ UNCHANGED <<claimed, marketFeeClaimed>>
    BY DEF CancelUnlaunched, ledgerVars, requestVars, claimVars
  <1>4. "INVALID" \in Book /\ SnapshotSettlement("INVALID", totalEarlyBondRefunds)
    BY DEF CancelUnlaunched, Book, Side
  <1>5. /\ SettlementOK' /\ resolved' = TRUE /\ outcome' \in Book
        /\ exitPenaltyPool' = 0 /\ failedProposalBondPool' = 0
        /\ remainingSettlementPool' + marketFeeUserPoolRemaining'
             + officialMarketFeesClaimable' + totalEarlyBondRefunds = balance
    BY <1>2, <1>3, <1>4, SnapshotTypes
  <1>6. QED
    BY <1>1, <1>2, <1>3, <1>5, SettledInvariant

\* A refunded bond leaves the balance and the debts together.
LEMMA ClaimBondStep ==
    ASSUME IInv, NEW u \in Users, ClaimEarlyTerminationBond(u)
    PROVE  IInv'
  <1> USE DEF IInv, TypeOK
  <1>1. claimableEarlyBond[u] \in Nat
    BY DEF RequestsOK
  <1>2. RequestsOK'
    BY <1>1 DEF ClaimEarlyTerminationBond, RequestsOK, penaltyVars,
                requestVars, resultVars
  <1>3. SetupOK' /\ VotesOK' /\ FeesOK' /\ IndexBehind' /\ SettlementOK'
    BY DEF ClaimEarlyTerminationBond, SetupOK, VotesOK, FeesOK, IndexBehind,
           SettlementOK, setupVars, ledgerVars, voteVars, historyVars, feeVars,
           forfeitVars, settlementVars, poolVars, rewardVars, claimVars
  <1>4. now' \in 0..ResolutionTime /\ balance' \in Nat
    BY <1>1 DEF ClaimEarlyTerminationBond
  <1>5. VaultSolvent'
    BY <1>1 DEF ClaimEarlyTerminationBond, VaultSolvent, Liabilities, VotesOK,
       FeesOK, RequestsOK, SettlementOK, ledgerVars, voteVars, feeVars,
       penaltyVars, requestVars, resultVars, settlementVars, poolVars, rewardVars
  <1>6. EscrowBacksRequest'
    BY DEF ClaimEarlyTerminationBond, EscrowBacksRequest, requestVars, resultVars
  <1>7. QED
    BY <1>2, <1>3, <1>4, <1>5, <1>6

\* A withdrawal takes from the two pools what it takes from the balance.
LEMMA WithdrawStep ==
    ASSUME IInv, NEW u \in Users, Withdraw(u)
    PROVE  IInv'
  <1> USE DEF IInv, TypeOK
  <1>1. resolved /\ PrincipalCovered(u) /\ ClaimSelectedMarketFees(u)
    BY DEF Withdraw
  <1>2. FeePayout(u) \in Nat /\ PrincipalPayout(u) \in Nat
    BY <1>1, PayoutTypes
  <1>3. PrincipalPayout(u) <= remainingSettlementPool
    BY <1>1 DEF PrincipalCovered, PrincipalPayout, SettlementOK
  <1>4. SettlementOK'
    <2>1. /\ marketFeeUserPoolRemaining' \in Nat
          /\ historicalFeePoolRemaining' \in Nat
          /\ forfeitedBonusPoolRemaining' \in Nat
          /\ remainingMarketFeeClaims' \in Nat
          /\ forfeitedBonusPool' \in Nat /\ officialMarketFeesClaimable' \in Nat
          /\ marketFeeClaimed' \subseteq Users
      BY <1>1, FeeClaimTypes DEF SettlementOK
    <2>2. remainingSettlementPool' \in Nat /\ remainingEligibleClaims' \in Nat
      BY <1>1, <1>2, <1>3 DEF Withdraw, PrincipalCovered, SettlementOK
    <2>3. QED
      BY <2>1, <2>2 DEF Withdraw, SettlementOK
  <1>5. FeesOK' /\ IndexBehind'
    BY CheckpointTypes DEF Withdraw
  <1>6. SetupOK' /\ VotesOK' /\ RequestsOK'
    BY DEF Withdraw, SetupOK, VotesOK, RequestsOK, setupVars, voteVars,
           penaltyVars, requestVars, refundVars, resultVars
  <1>7. now' \in 0..ResolutionTime /\ balance' \in Nat
    BY <1>2 DEF Withdraw
  <1>8. VaultSolvent'
    <2>1. /\ marketFeeUserPoolRemaining' = marketFeeUserPoolRemaining - FeePayout(u)
          /\ officialMarketFeesClaimable' = officialMarketFeesClaimable
      BY <1>1, FeeClaimTypes
    <2>2. QED
      BY <1>1, <1>2, <2>1 DEF Withdraw, VaultSolvent, Liabilities, SettlementOK,
         RequestsOK, refundVars, resultVars
  <1>9. EscrowBacksRequest'
    BY DEF Withdraw, EscrowBacksRequest, requestVars, resultVars
  <1>10. QED
    BY <1>4, <1>5, <1>6, <1>7, <1>8, <1>9

LEMMA ClaimFeesStep ==
    ASSUME IInv, NEW u \in Users, ClaimMarketFeesFor(u)
    PROVE  IInv'
  <1> USE DEF IInv, TypeOK
  <1>1. resolved /\ ClaimSelectedMarketFees(u)
    BY DEF ClaimMarketFeesFor
  <1>2. FeePayout(u) \in Nat
    BY <1>1, PayoutTypes
  <1>3. /\ marketFeeUserPoolRemaining' \in Nat
        /\ marketFeeUserPoolRemaining' = marketFeeUserPoolRemaining - FeePayout(u)
        /\ historicalFeePoolRemaining' \in Nat
        /\ forfeitedBonusPoolRemaining' \in Nat
        /\ remainingMarketFeeClaims' \in Nat
        /\ forfeitedBonusPool' = forfeitedBonusPool
        /\ officialMarketFeesClaimable' = officialMarketFeesClaimable
        /\ marketFeeClaimed' \subseteq Users
    BY <1>1, FeeClaimTypes
  <1>4. SettlementOK'
    BY <1>3 DEF ClaimMarketFeesFor, SettlementOK, poolVars
  <1>5. FeesOK' /\ IndexBehind'
    BY CheckpointTypes DEF ClaimMarketFeesFor
  <1>6. SetupOK' /\ VotesOK' /\ RequestsOK'
    BY DEF ClaimMarketFeesFor, SetupOK, VotesOK, RequestsOK, setupVars,
           voteVars, penaltyVars, requestVars, refundVars, resultVars
  <1>7. now' \in 0..ResolutionTime /\ balance' \in Nat
    BY <1>2 DEF ClaimMarketFeesFor
  <1>8. VaultSolvent'
    BY <1>1, <1>2, <1>3 DEF ClaimMarketFeesFor, VaultSolvent, Liabilities,
       SettlementOK, RequestsOK, refundVars, resultVars, poolVars
  <1>9. EscrowBacksRequest'
    BY DEF ClaimMarketFeesFor, EscrowBacksRequest, requestVars, resultVars
  <1>10. QED
    BY <1>4, <1>5, <1>6, <1>7, <1>8, <1>9

\* The four payments to the fixed recipient touch the pools and the balance.
LEMMA OfficialStep ==
    ASSUME IInv,
           \/ ClaimEmptySettlement
           \/ ClaimOfficialMarketFees
           \/ \E f, e \in BOOLEAN : FlushOfficialPayments(f, e)
           \/ ClaimSurplus
    PROVE  IInv'
  <1> USE DEF IInv, TypeOK
  <1>1. resolved /\ UNCHANGED <<now, setupVars, ledgerVars, penaltyVars,
                               requestVars, refundVars, resultVars, claimVars>>
    BY DEF ClaimEmptySettlement, ClaimOfficialMarketFees, FlushOfficialPayments,
           ClaimSurplus, settlementVars
  <1>2. SetupOK' /\ VotesOK' /\ FeesOK' /\ IndexBehind' /\ RequestsOK'
    BY <1>1 DEF SetupOK, VotesOK, FeesOK, IndexBehind, RequestsOK, setupVars,
       ledgerVars, voteVars, historyVars, feeVars, forfeitVars, penaltyVars,
       requestVars, refundVars, resultVars
  <1>3. EscrowBacksRequest'
    BY <1>1 DEF EscrowBacksRequest, requestVars, resultVars
  <1>4. SettlementOK' /\ balance' \in Nat /\ VaultSolvent'
    <2>1. claimed' \subseteq Users /\ marketFeeClaimed' \subseteq Users
      BY <1>1 DEF SettlementOK, claimVars
    <2>2. resolved' /\ totalEarlyBondRefunds' = totalEarlyBondRefunds
          /\ totalEarlyBondRefunds \in Nat
      BY <1>1 DEF refundVars, resultVars, RequestsOK
    <2>3. CASE ClaimEmptySettlement
      BY <1>1, <2>1, <2>2, <2>3 DEF ClaimEmptySettlement, SettlementOK,
         VaultSolvent, Liabilities, rewardVars
    <2>4. CASE ClaimOfficialMarketFees
      BY <1>1, <2>1, <2>2, <2>4 DEF ClaimOfficialMarketFees, SettlementOK,
         VaultSolvent, Liabilities, poolVars
    <2>5. CASE \E f, e \in BOOLEAN : FlushOfficialPayments(f, e)
      BY <1>1, <2>1, <2>2, <2>5 DEF FlushOfficialPayments, SettlementOK,
         VaultSolvent, Liabilities
    <2>6. CASE ClaimSurplus
      BY <1>1, <2>1, <2>2, <2>6 DEF ClaimSurplus, SettlementOK,
         VaultSolvent, Liabilities, settlementVars, poolVars, rewardVars
    <2>7. QED
      BY <2>3, <2>4, <2>5, <2>6
  <1>5. QED
    BY <1>1, <1>2, <1>3, <1>4

\* Setting the vault up, the market's graduation, a gift and the clock leave
\* every ledger alone; a gift only adds to the balance.
LEMMA OutsideStep ==
    ASSUME IInv,
           \/ BindMarket
           \/ SetMarketCoordinator
           \/ \E m \in ExtraMarkets : AuthorizeAdditionalMarket(m)
           \/ MarketGraduates
           \/ \E a \in GiftAmounts : Gift(a)
           \/ Tick
    PROVE  IInv'
  <1> USE DEF IInv, TypeOK
  <1>1. UNCHANGED <<ledgerVars, penaltyVars, requestVars, refundVars,
                   resultVars, settlementVars>>
    BY DEF BindMarket, SetMarketCoordinator, AuthorizeAdditionalMarket,
           MarketGraduates, Gift, Tick
  <1>2. now' \in 0..ResolutionTime /\ balance' \in Nat /\ balance' >= balance
    BY AmountsAssumption, TimeAssumption
       DEF BindMarket, SetMarketCoordinator, AuthorizeAdditionalMarket,
           MarketGraduates, Gift, Receive, Tick
  <1>3. SetupOK'
    BY DEF BindMarket, SetMarketCoordinator, AuthorizeAdditionalMarket,
           MarketGraduates, Gift, Tick, SetupOK, setupVars
  <1>4. VotesOK' /\ FeesOK' /\ IndexBehind' /\ RequestsOK' /\ SettlementOK'
    BY <1>1 DEF VotesOK, FeesOK, IndexBehind, RequestsOK, SettlementOK,
       ledgerVars, voteVars, historyVars, feeVars, forfeitVars, penaltyVars,
       requestVars, refundVars, resultVars, settlementVars, poolVars,
       rewardVars, claimVars
  <1>5. VaultSolvent'
    <2>1. Liabilities' = Liabilities
      BY <1>1 DEF Liabilities, ledgerVars, voteVars, feeVars, penaltyVars,
         requestVars, refundVars, resultVars, settlementVars, poolVars, rewardVars
    <2>2. Liabilities \in Nat
      BY DEF Liabilities, VotesOK, FeesOK, RequestsOK, SettlementOK
    <2>3. QED
      BY <1>2, <2>1, <2>2 DEF VaultSolvent
  <1>6. EscrowBacksRequest'
    BY <1>1 DEF EscrowBacksRequest, requestVars, resultVars
  <1>7. QED
    BY <1>2, <1>3, <1>4, <1>5, <1>6

LEMMA StutterStep ==
    ASSUME IInv, UNCHANGED vars
    PROVE  IInv'
  <1> USE DEF IInv, TypeOK
  <1>1. /\ UNCHANGED <<now, balance, setupVars>>
        /\ UNCHANGED <<ledgerVars, penaltyVars, requestVars, refundVars,
                       resultVars, settlementVars>>
    BY DEF vars
  <1>2. SetupOK' /\ VotesOK' /\ FeesOK' /\ IndexBehind' /\ RequestsOK' /\ SettlementOK'
    BY <1>1 DEF SetupOK, VotesOK, FeesOK, IndexBehind, RequestsOK, SettlementOK,
       setupVars, ledgerVars, voteVars, historyVars, feeVars, forfeitVars,
       penaltyVars, requestVars, refundVars, resultVars, settlementVars,
       poolVars, rewardVars, claimVars
  <1>3. VaultSolvent'
    BY <1>1 DEF VaultSolvent, Liabilities, ledgerVars, voteVars, feeVars,
       penaltyVars, requestVars, refundVars, resultVars, settlementVars,
       poolVars, rewardVars
  <1>4. EscrowBacksRequest'
    BY <1>1 DEF EscrowBacksRequest, requestVars, resultVars
  <1>5. QED
    BY <1>1, <1>2, <1>3, <1>4

\* Every step of the vault preserves the invariant.
LEMMA StepInvariant == IInv /\ [Next]_vars => IInv'
  <1> SUFFICES ASSUME IInv, [Next]_vars PROVE IInv'
    OBVIOUS
  <1>1. ASSUME NEW u \in Users, NEW s \in Side, NEW a \in StakeAmounts, Stake(u, s, a)
        PROVE  IInv'
    BY <1>1, StakeStep
  <1>2. ASSUME NEW u \in Users, ExitStake(u) PROVE IInv'
    BY <1>2, ExitStep
  <1>3. ASSUME NEW m \in ExtraMarkets \cup {Market}, NEW a \in FeeAmounts,
               DepositMarketFee(m, a)
        PROVE  IInv'
    BY <1>3, DepositStep
  <1>4. ASSUME NEW u \in Users, NEW s \in Side, ProposeEarlyTermination(u, s)
        PROVE  IInv'
    BY <1>4, ProposeStep
  <1>5. CASE ProcessEarlyTermination
    BY <1>5, ProcessStep DEF ProcessEarlyTermination, ledgerVars
  <1>6. CASE Finalize
    BY <1>6, FinalizeStep
  <1>7. CASE CancelUnlaunched
    BY <1>7, CancelStep
  <1>8. ASSUME NEW u \in Users, ClaimEarlyTerminationBond(u) PROVE IInv'
    BY <1>8, ClaimBondStep
  <1>9. ASSUME NEW u \in Users, Withdraw(u) PROVE IInv'
    BY <1>9, WithdrawStep
  <1>10. ASSUME NEW u \in Users, ClaimMarketFeesFor(u) PROVE IInv'
    BY <1>10, ClaimFeesStep
  <1>11. CASE \/ ClaimEmptySettlement
              \/ ClaimOfficialMarketFees
              \/ \E f, e \in BOOLEAN : FlushOfficialPayments(f, e)
              \/ ClaimSurplus
    BY <1>11, OfficialStep
  <1>12. CASE \/ BindMarket
              \/ SetMarketCoordinator
              \/ \E m \in ExtraMarkets : AuthorizeAdditionalMarket(m)
              \/ MarketGraduates
              \/ \E a \in GiftAmounts : Gift(a)
              \/ Tick
    BY <1>12, OutsideStep
  <1>13. CASE UNCHANGED vars
    BY <1>13, StutterStep
  <1>14. QED
    BY <1>1, <1>2, <1>3, <1>4, <1>5, <1>6, <1>7, <1>8, <1>9, <1>10, <1>11,
       <1>12, <1>13 DEF Next, Transaction

LEMMA Invariance == Spec => []IInv
  <1>1. QED
    BY InitInvariant, StepInvariant, PTL DEF Spec
------------------------------------------------------------------------------
\* Every ledger of the vault keeps its type: no subtraction that the code
\* writes on unsigned integers ever goes below zero.
THEOREM TypeCorrect == Spec => []TypeOK
  <1>1. IInv => TypeOK
    BY DEF IInv
  <1>2. QED
    BY <1>1, Invariance, PTL

\* The vault holds at least what it owes, before and after settlement, in
\* whatever order its functions are called: _assertVaultSolvent never reverts.
THEOREM Solvency == Spec => []VaultSolvent
  <1>1. IInv => VaultSolvent
    BY DEF IInv
  <1>2. QED
    BY <1>1, Invariance, PTL

\* The Core's escrow and the module's pending request always agree, although
\* two contracts keep them, and no settlement happens over a pending request.
THEOREM EscrowCorrect == Spec => []EscrowBacksRequest
  <1>1. IInv => EscrowBacksRequest
    BY DEF IInv
  <1>2. QED
    BY <1>1, Invariance, PTL

\* While an expired request waits for somebody to process it, no step moves
\* the vote, a user's fee history or a fee book.  The claims, which do write
\* fee histories, are excluded because a pending request means the topic has
\* not settled (EscrowBacksRequest).
THEOREM FrozenWhileDue == Spec => VotesFrozenWhileDue
  <1> DEFINE Frozen == UNCHANGED <<voteVars, historyVars, feeVars, forfeitVars>>
  <1>1. IInv /\ [Next]_vars => [ProcessingDue => Frozen]_vars
    <2> SUFFICES ASSUME IInv, Next, ProcessingDue
                 PROVE  Frozen
      OBVIOUS
    <2>1. pending.id # 0 /\ ~resolved
      BY DEF IInv, EscrowBacksRequest, ProcessingDue
    <2>2. ASSUME NEW u \in Users
          PROVE  ~ Withdraw(u) /\ ~ ClaimMarketFeesFor(u) /\ ~ ExitStake(u)
      BY <2>1 DEF Withdraw, ClaimMarketFeesFor, ExitStake, StakingOpen
    <2>3. ASSUME NEW u \in Users, NEW s \in Side, NEW a \in StakeAmounts
          PROVE  ~ Stake(u, s, a)
      BY DEF Stake, StakingOpen
    <2>4. ASSUME NEW m \in ExtraMarkets \cup {Market}, NEW a \in FeeAmounts
          PROVE  ~ DepositMarketFee(m, a)
      BY DEF DepositMarketFee
    <2>5. UNCHANGED ledgerVars
      BY <2>1, <2>2, <2>3, <2>4
         DEF Next, Transaction, BindMarket, SetMarketCoordinator,
             AuthorizeAdditionalMarket, ProposeEarlyTermination,
             ProcessEarlyTermination, Finalize, CancelUnlaunched,
             ClaimEarlyTerminationBond, ClaimEmptySettlement,
             ClaimOfficialMarketFees, FlushOfficialPayments, ClaimSurplus,
             MarketGraduates, Gift, Tick
    <2>6. QED
      BY <2>5 DEF ledgerVars
  <1>2. QED
    BY <1>1, Invariance, PTL DEF Spec, VotesFrozenWhileDue

\* What every step of a settled vault leaves alone.
LEMMA SettledStep ==
    ASSUME Next, resolved
    PROVE  UNCHANGED <<resultVars, voteVars, feeVars, settlementPool,
                       forfeitedBonusPool>>
  <1> DEFINE Final == UNCHANGED <<resultVars, voteVars, feeVars, settlementPool,
                                  forfeitedBonusPool>>
  <1> SUFFICES Final
    OBVIOUS
  <1>1. ASSUME NEW u \in Users, ExitStake(u) PROVE Final
    BY <1>1 DEF ExitStake, StakingOpen
  <1>2. ASSUME NEW u \in Users, Withdraw(u) PROVE Final
    BY <1>2 DEF Withdraw, ClaimSelectedMarketFees
  <1>3. ASSUME NEW u \in Users, ClaimMarketFeesFor(u) PROVE Final
    BY <1>3 DEF ClaimMarketFeesFor, ClaimSelectedMarketFees, poolVars
  <1>4. ASSUME NEW u \in Users, NEW s \in Side, NEW a \in StakeAmounts, Stake(u, s, a)
        PROVE  Final
    BY <1>4 DEF Stake, StakingOpen
  <1>5. ASSUME NEW u \in Users, NEW s \in Side, ProposeEarlyTermination(u, s)
        PROVE  Final
    BY <1>5 DEF ProposeEarlyTermination, StakingOpen
  <1>6. ASSUME NEW m \in ExtraMarkets \cup {Market}, NEW a \in FeeAmounts,
               DepositMarketFee(m, a)
        PROVE  Final
    BY <1>6 DEF DepositMarketFee
  <1>7. CASE ProcessEarlyTermination \/ Finalize \/ CancelUnlaunched
    BY <1>7 DEF ProcessEarlyTermination, Finalize, CancelUnlaunched
  <1>8. ASSUME NEW u \in Users, ClaimEarlyTerminationBond(u) PROVE Final
    BY <1>8 DEF ClaimEarlyTerminationBond, ledgerVars, settlementVars,
                poolVars, rewardVars
  <1>9. CASE ClaimEmptySettlement \/ ClaimOfficialMarketFees \/ ClaimSurplus
    BY <1>9 DEF ClaimEmptySettlement, ClaimOfficialMarketFees, ClaimSurplus,
                ledgerVars, settlementVars, poolVars, rewardVars
  <1>10. CASE \E f, e \in BOOLEAN : FlushOfficialPayments(f, e)
    BY <1>10 DEF FlushOfficialPayments, ledgerVars
  <1>11. CASE \/ BindMarket \/ SetMarketCoordinator \/ MarketGraduates \/ Tick
              \/ \E m \in ExtraMarkets : AuthorizeAdditionalMarket(m)
              \/ \E a \in GiftAmounts : Gift(a)
    BY <1>11 DEF BindMarket, SetMarketCoordinator, MarketGraduates, Tick, Gift,
                 AuthorizeAdditionalMarket, ledgerVars, settlementVars,
                 poolVars, rewardVars
  <1> HIDE DEF Final
  <1>12. QED
    BY <1>1, <1>2, <1>3, <1>4, <1>5, <1>6, <1>7, <1>8, <1>9, <1>10, <1>11
       DEF Next, Transaction

\* Once settled, no call changes the result, the votes it was taken from, the
\* pool that is shared or the fees that were forfeited into it.
THEOREM FinalSettlement == Spec => SettlementIsFinal
  <1> DEFINE Final == UNCHANGED <<resultVars, voteVars, feeVars, settlementPool,
                                  forfeitedBonusPool>>
  <1>1. [Next]_vars => [resolved => Final]_vars
    <2> SUFFICES ASSUME Next, resolved
                 PROVE  Final
      OBVIOUS
    <2>1. QED
      BY SettledStep
  <1>2. QED
    BY <1>1, PTL DEF Spec, SettlementIsFinal

------------------------------------------------------------------------------
(* The history of the vault. *)

\* The steps that are not a gift, as ObserveGifts tells them apart.
OwnStep == Transaction \/ MarketGraduates \/ Tick

\* The observations restrict nothing: an observed step is a step of the vault.
LEMMA ObservedIsAStep == [HNext]_hvars => [Next]_vars
  BY DEF HNext, ObserveGifts, Next, hvars

LEMMA ObservedInvariance == HSpec => []IInv
  <1>1. HInit => IInv
    BY InitInvariant DEF HInit
  <1>2. IInv /\ [HNext]_hvars => IInv'
    BY ObservedIsAStep, StepInvariant
  <1>3. QED
    BY <1>1, <1>2, PTL DEF HSpec

\* What a step does to the ledgers of stakes and fees: it leaves them alone, or
\* it is one of the five that write them.
LEMMA LedgerSteps ==
    ASSUME [Next]_vars
    PROVE  \/ UNCHANGED ledgerVars
           \/ \E u \in Users, s \in Side, a \in StakeAmounts : Stake(u, s, a)
           \/ \E u \in Users : ExitStake(u)
           \/ \E m \in ExtraMarkets \cup {Market}, a \in FeeAmounts : DepositMarketFee(m, a)
           \/ \E u \in Users : Withdraw(u) \/ ClaimMarketFeesFor(u)
  <1>1. CASE UNCHANGED vars
    BY <1>1 DEF vars
  <1>2. CASE MarketGraduates \/ Tick \/ \E a \in GiftAmounts : Gift(a)
    BY <1>2 DEF MarketGraduates, Tick, Gift
  <1>3. CASE Transaction
    BY <1>3 DEF Transaction, BindMarket, SetMarketCoordinator,
             AuthorizeAdditionalMarket, ProposeEarlyTermination,
             ProcessEarlyTermination, Finalize, CancelUnlaunched,
             ClaimEarlyTerminationBond, ClaimEmptySettlement,
             ClaimOfficialMarketFees, FlushOfficialPayments, ClaimSurplus
  <1>4. QED
    BY <1>1, <1>2, <1>3 DEF Next
------------------------------------------------------------------------------
(* The balance.                                                            *)

\* The three ways a step can move tokens and debts: together; into a
\* settlement, which owes out everything there is; or, the surplus, out of a
\* vault that owes nothing.
Together ==
    /\ resolved' = resolved
    /\ balance' + Liabilities = balance + Liabilities'
    /\ ~ (resolved /\ Liabilities = 0 /\ balance' < balance)
Settles == ~resolved /\ resolved' /\ balance' = balance /\ Liabilities' = balance
Empties == /\ resolved /\ resolved' /\ Liabilities = 0 /\ Liabilities' = 0
           /\ balance' = 0 /\ balance > 0

LEMMA LiabilitiesType ==
    ASSUME TypeOK
    PROVE  Liabilities \in Nat /\ balance \in Nat
  BY DEF TypeOK, Liabilities, VotesOK, FeesOK, RequestsOK, SettlementOK

\* The sums above are natural numbers; stated for any numbers, because the
\* solver does not find it of primed variables.
LEMMA SumOfNats ==
    \A x1, x2, x3, x4, x5, x6 \in Nat :
        x1 + x2 + x3 + x4 \in Nat /\ x1 + x2 + x3 + x4 + x5 + x6 \in Nat
  OBVIOUS

LEMMA LiabilitiesTypeNext ==
    ASSUME TypeOK'
    PROVE  Liabilities' \in Nat /\ balance' \in Nat
  <1>1. /\ remainingSettlementPool' \in Nat /\ marketFeeUserPoolRemaining' \in Nat
        /\ officialMarketFeesClaimable' \in Nat
    BY DEF TypeOK, SettlementOK
  <1>2. /\ totalEarlyBondRefunds' \in Nat /\ exitPenaltyPool' \in Nat
        /\ failedProposalBondPool' \in Nat /\ pendingBondEscrow' \in Nat
    BY DEF TypeOK, RequestsOK
  <1>3. /\ totalPrincipal' \in Nat /\ totalMarketFeesAccrued' \in Nat
        /\ balance' \in Nat
    BY DEF TypeOK, VotesOK, FeesOK
  <1>4. /\ remainingSettlementPool' + marketFeeUserPoolRemaining'
             + officialMarketFeesClaimable' + totalEarlyBondRefunds' \in Nat
        /\ totalPrincipal' + totalMarketFeesAccrued' + exitPenaltyPool'
             + failedProposalBondPool' + pendingBondEscrow'
             + totalEarlyBondRefunds' \in Nat
    BY ZenonT(60), <1>1, <1>2, <1>3, SumOfNats
  <1>5. QED
    BY <1>3, <1>4 DEF Liabilities

LEMMA SettlementBooks ==
    ASSUME ~resolved, resolved' = TRUE, balance' = balance,
           remainingSettlementPool' + marketFeeUserPoolRemaining'
             + officialMarketFeesClaimable' + totalEarlyBondRefunds' = balance
    PROVE  Settles
  BY DEF Settles, Liabilities

LEMMA ProcessBooks ==
    ASSUME IInv, ~resolved, ProcessEarlyRequest,
           UNCHANGED <<balance, ledgerVars, claimVars>>
    PROVE  Together \/ Settles
  <1> USE DEF IInv, TypeOK
  <1> DEFINE bond == pending.bond
  <1>1. bond \in Nat /\ bond = pendingBondEscrow /\ totalEarlyBondRefunds \in Nat
    BY DEF ProcessEarlyRequest, RequestsOK, Request
  <1>2. UNCHANGED <<claimed, marketFeeClaimed>> /\ balance' = balance
    BY DEF claimVars
  <1>3. CASE /\ totalEarlyBondRefunds' = totalEarlyBondRefunds + bond
             /\ FinalizeNow(totalEarlyBondRefunds + bond)
    <2>1. totalEarlyBondRefunds + bond \in Nat
      BY <1>1
    <2> HIDE DEF bond
    <2>2. QED
      BY <1>2, <1>3, <2>1, FinalizeTypes, SettlementBooks
  <1>4. CASE /\ FinalizeNow(totalEarlyBondRefunds)
             /\ totalEarlyBondRefunds' = totalEarlyBondRefunds
    BY <1>1, <1>2, <1>4, FinalizeTypes, SettlementBooks
  <1>5. CASE /\ failedProposalBondPool' = failedProposalBondPool + bond
             /\ UNCHANGED <<refundVars, resultVars, exitPenaltyPool,
                            poolVars, rewardVars>>
    <2>1. pendingBondEscrow' = 0
      BY DEF ProcessEarlyRequest
    <2>2. Together
      BY <1>1, <1>2, <1>5, <2>1 DEF Together, Liabilities, VotesOK, FeesOK,
         RequestsOK, refundVars, resultVars, ledgerVars, voteVars, feeVars
    <2>3. QED
      BY <2>2
  <1>6. QED
    BY <1>3, <1>4, <1>5 DEF ProcessEarlyRequest, RefundBond, refundVars

LEMMA SettlingBooks ==
    ASSUME IInv, ProcessEarlyTermination \/ Finalize \/ CancelUnlaunched
    PROVE  Together \/ Settles
  <1> USE DEF IInv, TypeOK
  <1>1. /\ ~resolved /\ UNCHANGED <<balance, ledgerVars, claimVars>>
        /\ UNCHANGED <<claimed, marketFeeClaimed>> /\ balance' = balance
        /\ totalEarlyBondRefunds \in Nat
    BY DEF ProcessEarlyTermination, Finalize, CancelUnlaunched, claimVars,
           RequestsOK
  <1>2. CASE ProcessEarlyRequest
    BY <1>1, <1>2, ProcessBooks
  <1>3. CASE /\ FinalizeNow(totalEarlyBondRefunds)
             /\ totalEarlyBondRefunds' = totalEarlyBondRefunds
    BY <1>1, <1>3, FinalizeTypes, SettlementBooks
  <1>4. CASE CancelUnlaunched
    <2>1. /\ "INVALID" \in Book
          /\ SnapshotSettlement("INVALID", totalEarlyBondRefunds)
          /\ totalEarlyBondRefunds' = totalEarlyBondRefunds
      BY <1>4 DEF CancelUnlaunched, refundVars, Book, Side
    <2>2. QED
      BY <1>1, <2>1, SnapshotTypes, SettlementBooks
  <1>5. QED
    BY <1>2, <1>3, <1>4 DEF ProcessEarlyTermination, Finalize, refundVars

\* Staking, leaving, fees and proposals: what comes in or goes out is booked.
LEMMA OpenBooks ==
    ASSUME IInv,
           \/ \E u \in Users, s \in Side, a \in StakeAmounts : Stake(u, s, a)
           \/ \E u \in Users : ExitStake(u)
           \/ \E m \in ExtraMarkets \cup {Market}, a \in FeeAmounts : DepositMarketFee(m, a)
           \/ \E u \in Users, s \in Side : ProposeEarlyTermination(u, s)
    PROVE  Together
  <1> USE DEF IInv, TypeOK, Together, Liabilities, VotesOK, FeesOK, RequestsOK,
              feeVars, penaltyVars, refundVars, resultVars
  <1>1. ASSUME NEW u \in Users, NEW s \in Side, NEW a \in StakeAmounts, Stake(u, s, a)
        PROVE  Together
    <2>1. a \in Nat
      BY AmountsAssumption
    <2>2. QED
      BY <1>1, <2>1 DEF Stake, StakingOpen, Receive, requestVars
  <1>2. ASSUME NEW u \in Users, ExitStake(u) PROVE Together
    <2>1. Principal(u) \in Nat /\ ExitPenalty(u) \in Nat
      BY PrincipalType
    <2>2. QED
      BY <1>2, <2>1 DEF ExitStake, StakingOpen, requestVars
  <1>3. ASSUME NEW m \in ExtraMarkets \cup {Market}, NEW a \in FeeAmounts,
               DepositMarketFee(m, a)
        PROVE  Together
    <2>1. a \in Nat
      BY AmountsAssumption
    <2>2. QED
      BY <1>3, <2>1 DEF DepositMarketFee, Receive, requestVars, voteVars
  <1>4. ASSUME NEW u \in Users, NEW s \in Side, ProposeEarlyTermination(u, s)
        PROVE  Together
    <2>1. Bond \in Nat
      BY AmountsAssumption
    <2>2. QED
      BY <1>4, <2>1 DEF ProposeEarlyTermination, StakingOpen, Receive,
         ledgerVars, voteVars
  <1>5. QED
    BY <1>1, <1>2, <1>3, <1>4

\* The claims: what is paid out is written off, and the surplus is what is
\* left of a vault that owes nothing.
LEMMA ClaimBooks ==
    ASSUME IInv, IInv',
           \/ \E u \in Users : ClaimEarlyTerminationBond(u)
           \/ \E u \in Users : Withdraw(u)
           \/ \E u \in Users : ClaimMarketFeesFor(u)
           \/ ClaimEmptySettlement
           \/ ClaimOfficialMarketFees
           \/ \E f, e \in BOOLEAN : FlushOfficialPayments(f, e)
           \/ ClaimSurplus
    PROVE  Together \/ Empties
  <1> USE DEF IInv, TypeOK
  <1>1. ASSUME NEW u \in Users, ClaimEarlyTerminationBond(u) PROVE Together
    BY <1>1 DEF ClaimEarlyTerminationBond, Together, Liabilities, VotesOK,
       FeesOK, RequestsOK, SettlementOK, ledgerVars, voteVars, feeVars,
       penaltyVars, requestVars, resultVars, settlementVars, poolVars, rewardVars
  <1>2. ASSUME NEW u \in Users, Withdraw(u) PROVE Together
    <2>1. resolved /\ PrincipalCovered(u) /\ ClaimSelectedMarketFees(u)
      BY <1>2 DEF Withdraw
    <2>2. FeePayout(u) \in Nat /\ PrincipalPayout(u) \in Nat
      BY <2>1, PayoutTypes
    <2>3. PrincipalPayout(u) <= remainingSettlementPool
      BY <2>1 DEF PrincipalCovered, PrincipalPayout, SettlementOK
    <2>4. /\ FeePayout(u) <= marketFeeUserPoolRemaining
          /\ marketFeeUserPoolRemaining' = marketFeeUserPoolRemaining - FeePayout(u)
          /\ officialMarketFeesClaimable' = officialMarketFeesClaimable
      BY <2>1, FeeClaimTypes
    <2>5. QED
      BY <1>2, <2>1, <2>2, <2>3, <2>4 DEF Withdraw, Together, Liabilities,
         RequestsOK, SettlementOK, refundVars, resultVars
  <1>3. ASSUME NEW u \in Users, ClaimMarketFeesFor(u) PROVE Together
    <2>1. resolved /\ ClaimSelectedMarketFees(u)
      BY <1>3 DEF ClaimMarketFeesFor
    <2>2. FeePayout(u) \in Nat
      BY <2>1, PayoutTypes
    <2>3. /\ FeePayout(u) <= marketFeeUserPoolRemaining
          /\ marketFeeUserPoolRemaining' = marketFeeUserPoolRemaining - FeePayout(u)
          /\ officialMarketFeesClaimable' = officialMarketFeesClaimable
      BY <2>1, FeeClaimTypes
    <2>4. QED
      BY <1>3, <2>1, <2>2, <2>3 DEF ClaimMarketFeesFor, Together, Liabilities,
         RequestsOK, SettlementOK, refundVars, resultVars, poolVars
  <1>4. CASE ClaimEmptySettlement
    BY <1>4 DEF ClaimEmptySettlement, Together, Liabilities, RequestsOK,
       SettlementOK, refundVars, resultVars, rewardVars
  <1>5. CASE ClaimOfficialMarketFees
    BY <1>5 DEF ClaimOfficialMarketFees, Together, Liabilities, RequestsOK,
       SettlementOK, refundVars, resultVars, poolVars
  <1>6. ASSUME NEW f \in BOOLEAN, NEW e \in BOOLEAN, FlushOfficialPayments(f, e)
        PROVE  Together
    BY <1>6 DEF FlushOfficialPayments, Together, Liabilities, RequestsOK,
       SettlementOK, refundVars, resultVars
  <1>7. CASE ClaimSurplus
    BY <1>7 DEF ClaimSurplus, Empties, Liabilities, refundVars, resultVars,
       settlementVars, poolVars, rewardVars
  <1>8. QED
    BY <1>1, <1>2, <1>3, <1>4, <1>5, <1>6, <1>7

LEMMA StepBooks ==
    ASSUME IInv, IInv', OwnStep
    PROVE  Together \/ Settles \/ Empties
  <1>1. CASE \/ BindMarket \/ SetMarketCoordinator \/ MarketGraduates \/ Tick
             \/ \E m \in ExtraMarkets : AuthorizeAdditionalMarket(m)
    BY <1>1 DEF BindMarket, SetMarketCoordinator, MarketGraduates, Tick,
       AuthorizeAdditionalMarket, Together, Liabilities, ledgerVars, voteVars,
       feeVars, penaltyVars, requestVars, refundVars, resultVars,
       settlementVars, poolVars, rewardVars, IInv, TypeOK
  <1>2. QED
    BY <1>1, SettlingBooks, OpenBooks, ClaimBooks DEF OwnStep, Transaction

ExactInv == uninvited \in Nat /\ VaultIsExact

LEMMA ExactStep ==
    ASSUME IInv, IInv', ExactInv, [HNext]_hvars
    PROVE  ExactInv'
  <1> SUFFICES uninvited' \in Nat /\ balance' = Liabilities' + uninvited'
    BY DEF ExactInv, VaultIsExact
  <1>1. uninvited \in Nat /\ balance = Liabilities + uninvited
    BY DEF ExactInv, VaultIsExact
  <1>2. Liabilities \in Nat /\ Liabilities' \in Nat /\ balance' \in Nat
    BY LiabilitiesType, LiabilitiesTypeNext DEF IInv
  <1>3. CASE UNCHANGED hvars
    <2>1. Liabilities' = Liabilities /\ balance' = balance /\ uninvited' = uninvited
      BY <1>3 DEF hvars, historyObs, vars, Liabilities, ledgerVars, voteVars,
         feeVars, penaltyVars, requestVars, refundVars, resultVars,
         settlementVars, poolVars, rewardVars
    <2>2. QED
      BY <1>1, <2>1
  <1>4. ASSUME NEW a \in GiftAmounts, Gift(a), uninvited' = uninvited + a
        PROVE  uninvited' \in Nat /\ balance' = Liabilities' + uninvited'
    <2>1. a \in Nat /\ balance' = balance + a
      BY <1>4, AmountsAssumption DEF Gift, Receive
    <2>2. Liabilities' = Liabilities
      BY <1>4 DEF Gift, Liabilities, ledgerVars, voteVars, feeVars, penaltyVars,
         requestVars, refundVars, resultVars, settlementVars, poolVars, rewardVars
    <2>3. QED
      BY <1>1, <1>2, <1>4, <2>1, <2>2
  <1>5. CASE /\ OwnStep
             /\ uninvited' = IF resolved' # resolved
                                \/ (resolved /\ Liabilities = 0 /\ balance' < balance)
                             THEN 0 ELSE uninvited
    <2>1. CASE Together
      <3>1. uninvited' = uninvited
        BY <1>5, <2>1 DEF Together
      <3>2. balance' + Liabilities = balance + Liabilities'
        BY <2>1 DEF Together
      <3>3. balance \in Nat
        BY LiabilitiesType DEF IInv
      <3>4. ASSUME NEW b \in Nat, NEW l \in Nat, b + Liabilities = balance + l
            PROVE  b = l + uninvited
        BY <1>1, <1>2, <3>3, <3>4
      <3>5. QED
        BY <1>1, <1>2, <3>1, <3>2, <3>4
    <2>2. CASE Settles
      <3>1. uninvited' = 0
        BY <1>5, <2>2 DEF Settles
      <3>2. QED
        BY <1>2, <2>2, <3>1 DEF Settles
    <2>3. CASE Empties
      <3>1. resolved /\ Liabilities = 0 /\ balance' < balance
        BY <2>3 DEF Empties
      <3>2. uninvited' = 0
        BY <1>5, <3>1
      <3>3. QED
        BY <2>3, <3>2 DEF Empties
    <2>4. QED
      BY <1>5, <2>1, <2>2, <2>3, StepBooks
  <1>6. QED
    BY <1>3, <1>4, <1>5 DEF HNext, ObserveGifts, OwnStep

\* Nothing is lost or invented: at every moment the vault holds what it owes
\* plus the tokens that arrived uninvited and that no settlement has absorbed
\* yet, to the token, whatever was staked, left, paid in, settled or claimed,
\* in whatever order.
THEOREM BalanceIsExact == HSpec => []VaultIsExact
  <1>1. HInit => ExactInv
    BY DEF HInit, Init, EmptyVault, ExactInv, VaultIsExact, Liabilities
  <1>2. IInv /\ IInv' /\ ExactInv /\ [HNext]_hvars => ExactInv'
    BY ExactStep
  <1>3. ExactInv => VaultIsExact
    BY DEF ExactInv
  <1>4. QED
    BY <1>1, <1>2, <1>3, ObservedInvariance, PTL DEF HSpec
------------------------------------------------------------------------------
(* The fee history.  Booked(u, b) is what u's ledger of book b amounts to,  *)
(* in units of 1/Precision token, if it is brought up to date now.          *)
Booked(u, b) == pendingFees[u][b] * Precision + Growth(u, b)

\* Taking whole tokens out of a fraction and counting them apart changes
\* nothing; a fee adds to a stake's growth the stake times the index's rise.
LEMMA WholeAndFraction ==
    \A p, g, e, i \in Nat, d \in Nat \ {0} :
        (p + g \div d) * d + (e * (i - i) + (g % d)) = p * d + g
  OBVIOUS

LEMMA FractionOnly ==
    \A p, g \in Nat, d \in Nat \ {0} :
        (p + g \div d) * d + (g % d) = p * d + g
  OBVIOUS

LEMMA GrowthOfAFee ==
    \A p, e, i, a, f, r \in Nat, d \in Nat \ {0} :
        i <= a => p * d + (e * ((a + f) - i) + r) = (p * d + (e * (a - i) + r)) + e * f
  OBVIOUS

\* The parts of a user's ledger are natural numbers.
LEMMA GrowthType ==
    ASSUME VotesOK, FeesOK, IndexBehind, NEW u \in Users, NEW b \in Book
    PROVE  /\ EarningStake(u, b) \in Nat /\ Growth(u, b) \in Nat
           /\ pendingFees[u][b] \in Nat /\ accFeePerStake[b] \in Nat
           /\ feeIndex[u][b] \in Nat /\ feeIndex[u][b] <= accFeePerStake[b]
           /\ feeRemainder[u][b] \in Nat
  <1>1. EarningStake(u, b) \in Nat
    BY DEF VotesOK, EarningStake, Book, Side
  <1>2. /\ pendingFees[u][b] \in Nat /\ accFeePerStake[b] \in Nat
        /\ feeIndex[u][b] \in Nat /\ feeIndex[u][b] <= accFeePerStake[b]
        /\ feeRemainder[u][b] \in Nat
    BY DEF FeesOK, IndexBehind
  <1>3. EarningStake(u, b) * (accFeePerStake[b] - feeIndex[u][b]) \in Nat
    BY <1>1, <1>2, Product
  <1>4. QED
    BY <1>1, <1>2, <1>3 DEF Growth

\* A checkpoint shows no more and no less than the ledger did before it,
\* whatever the user's stake is changed to in the same step.
LEMMA CheckpointBooks ==
    ASSUME VotesOK, FeesOK, IndexBehind, VotesOK', NEW u \in Users, Checkpoint(u),
           UNCHANGED feeVars, NEW v \in Users, NEW b \in Book,
           v # u => stakeOf'[v] = stakeOf[v]
    PROVE  Booked(v, b)' = Booked(v, b)
  <1>1. accFeePerStake' = accFeePerStake
    BY DEF feeVars
  <1>2. CASE v = u
    <2>1. /\ Growth(u, b) \in Nat /\ pendingFees[u][b] \in Nat
          /\ accFeePerStake[b] \in Nat /\ Precision \in Nat \ {0}
      BY GrowthType, PrecisionAssumption
    <2>2. EarningStake(u, b)' \in Nat
      BY DEF VotesOK, EarningStake, Book, Side
    <2>3. /\ pendingFees'[u][b] = pendingFees[u][b] + Growth(u, b) \div Precision
          /\ feeRemainder'[u][b] = Growth(u, b) % Precision
          /\ feeIndex'[u][b] = accFeePerStake[b]
      BY DEF Checkpoint, EarnedFees, EarnedRemainder, FeesOK
    <2>4. Booked(u, b)' = (pendingFees[u][b] + Growth(u, b) \div Precision) * Precision
            + (EarningStake(u, b)' * (accFeePerStake[b] - accFeePerStake[b])
                 + (Growth(u, b) % Precision))
      BY <1>1, <2>3 DEF Booked, Growth
    <2>5. Booked(u, b)' = pendingFees[u][b] * Precision + Growth(u, b)
      BY <2>1, <2>2, <2>4, WholeAndFraction
    <2>6. QED
      BY <1>2, <2>5 DEF Booked
  <1>3. CASE v # u
    <2>1. /\ pendingFees'[v] = pendingFees[v] /\ feeRemainder'[v] = feeRemainder[v]
          /\ feeIndex'[v] = feeIndex[v] /\ stakeOf'[v] = stakeOf[v]
      BY <1>3 DEF Checkpoint, FeesOK
    <2>2. QED
      BY <1>1, <2>1 DEF Booked, Growth, EarningStake
  <1>4. QED
    BY <1>2, <1>3

\* Brought up to date or not, a ledger shows the same amount.
LEMMA LedgerShows ==
    ASSUME VotesOK, FeesOK, IndexBehind, NEW u \in Users, NEW b \in Book
    PROVE  EarnedFees(u)[b] * Precision + EarnedRemainder(u)[b] = Booked(u, b)
  <1>1. /\ Growth(u, b) \in Nat /\ pendingFees[u][b] \in Nat
        /\ Precision \in Nat \ {0}
    BY GrowthType, PrecisionAssumption
  <1>2. /\ EarnedFees(u)[b] = pendingFees[u][b] + Growth(u, b) \div Precision
        /\ EarnedRemainder(u)[b] = Growth(u, b) % Precision
    BY DEF EarnedFees, EarnedRemainder
  <1>3. (pendingFees[u][b] + Growth(u, b) \div Precision) * Precision
           + (Growth(u, b) % Precision) = pendingFees[u][b] * Precision + Growth(u, b)
    BY <1>1, FractionOnly
  <1>4. QED
    BY <1>2, <1>3 DEF Booked

\* What is true of one user's observed earnings in one book, and so of all.
EarningsMatch(u, b) ==
    /\ earned[u][b] \in Nat
    /\ Booked(u, b) = earned[u][b]
    /\ Principal(u) = 0 => earned[u][b] = 0

\* Whoever has no stake has earned nothing since he last had one.
EarnedInv ==
    /\ earned \in [Users -> [Book -> Nat]]
    /\ \A u \in Users, b \in Book : EarningsMatch(u, b)

LEMMA ObservedEarnings ==
    ASSUME ObserveFees, NEW u \in Users, NEW b \in Book
    PROVE  earned'[u][b] = IF Principal(u)' = 0 THEN 0
             ELSE earned[u][b] + EarningStake(u, b)
                    * FeePerStake(totalMarketFeesAccrued' - totalMarketFeesAccrued, b)
  BY DEF ObserveFees

\* Without a fee nothing is earned: a step that keeps what a ledger shows, and
\* whether its user has a stake, keeps the match.
LEMMA EarningsKept ==
    ASSUME VotesOK, FeesOK, ObserveFees, NEW u \in Users, NEW b \in Book,
           EarningsMatch(u, b), totalMarketFeesAccrued' = totalMarketFeesAccrued,
           Booked(u, b)' = Booked(u, b),
           Principal(u)' = 0 => Principal(u) = 0
    PROVE  EarningsMatch(u, b)'
  <1>1. EarningStake(u, b) \in Nat /\ BookStake(b) \in Nat
    BY BookStakeType DEF VotesOK, EarningStake, Book, Side
  <1>2. totalMarketFeesAccrued' - totalMarketFeesAccrued = 0
    BY DEF FeesOK
  <1>3. FeePerStake(0, b) = 0
    <2>1. CASE BookStake(b) = 0
      BY <2>1 DEF FeePerStake
    <2>2. CASE BookStake(b) # 0
      <3>1. 0 * Precision = 0 /\ 0 \div BookStake(b) = 0
        BY <1>1, <2>2, PrecisionAssumption
      <3>2. QED
        BY <2>2, <3>1 DEF FeePerStake
    <2>3. QED
      BY <2>1, <2>2
  <1>4. EarningStake(u, b) * FeePerStake(0, b) = 0
    BY <1>1, <1>3
  <1>5. earned'[u][b] = IF Principal(u)' = 0 THEN 0 ELSE earned[u][b] + 0
    BY <1>2, <1>4, ObservedEarnings
  <1>6. earned[u][b] \in Nat
    BY DEF EarningsMatch
  <1>7. earned'[u][b] = earned[u][b]
    BY <1>5, <1>6 DEF EarningsMatch
  <1>8. QED
    BY <1>7 DEF EarningsMatch

\* A fee raises every index by its part per unit of stake, and so adds to
\* every ledger the stake times that part.
LEMMA FeeBooked ==
    ASSUME IInv, NEW m \in ExtraMarkets \cup {Market}, NEW a \in FeeAmounts,
           DepositMarketFee(m, a), NEW u \in Users, NEW b \in Book
    PROVE  /\ Booked(u, b)' = Booked(u, b) + EarningStake(u, b) * FeePerStake(a, b)
           /\ EarningStake(u, b) \in Nat /\ FeePerStake(a, b) \in Nat
  <1> DEFINE f == FeePerStake(a, b)
             e == EarningStake(u, b)
  <1>1. VotesOK /\ FeesOK /\ IndexBehind /\ a \in Nat
    BY AmountsAssumption DEF IInv, TypeOK
  <1>2. f \in Nat
    <2>1. BookStake(b) \in Nat /\ a * Precision \in Nat
      BY <1>1, BookStakeType, Product, PrecisionAssumption
    <2>2. QED
      BY <2>1, Division DEF FeePerStake
  <1>3. accFeePerStake'[b] = accFeePerStake[b] + f
    BY <1>1, BookStakeType DEF DepositMarketFee, FeePerStake, FeesOK
  <1>4. /\ e \in Nat /\ pendingFees[u][b] \in Nat /\ accFeePerStake[b] \in Nat
        /\ feeIndex[u][b] \in Nat /\ feeIndex[u][b] <= accFeePerStake[b]
        /\ feeRemainder[u][b] \in Nat /\ Precision \in Nat \ {0}
    BY <1>1, GrowthType, PrecisionAssumption
  <1>5. UNCHANGED <<stakeOf, pendingFees, feeIndex, feeRemainder>>
    BY DEF DepositMarketFee, voteVars, historyVars
  <1>6. e' = e
    BY <1>5 DEF EarningStake
  <1>7. Booked(u, b)' = pendingFees[u][b] * Precision
          + (e * ((accFeePerStake[b] + f) - feeIndex[u][b]) + feeRemainder[u][b])
    BY <1>3, <1>5, <1>6 DEF Booked, Growth
  <1>8. Booked(u, b) = pendingFees[u][b] * Precision
          + (e * (accFeePerStake[b] - feeIndex[u][b]) + feeRemainder[u][b])
    BY DEF Booked, Growth
  <1> HIDE DEF f, e
  <1>9. Booked(u, b)' = Booked(u, b) + e * f
    BY <1>2, <1>4, <1>7, <1>8, GrowthOfAFee
  <1>10. QED
    BY <1>2, <1>4, <1>9 DEF e, f

\* Which is what is observed of it; without a stake it is nothing.
LEMMA DepositEarnings ==
    ASSUME IInv, ObserveFees, NEW m \in ExtraMarkets \cup {Market},
           NEW a \in FeeAmounts, DepositMarketFee(m, a),
           NEW u \in Users, NEW b \in Book, EarningsMatch(u, b)
    PROVE  EarningsMatch(u, b)'
  <1> DEFINE f == FeePerStake(a, b)
             e == EarningStake(u, b)
  <1>1. VotesOK /\ FeesOK /\ a \in Nat
    BY AmountsAssumption DEF IInv, TypeOK
  <1>2. totalMarketFeesAccrued' - totalMarketFeesAccrued = a
    BY <1>1 DEF DepositMarketFee, FeesOK
  <1>3. Booked(u, b)' = Booked(u, b) + e * f /\ e \in Nat /\ f \in Nat
    BY FeeBooked
  <1>4. Principal(u)' = Principal(u)
    BY DEF DepositMarketFee, voteVars, Principal
  <1>5. earned'[u][b] = IF Principal(u) = 0 THEN 0 ELSE earned[u][b] + e * f
    BY <1>2, <1>4, ObservedEarnings
  <1>6. Principal(u) = 0 => e = 0
    <2>1. /\ stakeOf[u]["YES"] \in Nat /\ stakeOf[u]["NO"] \in Nat
          /\ stakeOf[u]["INVALID"] \in Nat
      BY <1>1 DEF VotesOK, Side
    <2>2. ASSUME Principal(u) = 0
          PROVE  /\ stakeOf[u]["YES"] = 0 /\ stakeOf[u]["NO"] = 0
                 /\ stakeOf[u]["INVALID"] = 0
      <3>1. stakeOf[u]["YES"] + stakeOf[u]["NO"] + stakeOf[u]["INVALID"] = 0
        BY <2>2 DEF Principal
      <3>2. QED
        BY <2>1, <3>1
    <2>3. ASSUME Principal(u) = 0 PROVE EarningStake(u, b) = 0
      <3>1. 0 + 0 = 0
        OBVIOUS
      <3>2. QED
        BY <2>2, <2>3, <3>1 DEF EarningStake, Book, Side
    <2>4. QED
      BY <2>3
  <1>7. earned[u][b] \in Nat /\ Booked(u, b) = earned[u][b]
        /\ (Principal(u) = 0 => earned[u][b] = 0)
    BY DEF EarningsMatch
  <1> HIDE DEF f, e
  <1>8. e * f \in Nat /\ (e = 0 => e * f = 0)
    BY <1>3, Product
  <1>9. earned'[u][b] = earned[u][b] + e * f
    BY <1>5, <1>6, <1>7, <1>8
  <1>10. earned'[u][b] \in Nat
    BY <1>5, <1>7, <1>8
  <1>11. Principal(u)' = 0 => earned'[u][b] = 0
    BY <1>4, <1>5
  <1>12. QED
    BY <1>3, <1>7, <1>9, <1>10, <1>11 DEF EarningsMatch

\* A leaver's ledger is closed.
LEMMA LedgerCloses ==
    ASSUME IInv, IInv', NEW u \in Users, ExitStake(u), NEW b \in Book
    PROVE  Booked(u, b)' = 0 /\ Principal(u)' = 0
  <1>1. stakeOf'[u] = [s \in Side |-> 0]
    BY DEF ExitStake, IInv, TypeOK, VotesOK
  <1>2. Principal(u)' = 0 /\ EarningStake(u, b)' = 0
    BY <1>1 DEF Principal, EarningStake, Book, Side
  <1>3. /\ pendingFees'[u][b] = 0 /\ feeRemainder'[u][b] = 0
        /\ feeIndex'[u][b] = 0 /\ accFeePerStake'[b] \in Nat
    BY DEF ExitStake, IInv, TypeOK, FeesOK, ZeroBooks
  <1>4. Booked(u, b)' = 0 * Precision + (0 * (accFeePerStake'[b] - 0) + 0)
    BY <1>2, <1>3 DEF Booked, Growth
  <1>5. Booked(u, b)' = 0
    BY <1>3, <1>4, PrecisionAssumption
  <1>6. QED
    BY <1>2, <1>5

\* And the ledgers of everybody else stay as they are.
LEMMA OthersStay ==
    ASSUME IInv, NEW u \in Users, ExitStake(u),
           NEW v \in Users, v # u, NEW b \in Book
    PROVE  Booked(v, b)' = Booked(v, b) /\ Principal(v)' = Principal(v)
  <1>1. /\ stakeOf'[v] = stakeOf[v] /\ pendingFees'[v] = pendingFees[v]
        /\ feeRemainder'[v] = feeRemainder[v] /\ feeIndex'[v] = feeIndex[v]
        /\ UNCHANGED accFeePerStake
    BY DEF ExitStake, IInv, TypeOK, VotesOK, FeesOK, feeVars
  <1>2. QED
    BY <1>1 DEF Booked, Growth, EarningStake, Principal

\* A leaver's earnings go with his ledger.
LEMMA ExitEarnings ==
    ASSUME IInv, IInv', ObserveFees, NEW u \in Users, ExitStake(u), NEW b \in Book
    PROVE  EarningsMatch(u, b)'
  <1>1. Booked(u, b)' = 0 /\ Principal(u)' = 0
    BY LedgerCloses
  <1>2. earned'[u][b] = 0
    BY <1>1, ObservedEarnings
  <1>3. QED
    BY <1>1, <1>2 DEF EarningsMatch

LEMMA EarningsStep ==
    ASSUME IInv, IInv', EarnedInv, ObserveFees, [Next]_vars,
           NEW v \in Users, NEW b \in Book
    PROVE  EarningsMatch(v, b)'
  <1> USE DEF IInv, TypeOK
  <1>1. EarningsMatch(v, b)
    BY DEF EarnedInv
  <1>2. CASE UNCHANGED ledgerVars
    <2>1. /\ totalMarketFeesAccrued' = totalMarketFeesAccrued
          /\ Booked(v, b)' = Booked(v, b) /\ Principal(v)' = Principal(v)
      BY <1>2 DEF ledgerVars, voteVars, historyVars, feeVars, Booked, Growth,
                  EarningStake, Principal
    <2>2. QED
      BY <1>1, <2>1, EarningsKept
  <1>3. ASSUME NEW u \in Users, NEW s \in Side, NEW a \in StakeAmounts, Stake(u, s, a)
        PROVE  EarningsMatch(v, b)'
    <2>1. Checkpoint(u) /\ UNCHANGED feeVars
      BY <1>3 DEF Stake
    <2>2. v # u => stakeOf'[v] = stakeOf[v]
      BY <1>3 DEF Stake, VotesOK
    <2>3. Booked(v, b)' = Booked(v, b)
      BY <2>1, <2>2, CheckpointBooks
    <2>4. Principal(v)' = 0 => Principal(v) = 0
      <3>1. CASE v # u
        BY <2>2, <3>1 DEF Principal
      <3>2. CASE v = u
        <4>1. a \in Nat \ {0} /\ Principal(u) \in Nat
          BY AmountsAssumption, PrincipalType
        <4>2. stakeOf'[u] = [t \in Side |-> IF t = s THEN Principal(u) + a ELSE 0]
          BY <1>3 DEF Stake, VotesOK
        <4>3. Principal(u)' = Principal(u) + a
          BY <4>1, <4>2 DEF Principal, Side
        <4>4. QED
          BY <3>2, <4>1, <4>3
      <3>3. QED
        BY <3>1, <3>2
    <2>5. totalMarketFeesAccrued' = totalMarketFeesAccrued
      BY <2>1 DEF feeVars
    <2>6. QED
      BY <1>1, <2>3, <2>4, <2>5, EarningsKept
  <1>4. ASSUME NEW u \in Users, ExitStake(u) PROVE EarningsMatch(v, b)'
    <2>1. CASE v = u
      BY <1>4, <2>1, ExitEarnings
    <2>2. CASE v # u
      <3>1. totalMarketFeesAccrued' = totalMarketFeesAccrued
        BY <1>4 DEF ExitStake, feeVars
      <3>2. Booked(v, b)' = Booked(v, b) /\ Principal(v)' = Principal(v)
        BY <1>4, <2>2, OthersStay
      <3>3. QED
        BY <1>1, <3>1, <3>2, EarningsKept
    <2>3. QED
      BY <2>1, <2>2
  <1>5. ASSUME NEW m \in ExtraMarkets \cup {Market}, NEW a \in FeeAmounts,
               DepositMarketFee(m, a)
        PROVE  EarningsMatch(v, b)'
    BY <1>1, <1>5, DepositEarnings
  <1>6. ASSUME NEW u \in Users, Withdraw(u) \/ ClaimMarketFeesFor(u)
        PROVE  EarningsMatch(v, b)'
    <2>1. Checkpoint(u) /\ UNCHANGED <<voteVars, feeVars>>
      BY <1>6 DEF Withdraw, ClaimMarketFeesFor
    <2>2. /\ stakeOf' = stakeOf /\ UNCHANGED feeVars
          /\ totalMarketFeesAccrued' = totalMarketFeesAccrued
      BY <2>1 DEF voteVars, feeVars
    <2>3. Booked(v, b)' = Booked(v, b)
      BY <2>1, <2>2, CheckpointBooks
    <2>4. Principal(v)' = Principal(v)
      BY <2>2 DEF Principal
    <2>5. QED
      BY <1>1, <2>2, <2>3, <2>4, EarningsKept
  <1>7. QED
    BY <1>2, <1>3, <1>4, <1>5, <1>6, LedgerSteps

LEMMA EarnedStep ==
    ASSUME IInv, IInv', EarnedInv, [HNext]_hvars
    PROVE  EarnedInv'
  <1>1. CASE UNCHANGED hvars
    <2>1. UNCHANGED <<earned, stakeOf, pendingFees, feeRemainder, feeIndex, accFeePerStake>>
      BY <1>1 DEF hvars, historyObs, vars, ledgerVars, voteVars, historyVars, feeVars
    <2>2. QED
      BY <2>1 DEF EarnedInv, EarningsMatch, Booked, Growth, EarningStake, Principal
  <1>2. CASE HNext
    <2>1. ObserveFees /\ [Next]_vars
      BY <1>2, ObservedIsAStep DEF HNext
    <2>2. \A u \in Users, b \in Book : EarningsMatch(u, b)'
      BY <2>1, EarningsStep
    <2>3. earned' \in [Users -> [Book -> Nat]]
      <3>1. earned' = [u \in Users |-> [b \in Book |-> earned'[u][b]]]
        BY <2>1 DEF ObserveFees
      <3>2. \A u \in Users, b \in Book : earned'[u][b] \in Nat
        BY <2>2 DEF EarningsMatch
      <3>3. QED
        BY <3>1, <3>2
    <2>4. QED
      BY <2>2, <2>3 DEF EarnedInv
  <1>3. QED
    BY <1>1, <1>2

\* The lazy fee ledger is exact: at every moment, for every user and book, the
\* whole tokens and the fraction that a checkpoint would show are what his
\* stake earned fee by fee while it was there, although the ledger is only
\* written when he acts: nothing from before he came, nothing twice, nothing
\* lost to rounding.
THEOREM FeeHistoryExact == HSpec => []FeeHistoryIsExact
  <1>1. HInit => EarnedInv
    <2> SUFFICES ASSUME HInit PROVE EarnedInv
      OBVIOUS
    <2>1. earned = [u \in Users |-> ZeroBooks]
      BY DEF HInit
    <2>2. ASSUME NEW u \in Users, NEW b \in Book
          PROVE  EarningsMatch(u, b)
      <3>1. /\ pendingFees[u][b] = 0 /\ feeRemainder[u][b] = 0
            /\ feeIndex[u][b] = 0 /\ accFeePerStake[b] = 0
        BY DEF HInit, Init, EmptyVault, ZeroBooks
      <3>2. EarningStake(u, b) = 0
        BY DEF HInit, Init, EmptyVault, EarningStake, Book, Side
      <3>3. Booked(u, b) = 0 * Precision + (0 * (0 - 0) + 0)
        BY <3>1, <3>2 DEF Booked, Growth
      <3>4. Booked(u, b) = 0
        BY <3>3, PrecisionAssumption
      <3>5. QED
        BY <2>1, <3>4 DEF EarningsMatch, ZeroBooks
    <2>3. QED
      BY <2>1, <2>2 DEF EarnedInv, ZeroBooks
  <1>2. IInv /\ IInv' /\ EarnedInv /\ [HNext]_hvars => EarnedInv'
    BY EarnedStep
  <1>3. IInv /\ EarnedInv => FeeHistoryIsExact
    BY LedgerShows DEF IInv, TypeOK, EarnedInv, EarningsMatch, FeeHistoryIsExact
  <1>4. QED
    BY <1>1, <1>2, <1>3, ObservedInvariance, PTL DEF HSpec
------------------------------------------------------------------------------
(* The outcome.                                                            *)

\* The totals add up, which makes the code's comparison of a side with the
\* rest the strict majority of all votes.
VotesAdd == totalPrincipal = totalStake["YES"] + totalStake["NO"] + totalStake["INVALID"]

\* A request ends after the vault began, so an early end is never taken for
\* none; and a vault that has not settled has not ended early.
RequestAhead  == pending.id # 0 => pending.processAfter > 0
NotEndedEarly == ~resolved => terminatedEarlyAt = 0

\* From the deadline until somebody settles, the vote is the one observed then.
VoteKept ==
    ~resolved /\ (ProcessingDue \/ now = ResolutionTime) => deadlineVotes = totalStake

OutcomeInv == /\ VotesAdd /\ RequestAhead /\ NotEndedEarly /\ VoteKept
              /\ OutcomeIsTheVoteAtTheDeadline

\* Steps of the vault that move the vote happen before the deadline, and none
\* but the clock reaches it.
LEMMA VoteMoves ==
    ASSUME [Next]_vars, ~ UNCHANGED <<totalStake, totalPrincipal>>
    PROVE  /\ ~resolved /\ ~ProcessingDue /\ now < ResolutionTime
           /\ UNCHANGED <<now, requestVars, resultVars>>
           /\ \/ \E u \in Users, s \in Side, a \in StakeAmounts : Stake(u, s, a)
              \/ \E u \in Users : ExitStake(u)
  BY LedgerSteps DEF Stake, ExitStake, StakingOpen, DepositMarketFee, Withdraw,
     ClaimMarketFeesFor, ledgerVars, voteVars

LEMMA VotesAddStep ==
    ASSUME IInv, VotesAdd, [Next]_vars
    PROVE  VotesAdd'
  <1> USE DEF VotesAdd
  <1>1. VotesOK
    BY DEF IInv, TypeOK
  <1>2. /\ totalStake["YES"] \in Nat /\ totalStake["NO"] \in Nat
        /\ totalStake["INVALID"] \in Nat /\ totalStake \in [Side -> Nat]
    BY <1>1 DEF VotesOK, Side
  <1>3. CASE UNCHANGED <<totalStake, totalPrincipal>>
    BY <1>3
  <1>4. ASSUME NEW u \in Users, NEW s \in Side, NEW a \in StakeAmounts, Stake(u, s, a)
        PROVE  VotesAdd'
    <2>1. a \in Nat
      BY AmountsAssumption
    <2>2. /\ totalStake' = [totalStake EXCEPT ![s] = @ + a]
          /\ totalPrincipal' = totalPrincipal + a
      BY <1>4 DEF Stake
    <2>3. QED
      BY <1>2, <2>1, <2>2 DEF Side
  <1>5. ASSUME NEW u \in Users, ExitStake(u) PROVE VotesAdd'
    <2>1. Principal(u) \in Nat /\ SideOf(u) \in Side
      BY <1>1, PrincipalType
    <2>2. /\ totalStake' = [totalStake EXCEPT ![SideOf(u)] = @ - Principal(u)]
          /\ totalPrincipal' = totalPrincipal - Principal(u)
      BY <1>5 DEF ExitStake
    <2>3. QED
      BY <1>2, <2>1, <2>2 DEF Side
  <1>6. QED
    BY <1>3, <1>4, <1>5, VoteMoves

\* What a step can do to the pending request and to the clock.
LEMMA RequestSteps ==
    ASSUME IInv, [Next]_vars
    PROVE  /\ \/ pending' = pending
              \/ pending' = NoRequest
              \/ /\ now' = now /\ pending'.processAfter = now + Window
                 /\ pending'.id # 0 /\ now < ResolutionTime
           /\ now' = now \/ (now < ResolutionTime /\ now' = now + 1
                              /\ UNCHANGED <<pending, resolved, totalStake>>)
  <1>1. CASE UNCHANGED vars
    BY <1>1 DEF vars, requestVars
  <1>2. CASE Tick
    BY <1>2 DEF Tick, requestVars, resultVars, ledgerVars, voteVars
  <1>3. CASE MarketGraduates \/ \E a \in GiftAmounts : Gift(a)
    BY <1>3 DEF MarketGraduates, Gift, requestVars
  <1>4. ASSUME NEW u \in Users, NEW s \in Side, ProposeEarlyTermination(u, s)
        PROVE  /\ now' = now /\ pending'.processAfter = now + Window
               /\ pending'.id # 0 /\ now < ResolutionTime
    BY <1>4 DEF ProposeEarlyTermination, StakingOpen, IInv, TypeOK, RequestsOK
  <1>5. CASE ProcessEarlyTermination \/ Finalize \/ CancelUnlaunched
    BY <1>5 DEF ProcessEarlyTermination, Finalize, CancelUnlaunched,
       ProcessEarlyRequest, requestVars
  <1>6. CASE /\ Transaction
             /\ ~ \E u \in Users, s \in Side : ProposeEarlyTermination(u, s)
             /\ ~ (ProcessEarlyTermination \/ Finalize \/ CancelUnlaunched)
    BY <1>6 DEF Transaction, BindMarket, SetMarketCoordinator,
       AuthorizeAdditionalMarket, Stake, ExitStake, DepositMarketFee,
       ClaimEarlyTerminationBond, Withdraw, ClaimMarketFeesFor,
       ClaimEmptySettlement, ClaimOfficialMarketFees, FlushOfficialPayments,
       ClaimSurplus, requestVars
  <1>7. QED
    BY <1>1, <1>2, <1>3, <1>4, <1>5, <1>6 DEF Next

\* The clock is the only step that reaches the deadline, and it samples the
\* vote; from then on neither the vote nor the sample moves.
LEMMA VoteKeptStep ==
    ASSUME IInv, VoteKept, ObserveVotes, [Next]_vars, resolved => resolved'
    PROVE  VoteKept'
  <1> SUFFICES ASSUME ~resolved', ProcessingDue' \/ now' = ResolutionTime
               PROVE  deadlineVotes' = totalStake'
    BY DEF VoteKept
  <1>1. now \in 0..ResolutionTime /\ ResolutionTime \in Nat /\ ~resolved
        /\ pending.processAfter \in Nat /\ Window \in Nat \ {0}
    BY TimeAssumption DEF IInv, TypeOK, RequestsOK, Request
  <1>2. CASE ProcessingDue \/ now = ResolutionTime
    <2>1. deadlineVotes = totalStake
      BY <1>1, <1>2 DEF VoteKept
    <2>2. totalStake' = totalStake
      BY <1>1, <1>2, VoteMoves
    <2>3. ~ (~ProcessingDue /\ now' > now)
      BY <1>1, <1>2, RequestSteps
    <2>4. QED
      BY <2>1, <2>2, <2>3 DEF ObserveVotes
  <1>3. CASE ~ProcessingDue /\ now # ResolutionTime
    <2>1. CASE now' = now
      <3>1. ~ProcessingDue'
        BY <1>1, <1>3, <2>1, RequestSteps DEF ProcessingDue, NoRequest
      <3>2. QED
        BY <1>3, <2>1, <3>1
    <2>2. CASE now' = now + 1 /\ UNCHANGED <<pending, resolved, totalStake>>
      BY <1>1, <1>3, <2>2 DEF ObserveVotes
    <2>3. QED
      BY <2>1, <2>2, RequestSteps
  <1>4. QED
    BY <1>2, <1>3

\* The code's comparisons are the strict majority of the votes cast.
LEMMA StrictMajority ==
    ASSUME VotesOK, VotesAdd
    PROVE  LET cast == totalStake["YES"] + totalStake["NO"] + totalStake["INVALID"]
               Won(s) == 2 * totalStake[s] > cast
           IN  DerivedOutcome = IF Won("YES") THEN "YES" ELSE IF Won("NO") THEN "NO"
                                ELSE "INVALID"
  <1>1. /\ totalStake["YES"] \in Nat /\ totalStake["NO"] \in Nat
        /\ totalStake["INVALID"] \in Nat
    BY DEF VotesOK, Side
  <1>2. \A y, n, i \in Nat : (y > (y + n + i) - y) <=> 2 * y > y + n + i
    OBVIOUS
  <1>3. \A y, n, i \in Nat : (n > (y + n + i) - n) <=> 2 * n > y + n + i
    OBVIOUS
  <1>4. /\ Majority("YES") <=> 2 * totalStake["YES"] >
             totalStake["YES"] + totalStake["NO"] + totalStake["INVALID"]
        /\ Majority("NO") <=> 2 * totalStake["NO"] >
             totalStake["YES"] + totalStake["NO"] + totalStake["INVALID"]
    BY <1>1, <1>2, <1>3 DEF Majority, VotesAdd
  <1>5. QED
    BY <1>4 DEF DerivedOutcome

\* A settlement reads the vote of the deadline: it happens on a request whose
\* window has ended, or at ResolutionTime, or cancels an unlaunched topic.
LEMMA SettlingOutcome ==
    ASSUME IInv, OutcomeInv, ~resolved, resolved', deadlineVotes' = deadlineVotes,
           ProcessEarlyTermination \/ Finalize \/ CancelUnlaunched
    PROVE  OutcomeIsTheVoteAtTheDeadline'
  <1> USE DEF OutcomeInv
  <1>1. VotesOK /\ now \in 0..ResolutionTime /\ ResolutionTime \in Nat
        /\ pending.processAfter \in Nat
    BY TimeAssumption DEF IInv, TypeOK, RequestsOK, Request
  <1>2. UNCHANGED <<now, permissionless, market, totalStake>>
    BY DEF ProcessEarlyTermination, Finalize, CancelUnlaunched, setupVars,
           ledgerVars, voteVars
  <1>3. terminatedEarlyAt = 0
    BY DEF NotEndedEarly
  <1>4. CASE permissionless /\ market # "formal" /\ outcome' = "INVALID"
    BY <1>2, <1>4 DEF OutcomeIsTheVoteAtTheDeadline
  <1>5. CASE /\ Launched /\ outcome' = DerivedOutcome
             /\ deadlineVotes = totalStake
             /\ \/ /\ terminatedEarlyAt' = 0 /\ now = ResolutionTime
                \/ /\ terminatedEarlyAt' = pending.processAfter /\ ProcessingDue
                   /\ DerivedOutcome # "INVALID"
    <2>1. ~permissionless' \/ market' = "formal"
      BY <1>2, <1>5 DEF Launched
    <2>2. now' >= EffectiveResolutionTime'
      BY <1>1, <1>2, <1>5 DEF EffectiveResolutionTime, ProcessingDue, RequestAhead
    <2>3. terminatedEarlyAt' # 0 => outcome' # "INVALID"
      BY <1>5
    <2>4. totalStake' = deadlineVotes' /\ deadlineVotes' = totalStake
      BY <1>2, <1>5
    <2>5. LET cast == totalStake["YES"] + totalStake["NO"] + totalStake["INVALID"]
              Won(s) == 2 * totalStake[s] > cast
          IN  outcome' = IF Won("YES") THEN "YES" ELSE IF Won("NO") THEN "NO"
                         ELSE "INVALID"
      BY <1>1, <1>5, StrictMajority
    <2>6. QED
      BY <2>1, <2>2, <2>3, <2>4, <2>5 DEF OutcomeIsTheVoteAtTheDeadline
  <1>6. ASSUME NEW owed, FinalizeNow(owed)
        PROVE  \/ permissionless /\ market # "formal" /\ outcome' = "INVALID"
               \/ Launched /\ outcome' = DerivedOutcome
    BY <1>6 DEF FinalizeNow, SnapshotSettlement, Launched
  <1>7. CASE CancelUnlaunched
    BY <1>4, <1>7 DEF CancelUnlaunched, SnapshotSettlement
  <1>8. CASE ProcessEarlyRequest
    <2>1. ProcessingDue /\ deadlineVotes = totalStake
      BY <1>8 DEF ProcessEarlyRequest, VoteKept
    <2>2. CASE /\ DerivedOutcome = pending.requestedOutcome
               /\ terminatedEarlyAt' = pending.processAfter
               /\ FinalizeNow(totalEarlyBondRefunds + pending.bond)
      <3>1. DerivedOutcome # "INVALID"
        BY <1>8, <2>2 DEF ProcessEarlyRequest
      <3>2. QED
        BY <1>4, <1>5, <1>6, <2>1, <2>2, <3>1
    <2>3. CASE /\ now >= ResolutionTime /\ terminatedEarlyAt' = terminatedEarlyAt
               /\ FinalizeNow(totalEarlyBondRefunds)
      BY <1>1, <1>3, <1>4, <1>5, <1>6, <2>1, <2>3
    <2>4. CASE UNCHANGED resultVars
      BY <2>4 DEF resultVars
    <2>5. QED
      BY <1>8, <2>2, <2>3, <2>4 DEF ProcessEarlyRequest
  <1>9. CASE /\ Finalize /\ FinalizeNow(totalEarlyBondRefunds)
             /\ UNCHANGED terminatedEarlyAt
    <2>1. now = ResolutionTime
      BY <1>1, <1>9 DEF Finalize
    <2>2. deadlineVotes = totalStake
      BY <2>1 DEF VoteKept
    <2>3. QED
      BY <1>3, <1>4, <1>5, <1>6, <1>9, <2>1, <2>2
  <1>10. QED
    BY <1>7, <1>8, <1>9 DEF ProcessEarlyTermination, Finalize

\* The result is written by the three settling functions and by nothing else,
\* at an instant, and not written again.
LEMMA ResultSteps ==
    ASSUME IInv, [Next]_vars
    PROVE  \/ UNCHANGED resultVars
           \/ /\ ProcessEarlyTermination \/ Finalize \/ CancelUnlaunched
              /\ ~resolved /\ resolved' /\ now' = now
  <1>1. CASE ProcessEarlyTermination \/ Finalize \/ CancelUnlaunched
    BY <1>1 DEF ProcessEarlyTermination, Finalize, CancelUnlaunched,
       ProcessEarlyRequest, FinalizeNow, SnapshotSettlement
  <1>2. CASE UNCHANGED vars \/ MarketGraduates \/ Tick
             \/ \E a \in GiftAmounts : Gift(a)
    BY <1>2 DEF vars, MarketGraduates, Tick, Gift
  <1>3. CASE Transaction /\ ~ (ProcessEarlyTermination \/ Finalize \/ CancelUnlaunched)
    BY <1>3 DEF Transaction, BindMarket, SetMarketCoordinator,
       AuthorizeAdditionalMarket, Stake, ExitStake, DepositMarketFee,
       ProposeEarlyTermination, ClaimEarlyTerminationBond, Withdraw,
       ClaimMarketFeesFor, ClaimEmptySettlement, ClaimOfficialMarketFees,
       FlushOfficialPayments, ClaimSurplus
  <1>4. QED
    BY <1>1, <1>2, <1>3 DEF Next

\* Once the topic has settled, whether its market launched is decided too.
LEMMA LaunchSteps ==
    ASSUME [Next]_vars, resolved
    PROVE  UNCHANGED <<permissionless, market>>
  BY DEF Next, Transaction, vars, setupVars, BindMarket, SetMarketCoordinator,
     AuthorizeAdditionalMarket, Stake, ExitStake, DepositMarketFee,
     ProposeEarlyTermination, ProcessEarlyTermination, Finalize,
     CancelUnlaunched, ClaimEarlyTerminationBond, Withdraw,
     ClaimMarketFeesFor, ClaimEmptySettlement, ClaimOfficialMarketFees,
     FlushOfficialPayments, ClaimSurplus, MarketGraduates, Gift, Tick

LEMMA SettledOutcome ==
    ASSUME IInv, OutcomeIsTheVoteAtTheDeadline, resolved, ObserveVotes,
           UNCHANGED <<resultVars, totalStake, permissionless, market>>,
           now' = now \/ now' = now + 1
    PROVE  OutcomeIsTheVoteAtTheDeadline'
  <1>1. now \in 0..ResolutionTime /\ ResolutionTime \in Nat /\ terminatedEarlyAt \in Nat
    BY TimeAssumption DEF IInv, TypeOK, RequestsOK
  <1>2. CASE permissionless /\ market # "formal" /\ outcome = "INVALID"
    BY <1>2 DEF OutcomeIsTheVoteAtTheDeadline, resultVars
  <1>3. CASE ~ (permissionless /\ market # "formal" /\ outcome = "INVALID")
    <2>1. totalStake = deadlineVotes /\ now >= EffectiveResolutionTime
      BY <1>3 DEF OutcomeIsTheVoteAtTheDeadline
    <2>2. deadlineVotes' = deadlineVotes
      BY <2>1 DEF ObserveVotes
    <2>3. EffectiveResolutionTime' = EffectiveResolutionTime
      BY DEF EffectiveResolutionTime, resultVars
    <2>4. now + 1 >= EffectiveResolutionTime
      BY <1>1, <2>1 DEF EffectiveResolutionTime
    <2>5. now' >= EffectiveResolutionTime'
      BY <2>1, <2>3, <2>4
    <2>6. QED
      BY <1>3, <2>1, <2>2, <2>5 DEF OutcomeIsTheVoteAtTheDeadline, resultVars
  <1>4. QED
    BY <1>2, <1>3

LEMMA OutcomeStep ==
    ASSUME IInv, OutcomeInv, [HNext]_hvars
    PROVE  OutcomeInv'
  <1>1. CASE UNCHANGED hvars
    BY <1>1 DEF hvars, historyObs, vars, ledgerVars, voteVars, requestVars,
       resultVars, setupVars, OutcomeInv, VotesAdd, RequestAhead, NotEndedEarly,
       VoteKept, ProcessingDue, OutcomeIsTheVoteAtTheDeadline,
       EffectiveResolutionTime
  <1>2. CASE HNext
    <2>1. ObserveVotes /\ [Next]_vars
      BY <1>2, ObservedIsAStep DEF HNext
    <2>2. resolved => resolved'
      BY <2>1, ResultSteps DEF resultVars
    <2>3. VotesAdd'
      BY <2>1, VotesAddStep DEF OutcomeInv
    <2>4. RequestAhead'
      <3>1. now \in Nat /\ Window \in Nat \ {0}
        BY TimeAssumption DEF IInv, TypeOK
      <3>2. QED
        BY <2>1, <3>1, RequestSteps DEF OutcomeInv, RequestAhead, NoRequest
    <2>5. NotEndedEarly'
      BY <2>1, ResultSteps DEF OutcomeInv, NotEndedEarly, resultVars
    <2>6. VoteKept'
      BY <2>1, <2>2, VoteKeptStep DEF OutcomeInv
    <2>7. OutcomeIsTheVoteAtTheDeadline'
      <3>1. CASE resolved
        <4>1. UNCHANGED <<resultVars, totalStake, permissionless, market>>
          BY <2>1, <3>1, SettledStep, LaunchSteps DEF vars, ledgerVars, voteVars
        <4>2. now' = now \/ now' = now + 1
          BY <2>1, RequestSteps
        <4>3. QED
          BY <2>1, <3>1, <4>1, <4>2, SettledOutcome DEF OutcomeInv
      <3>2. CASE ~resolved /\ resolved'
        <4>1. /\ ProcessEarlyTermination \/ Finalize \/ CancelUnlaunched
              /\ now' = now
          BY <2>1, <3>2, ResultSteps DEF resultVars
        <4>2. now \in Nat
          BY DEF IInv, TypeOK
        <4>3. deadlineVotes' = deadlineVotes
          BY <2>1, <4>1, <4>2 DEF ObserveVotes
        <4>4. QED
          BY <3>2, <4>1, <4>3, SettlingOutcome
      <3>3. CASE ~resolved'
        BY <3>3 DEF OutcomeIsTheVoteAtTheDeadline
      <3>4. QED
        BY <3>1, <3>2, <3>3
    <2>8. QED
      BY <2>3, <2>4, <2>5, <2>6, <2>7 DEF OutcomeInv
  <1>3. QED
    BY <1>1, <1>2

\* A launched topic's result is the strict majority of the votes as they stood
\* at the moment that ended it, by request or by time, however late anybody
\* settles it; no early end gives INVALID; and a topic that never launched is
\* refunded as INVALID.
THEOREM OutcomeAtTheDeadline == HSpec => []OutcomeIsTheVoteAtTheDeadline
  <1>1. HInit => OutcomeInv
    BY TimeAssumption DEF HInit, Init, EmptyVault, OutcomeInv, VotesAdd, RequestAhead,
       NotEndedEarly, VoteKept, ProcessingDue, NoRequest, Side,
       OutcomeIsTheVoteAtTheDeadline
  <1>2. IInv /\ OutcomeInv /\ [HNext]_hvars => OutcomeInv'
    BY OutcomeStep
  <1>3. OutcomeInv => OutcomeIsTheVoteAtTheDeadline
    BY DEF OutcomeInv
  <1>4. QED
    BY <1>1, <1>2, <1>3, ObservedInvariance, PTL DEF HSpec

------------------------------------------------------------------------------
(* The claims of a settled vault. *)

Sum(f) == SumFunctionOnSet(f, Users)

\* The laws of sums, for sums over the users.
LEMMA UserSumType ==
    ASSUME NEW f, \A u \in Users : f[u] \in Nat
    PROVE  Sum(f) \in Nat
  BY SumType, UsersAssumption DEF Sum

LEMMA UserSumUpdate ==
    ASSUME NEW f, NEW g, NEW u \in Users,
           \A v \in Users : f[v] \in Nat /\ g[v] \in Nat,
           \A v \in Users \ {u} : f[v] = g[v]
    PROVE  /\ Sum(g) + f[u] = Sum(f) + g[u]
           /\ Sum(f) \in Nat /\ Sum(g) \in Nat
  BY SumUpdate, SumType, UsersAssumption DEF Sum

LEMMA UserSumAgrees ==
    ASSUME NEW f, NEW g, \A v \in Users : f[v] = g[v]
    PROVE  Sum(f) = Sum(g)
  BY SumAgrees, UsersAssumption DEF Sum

LEMMA UserTerm ==
    ASSUME NEW f, \A v \in Users : f[v] \in Nat, NEW u \in Users
    PROVE  f[u] <= Sum(f)
  BY TermAtMostSum, UsersAssumption DEF Sum

LEMMA UserZeros ==
    ASSUME NEW f, \A v \in Users : f[v] = 0
    PROVE  Sum(f) = 0
  BY SumOfZeros, UsersAssumption DEF Sum

\* From a sum before and after one term changed to the change of the sum.
LEMMA Raise == \A x, y, p, q \in Nat, d \in Int : y + p = x + q /\ q = p + d => y = x + d
  OBVIOUS
LEMMA Same == \A x, y, p \in Nat : y + p = x + p => y = x
  OBVIOUS
------------------------------------------------------------------------------
(* The votes.                                                              *)

StakesOn(s)  == [u \in Users |-> stakeOf[u][s]]
HoldersOf(s) == [u \in Users |-> IF stakeOf[u][s] > 0 THEN 1 ELSE 0]

\* A position is on one side, and the totals are the sums of the positions.
OneSide == \A u \in Users, s, t \in Side :
              stakeOf[u][s] > 0 /\ stakeOf[u][t] > 0 => s = t
SidesCounted == \A s \in Side : /\ totalStake[s] = Sum(StakesOn(s))
                                /\ participants[s] = Sum(HoldersOf(s))
HeadsAdd == totalParticipants
              = participants["YES"] + participants["NO"] + participants["INVALID"]
VotesCounted == OneSide /\ SidesCounted /\ VotesAdd /\ HeadsAdd

\* Whoever has a position has all of it on his side.
LEMMA Position ==
    ASSUME VotesOK, OneSide, NEW u \in Users, NEW t \in Side
    PROVE  stakeOf[u][t] = IF t = SideOf(u) THEN Principal(u) ELSE 0
  <1>1. /\ stakeOf[u]["YES"] \in Nat /\ stakeOf[u]["NO"] \in Nat
        /\ stakeOf[u]["INVALID"] \in Nat
    BY DEF VotesOK, Side
  <1>2. QED
    BY <1>1 DEF OneSide, SideOf, Principal, Side

LEMMA VotesMove ==
    ASSUME VotesOK, VotesOK', NEW u \in Users,
           \A v \in Users \ {u} : stakeOf'[v] = stakeOf[v], NEW t \in Side
    PROVE  /\ Sum(StakesOn(t))' + stakeOf[u][t] = Sum(StakesOn(t)) + stakeOf'[u][t]
           /\ Sum(HoldersOf(t))' + HoldersOf(t)[u] = Sum(HoldersOf(t)) + HoldersOf(t)'[u]
           /\ Sum(StakesOn(t)) \in Nat /\ Sum(StakesOn(t))' \in Nat
           /\ Sum(HoldersOf(t)) \in Nat /\ Sum(HoldersOf(t))' \in Nat
  <1>1. \A v \in Users : stakeOf[v][t] \in Nat /\ stakeOf'[v][t] \in Nat
    BY DEF VotesOK
  <1>2. /\ \A v \in Users : StakesOn(t)[v] \in Nat /\ StakesOn(t)'[v] \in Nat
        /\ \A v \in Users : HoldersOf(t)[v] \in Nat /\ HoldersOf(t)'[v] \in Nat
        /\ \A v \in Users \ {u} : StakesOn(t)[v] = StakesOn(t)'[v]
        /\ \A v \in Users \ {u} : HoldersOf(t)[v] = HoldersOf(t)'[v]
        /\ StakesOn(t)[u] = stakeOf[u][t] /\ StakesOn(t)'[u] = stakeOf'[u][t]
    BY <1>1 DEF StakesOn, HoldersOf
  <1>3. /\ Sum(StakesOn(t)') + StakesOn(t)[u] = Sum(StakesOn(t)) + StakesOn(t)'[u]
        /\ Sum(StakesOn(t)) \in Nat /\ Sum(StakesOn(t)') \in Nat
    BY <1>2, UserSumUpdate
  <1>4. /\ Sum(HoldersOf(t)') + HoldersOf(t)[u] = Sum(HoldersOf(t)) + HoldersOf(t)'[u]
        /\ Sum(HoldersOf(t)) \in Nat /\ Sum(HoldersOf(t)') \in Nat
    BY <1>2, UserSumUpdate
  <1>5. QED
    BY <1>2, <1>3, <1>4

LEMMA StakeCounted ==
    ASSUME IInv, IInv', VotesCounted, NEW u \in Users, NEW s \in Side,
           NEW a \in StakeAmounts, Stake(u, s, a)
    PROVE  VotesCounted'
  <1>1. /\ VotesOK /\ VotesOK' /\ OneSide /\ a \in Nat \ {0}
        /\ Principal(u) \in Nat /\ SideOf(u) \in Side
    BY PrincipalType, AmountsAssumption DEF IInv, TypeOK, VotesCounted
  <1>2. /\ \A v \in Users \ {u} : stakeOf'[v] = stakeOf[v]
        /\ \A t \in Side : stakeOf'[u][t] = IF t = s THEN Principal(u) + a ELSE 0
    BY <1>1 DEF Stake, VotesOK
  <1>3. \A t \in Side : stakeOf[u][t] = IF t = s THEN Principal(u) ELSE 0
    <2>1. Principal(u) > 0 => SideOf(u) = s
      BY DEF Stake
    <2>2. QED
      BY <1>1, <2>1, Position
  <1>4. OneSide'
    BY <1>1, <1>2 DEF VotesCounted, OneSide
  <1>5. /\ totalStake' = [totalStake EXCEPT ![s] = @ + a]
        /\ totalStake \in [Side -> Nat] /\ participants \in [Side -> Nat]
        /\ totalParticipants \in Nat
    BY <1>1 DEF Stake, VotesOK
  <1>6. IF Principal(u) = 0
          THEN /\ participants' = [participants EXCEPT ![s] = @ + 1]
               /\ totalParticipants' = totalParticipants + 1
          ELSE participants' = participants /\ totalParticipants' = totalParticipants
    BY DEF Stake
  <1>7. ASSUME NEW t \in Side
        PROVE  totalStake'[t] = Sum(StakesOn(t))' /\ participants'[t] = Sum(HoldersOf(t))'
    <2> DEFINE x == Sum(StakesOn(t))
               y == Sum(StakesOn(t))'
               h == Sum(HoldersOf(t))
               k == Sum(HoldersOf(t))'
    <2>1. /\ y + stakeOf[u][t] = x + stakeOf'[u][t]
          /\ k + HoldersOf(t)[u] = h + HoldersOf(t)'[u]
          /\ x \in Nat /\ y \in Nat /\ h \in Nat /\ k \in Nat
      BY <1>1, <1>2, VotesMove
    <2>2. totalStake[t] = x /\ participants[t] = h
      BY DEF VotesCounted, SidesCounted
    <2>3. /\ HoldersOf(t)[u] = IF stakeOf[u][t] > 0 THEN 1 ELSE 0
          /\ HoldersOf(t)'[u] = IF stakeOf'[u][t] > 0 THEN 1 ELSE 0
      BY DEF HoldersOf
    <2> HIDE DEF x, y, h, k
    <2>4. CASE t = s
      <3>1. y + Principal(u) = x + (Principal(u) + a)
        BY <1>2, <1>3, <2>1, <2>4
      <3>2. y = x + a
        BY <1>1, <2>1, <3>1, Raise
      <3>3. Principal(u) + a > 0
        BY <1>1
      <3>4. k + (IF Principal(u) > 0 THEN 1 ELSE 0) = h + 1
        BY <1>1, <1>2, <1>3, <2>1, <2>3, <2>4, <3>3
      <3>5. totalStake'[t] = x + a
        BY <1>5, <2>2, <2>4
      <3>6. participants'[t] = IF Principal(u) = 0 THEN h + 1 ELSE h
        BY <1>5, <1>6, <2>2, <2>4
      <3>7. k = IF Principal(u) = 0 THEN h + 1 ELSE h
        BY <1>1, <2>1, <3>4
      <3>8. QED
        BY <3>2, <3>5, <3>6, <3>7 DEF y, k
    <2>5. CASE t # s
      <3>1. stakeOf[u][t] = 0 /\ stakeOf'[u][t] = 0
        BY <1>2, <1>3, <2>5
      <3>2. HoldersOf(t)[u] = 0 /\ HoldersOf(t)'[u] = 0
        BY <2>3, <3>1
      <3>3. y = x /\ k = h
        BY <2>1, <3>1, <3>2, Same
      <3>4. totalStake'[t] = x /\ participants'[t] = h
        BY <1>5, <1>6, <2>2, <2>5
      <3>5. QED
        BY <3>3, <3>4 DEF y, k
    <2>6. QED
      BY <2>4, <2>5
  <1>8. HeadsAdd'
    <2>1. HeadsAdd
      BY DEF VotesCounted
    <2>2. QED
      BY <1>5, <1>6, <2>1 DEF HeadsAdd, Side
  <1>9. VotesAdd'
    <2>1. [Next]_vars /\ VotesAdd
      BY DEF VotesCounted, Next, Transaction
    <2>2. QED
      BY <2>1, VotesAddStep
  <1>10. QED
    BY <1>4, <1>7, <1>8, <1>9 DEF VotesCounted, SidesCounted

LEMMA ExitCounted ==
    ASSUME IInv, IInv', VotesCounted, NEW u \in Users, ExitStake(u)
    PROVE  VotesCounted'
  <1> DEFINE s == SideOf(u)
  <1>1. /\ VotesOK /\ VotesOK' /\ OneSide
        /\ Principal(u) \in Nat /\ Principal(u) > 0 /\ s \in Side
    BY PrincipalType DEF IInv, TypeOK, VotesCounted, ExitStake
  <1>2. /\ \A v \in Users \ {u} : stakeOf'[v] = stakeOf[v]
        /\ \A t \in Side : stakeOf'[u][t] = 0
    BY <1>1 DEF ExitStake, VotesOK
  <1>3. \A t \in Side : stakeOf[u][t] = IF t = s THEN Principal(u) ELSE 0
    BY <1>1, Position
  <1>4. OneSide'
    BY <1>1, <1>2 DEF VotesCounted, OneSide
  <1>5. /\ totalStake' = [totalStake EXCEPT ![s] = @ - Principal(u)]
        /\ participants' = [participants EXCEPT ![s] = @ - 1]
        /\ totalParticipants' = totalParticipants - 1
        /\ totalStake \in [Side -> Nat] /\ participants \in [Side -> Nat]
        /\ totalParticipants \in Nat
    BY <1>1 DEF ExitStake, VotesOK
  <1>6. ASSUME NEW t \in Side
        PROVE  totalStake'[t] = Sum(StakesOn(t))' /\ participants'[t] = Sum(HoldersOf(t))'
    <2> DEFINE x == Sum(StakesOn(t))
               y == Sum(StakesOn(t))'
               h == Sum(HoldersOf(t))
               k == Sum(HoldersOf(t))'
    <2>1. /\ y + stakeOf[u][t] = x + stakeOf'[u][t]
          /\ k + HoldersOf(t)[u] = h + HoldersOf(t)'[u]
          /\ x \in Nat /\ y \in Nat /\ h \in Nat /\ k \in Nat
      BY <1>1, <1>2, VotesMove
    <2>2. totalStake[t] = x /\ participants[t] = h
      BY DEF VotesCounted, SidesCounted
    <2>3. /\ HoldersOf(t)[u] = IF t = s THEN 1 ELSE 0
          /\ HoldersOf(t)'[u] = 0
      BY <1>1, <1>2, <1>3 DEF HoldersOf
    <2> HIDE DEF x, y, h, k, s
    <2>4. CASE t = s
      <3>1. y + Principal(u) = x + 0 /\ k + 1 = h + 0
        BY <1>2, <1>3, <2>1, <2>3, <2>4
      <3>2. y = x - Principal(u) /\ k = h - 1
        BY <1>1, <2>1, <3>1
      <3>3. totalStake'[t] = x - Principal(u) /\ participants'[t] = h - 1
        BY <1>5, <2>2, <2>4
      <3>4. QED
        BY <3>2, <3>3 DEF y, k
    <2>5. CASE t # s
      <3>1. stakeOf[u][t] = 0 /\ stakeOf'[u][t] = 0
        BY <1>2, <1>3, <2>5
      <3>2. HoldersOf(t)[u] = 0 /\ HoldersOf(t)'[u] = 0
        BY <2>3, <2>5
      <3>3. y = x /\ k = h
        BY <2>1, <3>1, <3>2, Same
      <3>4. totalStake'[t] = x /\ participants'[t] = h
        BY <1>5, <2>2, <2>5
      <3>5. QED
        BY <3>3, <3>4 DEF y, k
    <2>6. QED
      BY <2>4, <2>5
  <1>7. HeadsAdd'
    <2>1. HeadsAdd
      BY DEF VotesCounted
    <2>2. QED
      BY <1>1, <1>5, <2>1 DEF HeadsAdd, Side
  <1>8. VotesAdd'
    <2>1. [Next]_vars /\ VotesAdd
      BY DEF VotesCounted, Next, Transaction
    <2>2. QED
      BY <2>1, VotesAddStep
  <1>9. QED
    BY <1>4, <1>6, <1>7, <1>8 DEF VotesCounted, SidesCounted

LEMMA VotesCountedStep ==
    ASSUME IInv, IInv', VotesCounted, [Next]_vars
    PROVE  VotesCounted'
  <1>1. CASE UNCHANGED voteVars
    <2>1. \A t \in Side : StakesOn(t)' = StakesOn(t) /\ HoldersOf(t)' = HoldersOf(t)
      BY <1>1 DEF voteVars, StakesOn, HoldersOf
    <2>2. SidesCounted'
      BY <1>1, <2>1 DEF VotesCounted, SidesCounted, voteVars
    <2>3. OneSide' /\ VotesAdd' /\ HeadsAdd'
      BY <1>1 DEF VotesCounted, OneSide, VotesAdd, HeadsAdd, voteVars
    <2>4. QED
      BY <2>2, <2>3 DEF VotesCounted
  <1>2. \/ UNCHANGED voteVars
        \/ \E u \in Users, s \in Side, a \in StakeAmounts : Stake(u, s, a)
        \/ \E u \in Users : ExitStake(u)
    BY LedgerSteps DEF ledgerVars, DepositMarketFee, Withdraw, ClaimMarketFeesFor
  <1>3. QED
    BY <1>1, <1>2, StakeCounted, ExitCounted

LEMMA VotesCountedInit == Init => VotesCounted
  <1> SUFFICES ASSUME Init PROVE VotesCounted
    OBVIOUS
  <1>1. /\ stakeOf = [u \in Users |-> [s \in Side |-> 0]]
        /\ totalStake = [s \in Side |-> 0] /\ participants = [s \in Side |-> 0]
        /\ totalPrincipal = 0 /\ totalParticipants = 0
    BY DEF Init, EmptyVault
  <1>2. ASSUME NEW t \in Side
        PROVE  Sum(StakesOn(t)) = 0 /\ Sum(HoldersOf(t)) = 0
    <2>1. \A v \in Users : StakesOn(t)[v] = 0 /\ HoldersOf(t)[v] = 0
      BY <1>1 DEF StakesOn, HoldersOf
    <2>2. QED
      BY <2>1, UserZeros
  <1>3. OneSide /\ SidesCounted /\ VotesAdd /\ HeadsAdd
    BY <1>1, <1>2 DEF OneSide, SidesCounted, VotesAdd, HeadsAdd, Side
  <1>4. QED
    BY <1>3 DEF VotesCounted
------------------------------------------------------------------------------
(* The fees.                                                               *)

\* What the users' ledgers of book b amount to, and what a book promises: to
\* its stakers, and to the bonus of whoever stays; in units of 1/Precision.
LedgersOf(b) == [u \in Users |-> Booked(u, b)]
Promised(b)  == (forfeitedFees[b] * Precision + forfeitedRemainders[b])
                  + Sum(LedgersOf(b))

BookBacked(b) == /\ distributedFees[b] <= totalMarketFeesAccrued
                 /\ Promised(b) <= distributedFees[b] * Precision
FeesBacked == \A b \in Book : BookBacked(b)

LEMMA BookedType ==
    ASSUME VotesOK, FeesOK, IndexBehind, NEW u \in Users, NEW b \in Book
    PROVE  Booked(u, b) \in Nat
  <1>1. pendingFees[u][b] * Precision \in Nat /\ Growth(u, b) \in Nat
    BY GrowthType, Product, PrecisionAssumption
  <1>2. QED
    BY <1>1 DEF Booked

\* A step that changes nobody's ledger changes no promise.
LEMMA PromiseKept ==
    ASSUME NEW b \in Book, \A v \in Users : Booked(v, b)' = Booked(v, b),
           UNCHANGED <<forfeitVars, distributedFees, totalMarketFeesAccrued>>,
           BookBacked(b)
    PROVE  BookBacked(b)'
  <1>1. LedgersOf(b)' = LedgersOf(b)
    BY DEF LedgersOf
  <1>2. QED
    BY <1>1 DEF BookBacked, Promised, forfeitVars

\* What a leaver forfeits: whole tokens and a fraction, rounded once more.
LEMMA Forfeits ==
    \A f, r, e, q \in Nat, d \in Nat \ {0} :
        ((f + e) + (r + q) \div d) * d + ((r + q) % d) = (f * d + r) + (e * d + q)
  <1> SUFFICES ASSUME NEW f \in Nat, NEW r \in Nat, NEW e \in Nat, NEW q \in Nat,
                      NEW d \in Nat \ {0}
               PROVE  ((f + e) + (r + q) \div d) * d + ((r + q) % d)
                         = (f * d + r) + (e * d + q)
    OBVIOUS
  <1> DEFINE k == (r + q) \div d
             m == (r + q) % d
  <1>1. k * d + m = r + q /\ k \in Nat /\ m \in Nat
    OBVIOUS
  <1> HIDE DEF k, m
  <1>2. ((f + e) + k) * d = f * d + (e * d + k * d)
    BY <1>1
  <1>3. f * d \in Nat /\ e * d \in Nat /\ k * d \in Nat
    BY <1>1, Product
  <1>4. ((f + e) + k) * d + m = (f * d + r) + (e * d + q)
    BY <1>1, <1>2, <1>3
  <1>5. QED
    BY <1>4 DEF k, m

\* What leaves a user's ledger joins the book's forfeits, to the last fraction.
LEMMA ExitBacked ==
    ASSUME IInv, IInv', NEW u \in Users, ExitStake(u), NEW b \in Book, BookBacked(b)
    PROVE  BookBacked(b)'
  <1> DEFINE x == Sum(LedgersOf(b))
             y == Sum(LedgersOf(b))'
             k == Booked(u, b)
             w == forfeitedFees[b] * Precision + forfeitedRemainders[b]
             z == forfeitedFees'[b] * Precision + forfeitedRemainders'[b]
  <1>1. /\ VotesOK /\ FeesOK /\ IndexBehind /\ VotesOK' /\ FeesOK' /\ IndexBehind'
        /\ Precision \in Nat \ {0}
    BY PrecisionAssumption DEF IInv, TypeOK
  <1>2. /\ \A v \in Users : Booked(v, b) \in Nat
        /\ \A v \in Users : Booked(v, b)' \in Nat
        /\ \A v \in Users \ {u} : Booked(v, b)' = Booked(v, b)
        /\ Booked(u, b)' = 0
    <2>1. \A v \in Users : Booked(v, b) \in Nat
      BY <1>1, BookedType
    <2>2. \A v \in Users \ {u} : Booked(v, b)' = Booked(v, b)
      BY OthersStay
    <2>3. Booked(u, b)' = 0
      BY LedgerCloses
    <2>4. QED
      BY <2>1, <2>2, <2>3
  <1>3. y + k = x + 0 /\ x \in Nat /\ y \in Nat /\ k \in Nat
    <2>1. /\ \A v \in Users : LedgersOf(b)[v] \in Nat /\ LedgersOf(b)'[v] \in Nat
          /\ \A v \in Users \ {u} : LedgersOf(b)[v] = LedgersOf(b)'[v]
          /\ LedgersOf(b)[u] = k /\ LedgersOf(b)'[u] = 0
      BY <1>2 DEF LedgersOf
    <2>2. /\ Sum(LedgersOf(b)') + LedgersOf(b)[u] = Sum(LedgersOf(b)) + LedgersOf(b)'[u]
          /\ Sum(LedgersOf(b)) \in Nat /\ Sum(LedgersOf(b)') \in Nat
      BY <2>1, UserSumUpdate
    <2>3. QED
      BY <1>2, <2>1, <2>2
  <1>4. z = w + k /\ w \in Nat
    <2> DEFINE e == EarnedFees(u)[b]
               q == EarnedRemainder(u)[b]
               f == forfeitedFees[b]
               r == forfeitedRemainders[b]
    <2>1. e * Precision + q = k
      BY <1>1, LedgerShows
    <2>2. e \in Nat /\ q \in Nat /\ f \in Nat /\ r \in Nat
      BY <1>1, EarnedType DEF FeesOK
    <2>3. /\ forfeitedFees'[b] = f + e + (r + q) \div Precision
          /\ forfeitedRemainders'[b] = (r + q) % Precision
      BY DEF ExitStake
    <2> HIDE DEF e, q, f, r
    <2>4. z = (f * Precision + r) + (e * Precision + q)
      BY <1>1, <2>2, <2>3, Forfeits
    <2>5. f * Precision + r \in Nat
      BY <1>1, <2>2, Product
    <2>6. QED
      BY <2>1, <2>4, <2>5 DEF f, r
  <1>5. UNCHANGED <<distributedFees, totalMarketFeesAccrued>>
    BY DEF ExitStake, feeVars
  <1>6. w + x <= distributedFees[b] * Precision
    BY DEF BookBacked, Promised
  <1> HIDE DEF x, y, k, w, z
  <1>7. z + y = w + x
    BY <1>3, <1>4
  <1>8. z + y <= distributedFees'[b] * Precision
    BY <1>5, <1>6, <1>7
  <1>9. QED
    BY <1>5, <1>8 DEF BookBacked, Promised, y, z

\* The stakes that earn in a book add up to the stake its fees are divided by.
EarningStakes(b) == [u \in Users |-> EarningStake(u, b)]

LEMMA EarningStakesAdd ==
    ASSUME VotesOK, VotesCounted, NEW b \in Book
    PROVE  Sum(EarningStakes(b)) = BookStake(b)
  <1>1. \A s \in Side : totalStake[s] = Sum(StakesOn(s))
    BY DEF VotesCounted, SidesCounted
  <1>2. \A v \in Users : /\ stakeOf[v]["YES"] \in Nat /\ stakeOf[v]["NO"] \in Nat
                         /\ stakeOf[v]["INVALID"] \in Nat
    BY DEF VotesOK, Side
  <1>3. CASE b = "INVALID"
    <2>1. \A v \in Users : /\ StakesOn("YES")[v] \in Nat /\ StakesOn("NO")[v] \in Nat
                           /\ EarningStakes(b)[v] = StakesOn("YES")[v] + StakesOn("NO")[v]
      BY <1>2, <1>3 DEF StakesOn, EarningStakes, EarningStake
    <2>2. Sum(EarningStakes(b)) = Sum(StakesOn("YES")) + Sum(StakesOn("NO"))
      BY <2>1, SumAdds, UsersAssumption DEF Sum
    <2>3. QED
      BY <1>1, <1>3, <2>2 DEF BookStake, Side
  <1>4. CASE b # "INVALID"
    <2>1. \A v \in Users : EarningStakes(b)[v] = StakesOn(b)[v]
      BY <1>4 DEF StakesOn, EarningStakes, EarningStake
    <2>2. Sum(EarningStakes(b)) = Sum(StakesOn(b))
      BY <2>1, UserSumAgrees
    <2>3. QED
      BY <1>1, <1>4, <2>2 DEF BookStake, Book
  <1>5. QED
    BY <1>3, <1>4

\* Rounded down, the stakers of a book get no more of a fee than there is.
LEMMA FeeDivides ==
    \A n \in Nat, s \in Nat \ {0} : (n \div s) * s <= n /\ n \div s \in Nat
  OBVIOUS

LEMMA DepositBacked ==
    ASSUME IInv, VotesCounted, NEW m \in ExtraMarkets \cup {Market},
           NEW a \in FeeAmounts, DepositMarketFee(m, a), NEW b \in Book, BookBacked(b)
    PROVE  BookBacked(b)'
  <1> DEFINE x == Sum(LedgersOf(b))
             y == Sum(LedgersOf(b))'
             f == FeePerStake(a, b)
             w == forfeitedFees[b] * Precision + forfeitedRemainders[b]
             d == distributedFees[b]
  <1>1. /\ VotesOK /\ FeesOK /\ IndexBehind /\ Precision \in Nat \ {0} /\ a \in Nat
        /\ BookStake(b) \in Nat /\ a * Precision \in Nat
    BY PrecisionAssumption, AmountsAssumption, BookStakeType, Product DEF IInv, TypeOK
  <1>2. f \in Nat
    <2>1. CASE BookStake(b) = 0
      BY <2>1 DEF FeePerStake
    <2>2. CASE BookStake(b) # 0
      BY <1>1, <2>2, FeeDivides DEF FeePerStake
    <2>3. QED
      BY <2>1, <2>2
  <1>3. y = x + f * BookStake(b) /\ x \in Nat
    <2> DEFINE g == [v \in Users |-> f * EarningStake(v, b)]
    <2>1. \A v \in Users : /\ Booked(v, b) \in Nat /\ EarningStake(v, b) \in Nat
                           /\ Booked(v, b)' = Booked(v, b) + EarningStake(v, b) * f
      BY <1>1, BookedType, FeeBooked
    <2>2. \A v \in Users : /\ LedgersOf(b)[v] \in Nat /\ g[v] \in Nat
                           /\ LedgersOf(b)'[v] = LedgersOf(b)[v] + g[v]
                           /\ EarningStakes(b)[v] \in Nat
                           /\ g[v] = f * EarningStakes(b)[v]
      BY <1>2, <2>1, Product DEF LedgersOf, EarningStakes
    <2> HIDE DEF f, g
    <2>3. SumFunctionOnSet(LedgersOf(b)', Users)
            = SumFunctionOnSet(LedgersOf(b), Users) + SumFunctionOnSet(g, Users)
      BY <2>2, SumAdds, UsersAssumption
    <2>4. SumFunctionOnSet(g, Users) = f * SumFunctionOnSet(EarningStakes(b), Users)
      BY <1>2, <2>2, SumScales, UsersAssumption
    <2>5. Sum(EarningStakes(b)) = BookStake(b)
      BY <1>1, EarningStakesAdd
    <2>6. Sum(LedgersOf(b)) \in Nat
      BY <2>2, UserSumType
    <2>7. QED
      BY <2>3, <2>4, <2>5, <2>6 DEF Sum
  <1>4. /\ UNCHANGED forfeitVars
        /\ totalMarketFeesAccrued' = totalMarketFeesAccrued + a
        /\ distributedFees'[b] = IF BookStake(b) > 0 THEN d + a ELSE d
    BY DEF DepositMarketFee
  <1>5. w + x <= d * Precision /\ d <= totalMarketFeesAccrued
    BY DEF BookBacked, Promised
  <1>6. /\ w \in Nat /\ d \in Nat /\ totalMarketFeesAccrued \in Nat
        /\ forfeitedFees' = forfeitedFees /\ forfeitedRemainders' = forfeitedRemainders
    <2>1. /\ forfeitedFees[b] \in Nat /\ forfeitedRemainders[b] \in Nat
          /\ d \in Nat /\ totalMarketFeesAccrued \in Nat
      BY <1>1 DEF FeesOK
    <2>2. forfeitedFees[b] * Precision \in Nat
      BY <1>1, <2>1, Product
    <2>3. QED
      BY <1>4, <2>1, <2>2 DEF forfeitVars
  <1>7. w + y <= distributedFees'[b] * Precision
    <2>1. CASE BookStake(b) = 0
      <3>1. f = 0
        BY <2>1 DEF FeePerStake
      <3> HIDE DEF x, y, f, w, d
      <3>2. y = x /\ distributedFees'[b] = d
        BY <1>3, <1>4, <2>1, <3>1
      <3>3. QED
        BY <1>5, <3>2
    <2>2. CASE BookStake(b) # 0
      <3>1. f * BookStake(b) <= a * Precision /\ f * BookStake(b) \in Nat
        BY <1>1, <2>2, FeeDivides, Product DEF FeePerStake
      <3>2. distributedFees'[b] = d + a
        BY <1>1, <1>4, <2>2
      <3> HIDE DEF x, y, f, w, d
      <3>3. (d + a) * Precision = d * Precision + a * Precision
        BY <1>1, <1>6
      <3>4. d * Precision \in Nat
        BY <1>1, <1>6, Product
      <3>5. \A p, q, r, t \in Nat : w + x <= t /\ r <= q => w + (x + r) <= t + q
        BY <1>3, <1>6
      <3>6. QED
        BY <1>1, <1>3, <1>5, <3>1, <3>2, <3>3, <3>4, <3>5
    <2>3. QED
      BY <2>1, <2>2
  <1>8. distributedFees'[b] <= totalMarketFeesAccrued'
    <2> HIDE DEF d
    <2>1. \A t \in Nat : d <= t => d + a <= t + a /\ d <= t + a
      BY <1>1, <1>6
    <2>2. QED
      BY <1>4, <1>5, <1>6, <2>1
  <1>9. QED
    BY <1>6, <1>7, <1>8 DEF BookBacked, Promised

LEMMA FeesBackedStep ==
    ASSUME IInv, IInv', VotesCounted, FeesBacked, [Next]_vars
    PROVE  FeesBacked'
  <1> SUFFICES ASSUME NEW b \in Book PROVE BookBacked(b)'
    BY DEF FeesBacked
  <1>1. /\ BookBacked(b) /\ VotesOK /\ FeesOK /\ IndexBehind /\ VotesOK'
    BY DEF FeesBacked, IInv, TypeOK
  <1>2. CASE UNCHANGED ledgerVars
    <2>1. /\ UNCHANGED <<stakeOf, pendingFees, feeIndex, feeRemainder, accFeePerStake,
                         distributedFees, totalMarketFeesAccrued, forfeitVars>>
      BY <1>2 DEF ledgerVars, voteVars, historyVars, feeVars
    <2>2. \A v \in Users : Booked(v, b)' = Booked(v, b)
      BY <2>1 DEF Booked, Growth, EarningStake
    <2>3. QED
      BY <1>1, <2>1, <2>2, PromiseKept
  <1>3. ASSUME NEW u \in Users, Checkpoint(u), UNCHANGED <<feeVars, forfeitVars>>,
               \A v \in Users \ {u} : stakeOf'[v] = stakeOf[v]
        PROVE  BookBacked(b)'
    <2>1. UNCHANGED <<distributedFees, totalMarketFeesAccrued, forfeitVars>>
      BY <1>3 DEF feeVars
    <2>2. \A v \in Users : Booked(v, b)' = Booked(v, b)
      BY <1>1, <1>3, CheckpointBooks
    <2>3. QED
      BY <1>1, <2>1, <2>2, PromiseKept
  <1>4. ASSUME NEW u \in Users, NEW s \in Side, NEW a \in StakeAmounts, Stake(u, s, a)
        PROVE  BookBacked(b)'
    BY <1>1, <1>3, <1>4 DEF Stake, VotesOK
  <1>5. ASSUME NEW u \in Users, Withdraw(u) \/ ClaimMarketFeesFor(u)
        PROVE  BookBacked(b)'
    BY <1>3, <1>5 DEF Withdraw, ClaimMarketFeesFor, voteVars
  <1>6. QED
    BY <1>1, <1>2, <1>4, <1>5, ExitBacked, DepositBacked, LedgerSteps

LEMMA FeesBackedInit == Init => FeesBacked
  <1> SUFFICES ASSUME Init, NEW b \in Book PROVE BookBacked(b)
    BY DEF FeesBacked
  <1>1. \A v \in Users : Booked(v, b) = 0
    <2> SUFFICES ASSUME NEW v \in Users PROVE Booked(v, b) = 0
      OBVIOUS
    <2>1. /\ pendingFees[v][b] = 0 /\ feeRemainder[v][b] = 0
          /\ feeIndex[v][b] = 0 /\ accFeePerStake[b] = 0
      BY DEF Init, EmptyVault, ZeroBooks
    <2>2. EarningStake(v, b) = 0
      BY DEF Init, EmptyVault, EarningStake, Book, Side
    <2>3. Booked(v, b) = 0 * Precision + (0 * (0 - 0) + 0)
      BY <2>1, <2>2 DEF Booked, Growth
    <2>4. QED
      BY <2>3, PrecisionAssumption
  <1>2. Sum(LedgersOf(b)) = 0
    <2>1. \A v \in Users : LedgersOf(b)[v] = 0
      BY <1>1 DEF LedgersOf
    <2>2. QED
      BY <2>1, UserZeros
  <1>3. /\ forfeitedFees[b] = 0 /\ forfeitedRemainders[b] = 0
        /\ distributedFees[b] = 0 /\ totalMarketFeesAccrued = 0
    BY DEF Init, EmptyVault, ZeroBooks
  <1>4. 0 * Precision = 0
    BY PrecisionAssumption
  <1>5. QED
    BY <1>2, <1>3, <1>4 DEF BookBacked, Promised
------------------------------------------------------------------------------
(* The claims.                                                             *)

\* Who has not claimed yet, and what he has coming from each pool.
Waits(u)        == Principal(u) > 0 /\ PrincipalEligible(u) /\ u \notin claimed
WaitsForFees(u) == Principal(u) > 0 /\ FeesDue(u)
Share(u)        == (settlementPool * Principal(u)) \div PoolDenominator

Waiting        == [u \in Users |-> IF Waits(u) THEN 1 ELSE 0]
SharesDue      == [u \in Users |-> IF Waits(u) THEN Share(u) ELSE 0]
WaitingForFees == [u \in Users |-> IF WaitsForFees(u) THEN 1 ELSE 0]
EarningsDue    == [u \in Users |-> IF WaitsForFees(u) THEN EarnedFees(u)[outcome] ELSE 0]
BonusesDue     == [u \in Users |-> IF WaitsForFees(u) THEN FeeBonus(u) ELSE 0]

PrincipalKept ==
    /\ remainingEligibleClaims = Sum(Waiting)
    /\ Sum(SharesDue) <= remainingSettlementPool
FeesKept ==
    /\ remainingMarketFeeClaims = Sum(WaitingForFees)
    /\ Sum(EarningsDue) <= historicalFeePoolRemaining
    /\ Sum(BonusesDue) <= forfeitedBonusPoolRemaining
    /\ marketFeeUserPoolRemaining
         = historicalFeePoolRemaining + forfeitedBonusPoolRemaining
ClaimsKept ==
    IF resolved THEN PrincipalKept /\ FeesKept
    ELSE claimed = {} /\ marketFeeClaimed = {}

Kept == IInv /\ VotesCounted /\ FeesBacked

\* Nobody has more than all of them, nor more than his side.
LEMMA PrincipalInTotals ==
    ASSUME VotesOK, VotesCounted, NEW u \in Users
    PROVE  /\ Principal(u) <= totalStake[SideOf(u)]
           /\ Principal(u) <= totalPrincipal
           /\ EarningStake(u, "INVALID") <= BookStake("INVALID")
  <1>1. /\ \A v \in Users, s \in Side : stakeOf[v][s] \in Nat
        /\ totalStake["YES"] \in Nat /\ totalStake["NO"] \in Nat
        /\ totalStake["INVALID"] \in Nat
    BY DEF VotesOK, Side
  <1>2. ASSUME NEW s \in Side PROVE stakeOf[u][s] <= totalStake[s]
    <2>1. \A v \in Users : StakesOn(s)[v] \in Nat
      BY <1>1 DEF StakesOn
    <2>2. StakesOn(s)[u] <= Sum(StakesOn(s))
      BY <2>1, UserTerm
    <2>3. QED
      BY <2>2 DEF StakesOn, VotesCounted, SidesCounted
  <1>3. SideOf(u) \in Side /\ stakeOf[u][SideOf(u)] = Principal(u)
    BY PrincipalType, Position DEF VotesCounted
  <1>4. Principal(u) <= totalStake[SideOf(u)]
    BY <1>2, <1>3
  <1>5. /\ stakeOf[u]["YES"] <= totalStake["YES"] /\ stakeOf[u]["NO"] <= totalStake["NO"]
        /\ stakeOf[u]["INVALID"] <= totalStake["INVALID"]
    BY <1>2 DEF Side
  <1>6. /\ stakeOf[u]["YES"] \in Nat /\ stakeOf[u]["NO"] \in Nat
        /\ stakeOf[u]["INVALID"] \in Nat
    BY <1>1 DEF Side
  <1>7. Principal(u) <= totalPrincipal
    BY <1>1, <1>5, <1>6 DEF Principal, VotesCounted, VotesAdd
  <1>8. EarningStake(u, "INVALID") <= BookStake("INVALID")
    BY <1>1, <1>5, <1>6 DEF EarningStake, BookStake
  <1>9. QED
    BY <1>4, <1>7, <1>8

\* Who may withdraw shares in a pool that is divided by more than nothing.
LEMMA PoolIsShared ==
    ASSUME Kept, resolved
    PROVE  /\ PoolDenominator \in Nat /\ settlementPool \in Nat /\ outcome \in Book
           /\ \A u \in Users : /\ Principal(u) > 0 /\ PrincipalEligible(u) => PoolDenominator > 0
                               /\ PoolDenominator > 0 => Share(u) \in Nat
                               /\ PoolDenominator > 0 =>
                                    Share(u) * PoolDenominator <= settlementPool * Principal(u)
                               /\ PoolDenominator > 0 =>
                                    Share(u) * PoolDenominator
                                      > settlementPool * Principal(u) - PoolDenominator
  <1>1. /\ VotesOK /\ VotesCounted /\ settlementPool \in Nat /\ outcome \in Book
    BY DEF Kept, IInv, TypeOK, RequestsOK, SettlementOK, Outcome, Book, Side
  <1>2. PoolDenominator \in Nat
    BY <1>1 DEF PoolDenominator, VotesOK, Book
  <1>3. ASSUME NEW u \in Users, Principal(u) > 0, PrincipalEligible(u)
        PROVE  PoolDenominator > 0
    <2>1. /\ Principal(u) \in Nat /\ totalPrincipal \in Nat
          /\ Principal(u) <= totalStake[SideOf(u)] /\ Principal(u) <= totalPrincipal
      BY <1>1, PrincipalInTotals, PrincipalType DEF VotesOK
    <2>2. CASE outcome = "INVALID"
      BY <1>3, <2>1, <2>2 DEF PoolDenominator
    <2>3. CASE outcome # "INVALID"
      <3>1. outcome = SideOf(u) /\ totalStake[outcome] \in Nat
        BY <1>1, <1>3, <2>3 DEF PrincipalEligible, VotesOK, Book
      <3>2. QED
        BY <1>3, <2>1, <2>3, <3>1 DEF PoolDenominator
    <2>4. QED
      BY <2>2, <2>3
  <1>4. ASSUME NEW u \in Users, PoolDenominator > 0
        PROVE  /\ Share(u) \in Nat
               /\ Share(u) * PoolDenominator <= settlementPool * Principal(u)
               /\ Share(u) * PoolDenominator > settlementPool * Principal(u) - PoolDenominator
    <2> DEFINE amount == settlementPool * Principal(u)
    <2>1. amount \in Nat /\ Share(u) = amount \div PoolDenominator
      BY <1>1, PrincipalType, Product DEF Share
    <2> HIDE DEF amount
    <2>2. \A n \in Nat, s \in Nat \ {0} :
              /\ n \div s \in Nat /\ (n \div s) * s <= n /\ (n \div s) * s > n - s
      OBVIOUS
    <2>3. /\ Share(u) \in Nat /\ Share(u) * PoolDenominator <= amount
          /\ Share(u) * PoolDenominator > amount - PoolDenominator
      BY <1>2, <1>4, <2>1, <2>2
    <2>4. QED
      BY <2>3 DEF amount
  <1>5. QED
    BY <1>1, <1>2, <1>3, <1>4

\* What is due to a user is a natural number.
LEMMA DueTypes ==
    ASSUME Kept, resolved, NEW u \in Users
    PROVE  /\ Waiting[u] \in Nat /\ SharesDue[u] \in Nat
           /\ WaitingForFees[u] \in Nat /\ EarningsDue[u] \in Nat /\ BonusesDue[u] \in Nat
           /\ EarnedFees(u)[outcome] \in Nat /\ FeeBonus(u) \in Nat
  <1>1. EarnedFees(u)[outcome] \in Nat /\ FeeBonus(u) \in Nat
    BY PayoutTypes DEF Kept, IInv, TypeOK
  <1>2. Waits(u) => Share(u) \in Nat
    BY PoolIsShared DEF Waits
  <1>3. QED
    BY <1>1, <1>2 DEF Waiting, SharesDue, WaitingForFees, EarningsDue, BonusesDue
------------------------------------------------------------------------------
(* The settlement: the pools as _snapshotSettlement leaves them cover all   *)
(* claims, because nobody has claimed yet.                                  *)

Claims == IF outcome = "INVALID" THEN participants["YES"] + participants["NO"]
          ELSE participants[outcome]
JustSettled ==
    /\ resolved /\ claimed = {} /\ marketFeeClaimed = {}
    /\ remainingMarketFeeClaims = Claims
    /\ IF Claims = 0
         THEN marketFeeUserPoolRemaining = 0 /\ forfeitedBonusPool = 0
         ELSE /\ marketFeeUserPoolRemaining = distributedFees[outcome]
              /\ forfeitedBonusPool = forfeitedFees[outcome]
    /\ historicalFeePoolRemaining = marketFeeUserPoolRemaining - forfeitedBonusPool
    /\ forfeitedBonusPoolRemaining = forfeitedBonusPool
    /\ settlementPool = IF totalPrincipal = 0 THEN 0 ELSE remainingSettlementPool
    /\ remainingEligibleClaims = IF totalPrincipal = 0 THEN 0
                                 ELSE IF outcome = "INVALID" THEN totalParticipants
                                 ELSE participants[outcome]

\* The holders of one side, of two and of all three.
LEMMA HoldersAdd ==
    ASSUME VotesOK, VotesCounted
    PROVE  /\ \A s \in Side, u \in Users :
                HoldersOf(s)[u] = IF Principal(u) > 0 /\ SideOf(u) = s THEN 1 ELSE 0
           /\ \A s \in Side : Sum(HoldersOf(s)) = participants[s]
           /\ \A f : (\A u \in Users : f[u] = IF Principal(u) > 0 /\ SideOf(u) # "INVALID"
                                              THEN 1 ELSE 0)
                       => Sum(f) = participants["YES"] + participants["NO"]
           /\ \A f : (\A u \in Users : f[u] = IF Principal(u) > 0 THEN 1 ELSE 0)
                       => Sum(f) = totalParticipants
  <1>1. \A u \in Users : SideOf(u) \in Side /\ Principal(u) \in Nat
    BY PrincipalType
  <1>2. \A s \in Side, u \in Users :
            HoldersOf(s)[u] = IF Principal(u) > 0 /\ SideOf(u) = s THEN 1 ELSE 0
    BY <1>1, Position DEF HoldersOf, VotesCounted
  <1>3. \A s \in Side : Sum(HoldersOf(s)) = participants[s]
    BY DEF VotesCounted, SidesCounted
  <1>4. ASSUME NEW f, \A u \in Users : f[u] = IF Principal(u) > 0 /\ SideOf(u) # "INVALID"
                                              THEN 1 ELSE 0
        PROVE  Sum(f) = participants["YES"] + participants["NO"]
    <2>1. \A u \in Users : /\ HoldersOf("YES")[u] \in Nat /\ HoldersOf("NO")[u] \in Nat
                           /\ f[u] = HoldersOf("YES")[u] + HoldersOf("NO")[u]
      BY <1>1, <1>2, <1>4 DEF Side
    <2>2. Sum(f) = Sum(HoldersOf("YES")) + Sum(HoldersOf("NO"))
      BY <2>1, SumAdds, UsersAssumption DEF Sum
    <2>3. QED
      BY <1>3, <2>2 DEF Side
  <1>5. ASSUME NEW f, \A u \in Users : f[u] = IF Principal(u) > 0 THEN 1 ELSE 0
        PROVE  Sum(f) = totalParticipants
    <2> DEFINE g == [u \in Users |-> IF Principal(u) > 0 /\ SideOf(u) # "INVALID"
                                     THEN 1 ELSE 0]
    <2>1. \A u \in Users : g[u] = IF Principal(u) > 0 /\ SideOf(u) # "INVALID" THEN 1 ELSE 0
      OBVIOUS
    <2> HIDE DEF g
    <2>2. Sum(g) = participants["YES"] + participants["NO"]
      BY <1>4, <2>1
    <2>3. \A u \in Users : /\ g[u] \in Nat /\ HoldersOf("INVALID")[u] \in Nat
                           /\ f[u] = g[u] + HoldersOf("INVALID")[u]
      BY <1>1, <1>2, <1>5, <2>1 DEF Side
    <2>4. Sum(f) = Sum(g) + Sum(HoldersOf("INVALID"))
      BY <2>3, SumAdds, UsersAssumption DEF Sum
    <2>5. QED
      BY <1>3, <2>2, <2>4 DEF Side, VotesCounted, HeadsAdd
  <1>6. QED
    BY <1>2, <1>3, <1>4, <1>5

\* What those who share in the pool have at stake is what it is divided by.
LEMMA PrincipalsAdd ==
    ASSUME VotesOK, VotesCounted, outcome \in Book, NEW f,
           \A u \in Users : f[u] = IF Principal(u) > 0 /\ PrincipalEligible(u)
                                   THEN Principal(u) ELSE 0
    PROVE  Sum(f) = PoolDenominator
  <1>1. /\ \A u \in Users : SideOf(u) \in Side /\ Principal(u) \in Nat
        /\ \A u \in Users, s \in Side : stakeOf[u][s] = IF s = SideOf(u) THEN Principal(u) ELSE 0
        /\ \A s \in Side : totalStake[s] = Sum(StakesOn(s))
        /\ \A u \in Users, s \in Side : StakesOn(s)[u] = stakeOf[u][s]
    BY PrincipalType, Position DEF VotesCounted, SidesCounted, StakesOn
  <1>2. CASE outcome = "INVALID"
    <2> DEFINE g == [u \in Users |-> StakesOn("YES")[u] + StakesOn("NO")[u]]
    <2>1. \A u \in Users : /\ StakesOn("YES")[u] \in Nat /\ StakesOn("NO")[u] \in Nat
                           /\ StakesOn("INVALID")[u] \in Nat
      BY <1>1 DEF Side
    <2>2. \A u \in Users : g[u] = StakesOn("YES")[u] + StakesOn("NO")[u] /\ g[u] \in Nat
      BY <2>1
    <2>3. \A u \in Users : f[u] = g[u] + StakesOn("INVALID")[u]
      BY <1>1, <1>2, <2>2 DEF Side, PrincipalEligible
    <2> HIDE DEF g
    <2>4. Sum(g) = Sum(StakesOn("YES")) + Sum(StakesOn("NO"))
      BY <2>1, <2>2, SumAdds, UsersAssumption DEF Sum
    <2>5. Sum(f) = Sum(g) + Sum(StakesOn("INVALID"))
      BY <2>1, <2>2, <2>3, SumAdds, UsersAssumption DEF Sum
    <2>6. QED
      BY <1>1, <1>2, <2>4, <2>5 DEF PoolDenominator, VotesCounted, VotesAdd, Side
  <1>3. CASE outcome # "INVALID"
    <2>1. \A u \in Users : f[u] = StakesOn(outcome)[u]
      BY <1>1, <1>3 DEF Book, PrincipalEligible
    <2>2. QED
      BY <1>1, <1>3, <2>1, UserSumAgrees DEF PoolDenominator, Book
  <1>4. QED
    BY <1>2, <1>3

LEMMA SettledPrincipal ==
    ASSUME Kept, JustSettled
    PROVE  PrincipalKept
  <1>1. /\ VotesOK /\ VotesCounted /\ outcome \in Book /\ resolved
        /\ remainingSettlementPool \in Nat /\ totalPrincipal \in Nat
        /\ \A u \in Users : Principal(u) \in Nat /\ SideOf(u) \in Side
    BY PoolIsShared, PrincipalType
       DEF Kept, IInv, TypeOK, VotesOK, SettlementOK, JustSettled
  <1>2. \A u \in Users : Waits(u) <=> Principal(u) > 0 /\ PrincipalEligible(u)
    BY DEF Waits, JustSettled
  <1>3. remainingEligibleClaims = Sum(Waiting)
    <2>1. CASE totalPrincipal = 0
      <3>1. \A u \in Users : Waiting[u] = 0
        BY <1>1, <2>1, PrincipalInTotals DEF Waiting, Waits
      <3>2. QED
        BY <2>1, <3>1, UserZeros DEF JustSettled
    <2>2. CASE totalPrincipal # 0 /\ outcome = "INVALID"
      <3>1. \A u \in Users : Waiting[u] = IF Principal(u) > 0 THEN 1 ELSE 0
        BY <1>2, <2>2 DEF Waiting, PrincipalEligible
      <3>2. QED
        BY <1>1, <2>2, <3>1, HoldersAdd DEF JustSettled
    <2>3. CASE totalPrincipal # 0 /\ outcome # "INVALID"
      <3>1. \A u \in Users : Waiting[u] = HoldersOf(outcome)[u]
        BY <1>1, <1>2, <2>3, HoldersAdd DEF Waiting, PrincipalEligible, Book
      <3>2. QED
        BY <1>1, <2>3, <3>1, HoldersAdd, UserSumAgrees DEF JustSettled, Book
    <2>4. QED
      BY <2>1, <2>2, <2>3
  <1>4. Sum(SharesDue) <= settlementPool
    <2> DEFINE p == [u \in Users |-> IF Principal(u) > 0 /\ PrincipalEligible(u)
                                     THEN Principal(u) ELSE 0]
    <2>1. /\ PoolDenominator \in Nat /\ settlementPool \in Nat
          /\ \A u \in Users : SharesDue[u] \in Nat
      BY <1>1, PoolIsShared, DueTypes
    <2>2. \A u \in Users : /\ p[u] \in Nat
                           /\ p[u] = IF Principal(u) > 0 /\ PrincipalEligible(u)
                                     THEN Principal(u) ELSE 0
      BY <1>1
    <2> HIDE DEF p
    <2>3. Sum(p) = PoolDenominator
      BY <1>1, <2>2, PrincipalsAdd
    <2>4. CASE PoolDenominator = 0
      <3>1. \A u \in Users : SharesDue[u] = 0
        BY <1>1, <1>2, <2>4, PoolIsShared DEF SharesDue
      <3>2. QED
        BY <2>1, <3>1, UserZeros
    <2>5. CASE PoolDenominator # 0
      <3>1. ASSUME NEW u \in Users
            PROVE  SharesDue[u] * PoolDenominator <= settlementPool * p[u]
        <4>1. CASE Waits(u)
          <5>1. SharesDue[u] = Share(u) /\ p[u] = Principal(u)
            BY <1>2, <2>2, <4>1 DEF SharesDue
          <5>2. Share(u) * PoolDenominator <= settlementPool * Principal(u)
            BY <1>1, <2>1, <2>5, PoolIsShared
          <5>3. QED
            BY <5>1, <5>2
        <4>2. CASE ~Waits(u)
          <5>1. SharesDue[u] = 0 /\ p[u] = 0
            BY <1>2, <2>2, <4>2 DEF SharesDue
          <5>2. QED
            BY <2>1, <5>1
        <4>3. QED
          BY <4>1, <4>2
      <3>2. PoolDenominator <= PoolDenominator
        BY <2>1
      <3>3. QED
        BY <2>1, <2>2, <2>3, <2>5, <3>1, <3>2, SumProRata, UsersAssumption DEF Sum
    <2>6. QED
      BY <2>1, <2>4, <2>5
  <1>5. settlementPool <= remainingSettlementPool
    BY <1>1 DEF JustSettled
  <1>6. Sum(SharesDue) \in Nat
    BY <1>1, DueTypes, UserSumType
  <1>7. settlementPool \in Nat
    BY <1>1, PoolIsShared
  <1>8. QED
    BY <1>1, <1>3, <1>4, <1>5, <1>6, <1>7 DEF PrincipalKept

\* The stakers of a book: all they earned in whole tokens, and what leavers
\* forfeited, is within what was distributed.
LEMMA EarningsCovered ==
    ASSUME Kept, NEW b \in Book, NEW e, \A u \in Users : e[u] = EarnedFees(u)[b]
    PROVE  forfeitedFees[b] + Sum(e) <= distributedFees[b] /\ Sum(e) \in Nat
  <1> DEFINE l == [u \in Users |-> Precision * e[u]]
  <1>1. /\ VotesOK /\ FeesOK /\ IndexBehind /\ Precision \in Nat \ {0}
    BY PrecisionAssumption DEF Kept, IInv, TypeOK
  <1>2. \A u \in Users : e[u] \in Nat /\ Booked(u, b) \in Nat /\ LedgersOf(b)[u] = Booked(u, b)
    BY <1>1, EarnedType, BookedType DEF LedgersOf
  <1>3. ASSUME NEW u \in Users PROVE l[u] \in Nat /\ l[u] <= LedgersOf(b)[u]
    <2>1. EarnedRemainder(u)[b] \in Nat
      BY <1>1, EarnedType
    <2>2. e[u] * Precision + EarnedRemainder(u)[b] = Booked(u, b)
      BY <1>1, LedgerShows
    <2>3. l[u] = e[u] * Precision /\ l[u] \in Nat
      BY <1>1, <1>2
    <2> HIDE DEF l
    <2>4. QED
      BY <1>2, <2>1, <2>2, <2>3
  <1>4. \A u \in Users : l[u] = Precision * e[u]
    OBVIOUS
  <1> HIDE DEF l
  <1>5. Sum(l) <= Sum(LedgersOf(b)) /\ Sum(LedgersOf(b)) \in Nat
    BY <1>2, <1>3, SumAtMost, SumType, UsersAssumption DEF Sum
  <1>6. Sum(l) = Precision * Sum(e) /\ Sum(e) \in Nat
    BY <1>1, <1>2, <1>4, SumScales, SumType, UsersAssumption DEF Sum
  <1>7. /\ forfeitedFees[b] \in Nat /\ forfeitedRemainders[b] \in Nat
        /\ distributedFees[b] \in Nat
    BY <1>1 DEF FeesOK
  <1>8. (forfeitedFees[b] * Precision + forfeitedRemainders[b]) + Sum(LedgersOf(b))
           <= distributedFees[b] * Precision
    BY DEF Kept, FeesBacked, BookBacked, Promised
  <1>9. ASSUME NEW f \in Nat, NEW r \in Nat, NEW s \in Nat, NEW t \in Nat, NEW d \in Nat,
               (f * Precision + r) + t <= d * Precision, Precision * s <= t
        PROVE  f + s <= d
    <2>1. f * Precision \in Nat /\ d * Precision \in Nat /\ Precision * s \in Nat
      BY <1>1, Product
    <2>2. f * Precision + Precision * s <= d * Precision
      BY <1>9, <2>1
    <2>3. (f + s) * Precision <= d * Precision
      BY <1>1, <2>2
    <2>4. \A m, n \in Nat : m * Precision <= n * Precision => m <= n
      BY <1>1
    <2>5. QED
      BY <2>3, <2>4
  <1>10. QED
    BY <1>5, <1>6, <1>7, <1>8, <1>9

LEMMA SettledFees ==
    ASSUME Kept, JustSettled
    PROVE  FeesKept
  <1>1. /\ VotesOK /\ FeesOK /\ VotesCounted /\ outcome \in Book /\ resolved
        /\ forfeitedBonusPool \in Nat
        /\ \A u \in Users : Principal(u) \in Nat /\ SideOf(u) \in Side
        /\ BookStake(outcome) \in Nat
    BY PoolIsShared, PrincipalType, BookStakeType
       DEF Kept, IInv, TypeOK, SettlementOK, JustSettled
  <1>2. \A u \in Users :
            WaitsForFees(u) <=> /\ Principal(u) > 0 /\ FeeEligible(u)
    BY DEF WaitsForFees, FeesDue, JustSettled
  <1>3. Sum(WaitingForFees) = Claims
    <2>1. CASE outcome = "INVALID"
      <3>1. \A u \in Users : WaitingForFees[u] =
               IF Principal(u) > 0 /\ SideOf(u) # "INVALID" THEN 1 ELSE 0
        BY <1>2, <2>1 DEF WaitingForFees, FeeEligible
      <3>2. QED
        BY <1>1, <2>1, <3>1, HoldersAdd DEF Claims
    <2>2. CASE outcome # "INVALID"
      <3>1. \A u \in Users : WaitingForFees[u] = HoldersOf(outcome)[u]
        BY <1>1, <1>2, <2>2, HoldersAdd DEF WaitingForFees, FeeEligible, Book, Side
      <3>2. QED
        BY <1>1, <2>2, <3>1, HoldersAdd, UserSumAgrees DEF Claims, Book
    <2>3. QED
      BY <2>1, <2>2
  <1>4. \A u \in Users : /\ WaitingForFees[u] \in Nat /\ EarningsDue[u] \in Nat
                         /\ BonusesDue[u] \in Nat /\ EarnedFees(u)[outcome] \in Nat
                         /\ FeeBonus(u) \in Nat
    BY <1>1, DueTypes
  <1>5. Sum(EarningsDue) <= historicalFeePoolRemaining
    <2>1. CASE Claims = 0
      <3>1. \A u \in Users : EarningsDue[u] = 0
        <4>1. \A u \in Users : WaitingForFees[u] <= 0
          BY <1>3, <1>4, <2>1, UserTerm
        <4>2. QED
          BY <4>1 DEF WaitingForFees, EarningsDue
      <3>2. historicalFeePoolRemaining = 0
        BY <2>1 DEF JustSettled
      <3>3. Sum(EarningsDue) = 0
        BY <3>1, UserZeros
      <3>4. QED
        BY <3>2, <3>3
    <2>2. CASE Claims # 0
      <3> DEFINE e == [u \in Users |-> EarnedFees(u)[outcome]]
      <3>1. \A u \in Users : e[u] = EarnedFees(u)[outcome]
        OBVIOUS
      <3> HIDE DEF e
      <3>2. forfeitedFees[outcome] + Sum(e) <= distributedFees[outcome] /\ Sum(e) \in Nat
        BY <1>1, <3>1, EarningsCovered
      <3>3. \A u \in Users : e[u] \in Nat /\ EarningsDue[u] <= e[u]
        BY <1>4, <3>1 DEF EarningsDue
      <3>4. Sum(EarningsDue) <= Sum(e) /\ Sum(EarningsDue) \in Nat
        BY <1>4, <3>3, SumAtMost, SumType, UsersAssumption DEF Sum
      <3>5. historicalFeePoolRemaining = distributedFees[outcome] - forfeitedFees[outcome]
        BY <2>2 DEF JustSettled
      <3>6. distributedFees[outcome] \in Nat /\ forfeitedFees[outcome] \in Nat
        BY <1>1 DEF FeesOK
      <3>7. QED
        BY <3>2, <3>4, <3>5, <3>6
    <2>3. QED
      BY <2>1, <2>2
  <1>6. Sum(BonusesDue) <= forfeitedBonusPool
    <2>1. CASE forfeitedBonusPool = 0 \/ BookStake(outcome) = 0
      <3>1. \A u \in Users : BonusesDue[u] = 0
        BY <2>1 DEF BonusesDue, FeeBonus
      <3>2. QED
        BY <1>1, <3>1, UserZeros
    <2>2. CASE forfeitedBonusPool # 0 /\ BookStake(outcome) # 0
      <3>1. \A u \in Users : EarningStakes(outcome)[u] \in Nat
        BY <1>1, GrowthType DEF EarningStakes, Kept, IInv, TypeOK
      <3>2. ASSUME NEW u \in Users
            PROVE  BonusesDue[u] * BookStake(outcome)
                      <= forfeitedBonusPool * EarningStakes(outcome)[u]
        <4>1. CASE WaitsForFees(u)
          <5>1. EarningStake(u, outcome) = Principal(u)
            <6>1. \A s \in Side : stakeOf[u][s] = IF s = SideOf(u) THEN Principal(u) ELSE 0
              BY <1>1, Position DEF VotesCounted
            <6>2. SideOf(u) = outcome \/ (outcome = "INVALID" /\ SideOf(u) # "INVALID")
              BY <1>2, <4>1 DEF FeeEligible
            <6>3. outcome = "INVALID" => SideOf(u) # "INVALID"
              BY <1>2, <4>1 DEF FeeEligible
            <6>4. QED
              BY <1>1, <6>1, <6>2, <6>3 DEF EarningStake, Side, Book
          <5>2. forfeitedBonusPool * Principal(u) \in Nat
            BY <1>1, Product
          <5>3. BonusesDue[u] = (forfeitedBonusPool * Principal(u)) \div BookStake(outcome)
            BY <2>2, <4>1 DEF BonusesDue, FeeBonus
          <5>4. BonusesDue[u] * BookStake(outcome) <= forfeitedBonusPool * Principal(u)
            BY <1>1, <2>2, <5>2, <5>3, FeeDivides
          <5>5. QED
            BY <5>1, <5>4 DEF EarningStakes
        <4>2. CASE ~WaitsForFees(u)
          <5>1. BonusesDue[u] = 0
            BY <4>2 DEF BonusesDue
          <5>2. forfeitedBonusPool * EarningStakes(outcome)[u] \in Nat
            BY <1>1, <3>1, Product
          <5>3. 0 * BookStake(outcome) = 0
            BY <1>1
          <5>4. QED
            BY <5>1, <5>2, <5>3
        <4>3. QED
          BY <4>1, <4>2
      <3>3. Sum(EarningStakes(outcome)) <= BookStake(outcome)
        BY <1>1, EarningStakesAdd
      <3>4. QED
        BY <1>1, <1>4, <2>2, <3>1, <3>2, <3>3, SumProRata, UsersAssumption DEF Sum
    <2>3. QED
      BY <2>1, <2>2
  <1>7. /\ remainingMarketFeeClaims = Sum(WaitingForFees)
        /\ Sum(BonusesDue) <= forfeitedBonusPoolRemaining
        /\ marketFeeUserPoolRemaining
             = historicalFeePoolRemaining + forfeitedBonusPoolRemaining
    <2>1. marketFeeUserPoolRemaining \in Nat
      BY DEF Kept, IInv, TypeOK, SettlementOK
    <2>2. QED
      BY <1>1, <1>3, <1>6, <2>1 DEF JustSettled
  <1>8. QED
    BY <1>5, <1>7 DEF FeesKept

\* In a form that holds of the next state as well.
LEMMA SettledClaims == Kept /\ JustSettled => ClaimsKept
  BY SettledPrincipal, SettledFees DEF ClaimsKept, JustSettled

LEMMA SettledClaimsNext == Kept' /\ JustSettled' => ClaimsKept'
  BY SettledClaims, PTL

\* Every way to settle leaves the vault so.
LEMMA SnapshotSettles ==
    ASSUME claimed = {}, marketFeeClaimed = {}, NEW o \in Book, NEW owed \in Nat,
           SnapshotSettlement(o, owed), UNCHANGED <<ledgerVars, claimVars>>
    PROVE  JustSettled'
  <1>1. /\ UNCHANGED <<participants, totalPrincipal, totalParticipants, distributedFees,
                       forfeitedFees, claimed, marketFeeClaimed>>
    BY DEF ledgerVars, voteVars, feeVars, forfeitVars, claimVars
  <1>2. Claims' = IF o = "INVALID" THEN participants["YES"] + participants["NO"]
                  ELSE participants[o]
    BY <1>1 DEF Claims, SnapshotSettlement
  <1>3. QED
    BY <1>1, <1>2 DEF JustSettled, SnapshotSettlement

LEMMA FinalizeSettles ==
    ASSUME claimed = {}, marketFeeClaimed = {}, NEW owed \in Nat,
           FinalizeNow(owed), UNCHANGED <<ledgerVars, claimVars>>
    PROVE  JustSettled'
  <1>1. PICK o \in Book : SnapshotSettlement(o, owed)
    BY DEF FinalizeNow, DerivedOutcome, Book, Side
  <1>2. QED
    BY <1>1, SnapshotSettles

LEMMA SettlesFresh ==
    ASSUME IInv, claimed = {}, marketFeeClaimed = {}, ~resolved,
           ProcessEarlyTermination \/ Finalize \/ CancelUnlaunched
    PROVE  /\ UNCHANGED claimVars
           /\ JustSettled' \/ ~resolved'
  <1>1. /\ UNCHANGED <<ledgerVars, claimVars>> /\ totalEarlyBondRefunds \in Nat
        /\ pending.bond \in Nat
    BY DEF ProcessEarlyTermination, Finalize, CancelUnlaunched, IInv, TypeOK,
           RequestsOK, Request
  <1>2. CASE ProcessEarlyRequest
    <2>1. \/ FinalizeNow(totalEarlyBondRefunds + pending.bond)
          \/ FinalizeNow(totalEarlyBondRefunds)
          \/ UNCHANGED resultVars
      BY <1>2 DEF ProcessEarlyRequest
    <2>2. totalEarlyBondRefunds + pending.bond \in Nat
      BY <1>1
    <2>3. QED
      BY <1>1, <2>1, <2>2, FinalizeSettles DEF resultVars
  <1>3. CASE FinalizeNow(totalEarlyBondRefunds)
    BY <1>1, <1>3, FinalizeSettles
  <1>4. CASE CancelUnlaunched
    <2>1. "INVALID" \in Book /\ SnapshotSettlement("INVALID", totalEarlyBondRefunds)
      BY <1>4 DEF CancelUnlaunched, Book, Side
    <2>2. QED
      BY <1>1, <2>1, SnapshotSettles
  <1>5. QED
    BY <1>1, <1>2, <1>3, <1>4 DEF ProcessEarlyTermination, Finalize
------------------------------------------------------------------------------
(* The claims, one after the other.                                        *)

\* The whole tokens of a ledger do not depend on when it is brought up to date.
LEMMA WholeTokens ==
    ASSUME VotesOK, FeesOK, IndexBehind, NEW u \in Users, NEW b \in Book
    PROVE  EarnedFees(u)[b] = Booked(u, b) \div Precision
  <1>1. /\ Growth(u, b) \in Nat /\ pendingFees[u][b] \in Nat
        /\ Precision \in Nat \ {0}
    BY GrowthType, PrecisionAssumption
  <1>2. \A p, g \in Nat, d \in Nat \ {0} : (p * d + g) \div d = p + g \div d
    OBVIOUS
  <1>3. QED
    BY <1>1, <1>2 DEF EarnedFees, Booked

LEMMA WholeTokensAlways ==
    VotesOK /\ FeesOK /\ IndexBehind =>
      \A u \in Users, b \in Book : EarnedFees(u)[b] = Booked(u, b) \div Precision
  BY WholeTokens

LEMMA WholeTokensNext ==
    VotesOK' /\ FeesOK' /\ IndexBehind' =>
      \A u \in Users, b \in Book : EarnedFees(u)'[b] = Booked(u, b)' \div Precision
  <1>1. (VotesOK /\ FeesOK /\ IndexBehind =>
           \A u \in Users, b \in Book : EarnedFees(u)[b] = Booked(u, b) \div Precision)'
    BY WholeTokensAlways, PTL
  <1>2. QED
    BY <1>1

\* What a step of a settled vault leaves as it is, the ledgers of fees brought
\* up to date or not.
Steady ==
    /\ UNCHANGED <<resultVars, voteVars, settlementPool, forfeitedBonusPool>>
    /\ \A u \in Users, b \in Book : EarnedFees(u)'[b] = EarnedFees(u)[b]

LEMMA SteadyStep ==
    ASSUME IInv, IInv', resolved, Next
    PROVE  Steady
  <1>1. /\ VotesOK /\ FeesOK /\ IndexBehind /\ VotesOK' /\ FeesOK' /\ IndexBehind'
    BY DEF IInv, TypeOK
  <1>2. UNCHANGED <<resultVars, voteVars, feeVars, settlementPool, forfeitedBonusPool>>
    BY SettledStep
  <1>3. \A u \in Users, b \in Book : Booked(u, b)' = Booked(u, b)
    <2>1. stakeOf' = stakeOf /\ UNCHANGED feeVars
      BY <1>2 DEF voteVars
    <2>2. CASE UNCHANGED historyVars
      BY <2>1, <2>2 DEF historyVars, feeVars, Booked, Growth, EarningStake
    <2>3. ASSUME NEW w \in Users, Checkpoint(w)
          PROVE  \A u \in Users, b \in Book : Booked(u, b)' = Booked(u, b)
      BY <1>1, <2>1, <2>3, CheckpointBooks
    <2>4. \/ UNCHANGED historyVars
          \/ \E w \in Users : Checkpoint(w)
      BY LedgerSteps DEF ledgerVars, Stake, ExitStake, StakingOpen, DepositMarketFee,
         Withdraw, ClaimMarketFeesFor
    <2>5. QED
      BY <2>2, <2>3, <2>4
  <1>4. \A u \in Users, b \in Book : EarnedFees(u)'[b] = EarnedFees(u)[b]
    BY <1>1, <1>3, WholeTokens, WholeTokensNext
  <1>5. QED
    BY <1>2, <1>4 DEF Steady

\* Then everybody's claims are what they were, but for having made them.
LEMMA SteadyClaims ==
    ASSUME Steady, outcome \in Book, NEW u \in Users
    PROVE  /\ Principal(u)' = Principal(u) /\ Share(u)' = Share(u)
           /\ (PrincipalEligible(u)' <=> PrincipalEligible(u))
           /\ (FeeEligible(u)' <=> FeeEligible(u))
           /\ EarnedFees(u)'[outcome'] = EarnedFees(u)[outcome]
           /\ FeeBonus(u)' = FeeBonus(u)
  BY DEF Steady, resultVars, voteVars, Principal, Share, PoolDenominator,
         PrincipalEligible, FeeEligible, SideOf, FeeBonus, BookStake

LEMMA PrincipalUntouched ==
    ASSUME Kept, resolved, PrincipalKept, Steady, claimed' = claimed,
           remainingEligibleClaims' = remainingEligibleClaims,
           remainingSettlementPool' \in Nat,
           remainingSettlementPool' = remainingSettlementPool \/ totalPrincipal = 0
    PROVE  PrincipalKept'
  <1>1. outcome \in Book
    BY PoolIsShared
  <1>2. \A v \in Users : /\ Waits(v)' <=> Waits(v)
                         /\ Share(v)' = Share(v)
    BY <1>1, SteadyClaims DEF Waits
  <1>3. Waiting' = Waiting /\ SharesDue' = SharesDue
    BY <1>2 DEF Waiting, SharesDue
  <1>4. totalPrincipal = 0 => Sum(SharesDue) = 0
    <2> SUFFICES ASSUME totalPrincipal = 0 PROVE Sum(SharesDue) = 0
      OBVIOUS
    <2>1. VotesOK /\ VotesCounted
      BY DEF Kept, IInv, TypeOK
    <2>2. \A v \in Users : ~ Waits(v)
      BY <2>1, PrincipalInTotals, PrincipalType DEF Waits
    <2>3. \A v \in Users : SharesDue[v] = 0
      BY <2>2 DEF SharesDue
    <2>4. QED
      BY <2>3, UserZeros
  <1>5. QED
    BY <1>3, <1>4 DEF PrincipalKept

\* A withdrawal takes its share of the pool, the last one everything.
LEMMA WithdrawalKeeps ==
    ASSUME Kept, resolved, PrincipalKept, Steady, NEW u \in Users, Withdraw(u)
    PROVE  /\ PrincipalKept'
           /\ PrincipalEligible(u) =>
                /\ Share(u) <= PrincipalPayout(u)
                /\ PrincipalPayout(u) <= remainingSettlementPool
                /\ PrincipalPayout(u) \in Nat
                /\ remainingEligibleClaims' = 0 => remainingSettlementPool' = 0
  <1> DEFINE n == Sum(Waiting)
             m == Sum(Waiting)'
             x == Sum(SharesDue)
             y == Sum(SharesDue)'
             r == remainingSettlementPool
             a == PrincipalPayout(u)
  <1>1. /\ outcome \in Book /\ r \in Nat /\ remainingEligibleClaims = n /\ x <= r
        /\ claimed' = claimed \cup {u} /\ u \notin claimed /\ Principal(u) > 0
        /\ PrincipalCovered(u)
        /\ remainingSettlementPool' = r - a
        /\ remainingEligibleClaims' =
              remainingEligibleClaims - (IF PrincipalEligible(u) THEN 1 ELSE 0)
    BY PoolIsShared DEF Withdraw, PrincipalKept, Kept, IInv, TypeOK, SettlementOK
  <1>2. /\ \A v \in Users \ {u} : Waits(v)' <=> Waits(v)
        /\ ~ Waits(u)' /\ (Waits(u) <=> PrincipalEligible(u))
        /\ \A v \in Users : Share(v)' = Share(v)
    BY <1>1, SteadyClaims DEF Waits
  <1>3. \A v \in Users : Waiting[v] \in Nat /\ SharesDue[v] \in Nat
    BY DueTypes
  <1>4. /\ \A v \in Users : Waiting'[v] \in Nat /\ SharesDue'[v] \in Nat
        /\ \A v \in Users \ {u} : Waiting[v] = Waiting'[v] /\ SharesDue[v] = SharesDue'[v]
        /\ Waiting'[u] = 0 /\ SharesDue'[u] = 0
        /\ \A v \in Users : Waiting'[v] = 0 => SharesDue'[v] = 0
    BY <1>2, <1>3 DEF Waiting, SharesDue
  <1>5. /\ m + Waiting[u] = n + 0 /\ y + SharesDue[u] = x + 0
        /\ n \in Nat /\ m \in Nat /\ x \in Nat /\ y \in Nat
    <2>1. /\ Sum(Waiting') + Waiting[u] = Sum(Waiting) + Waiting'[u]
          /\ Sum(Waiting) \in Nat /\ Sum(Waiting') \in Nat
      BY <1>3, <1>4, UserSumUpdate
    <2>2. /\ Sum(SharesDue') + SharesDue[u] = Sum(SharesDue) + SharesDue'[u]
          /\ Sum(SharesDue) \in Nat /\ Sum(SharesDue') \in Nat
      BY <1>3, <1>4, UserSumUpdate
    <2>3. QED
      BY <1>4, <2>1, <2>2
  <1>6. m = 0 => y = 0
    <2> SUFFICES ASSUME m = 0 PROVE y = 0
      OBVIOUS
    <2>1. \A v \in Users : Waiting'[v] <= Sum(Waiting')
      BY <1>4, UserTerm
    <2>2. \A v \in Users : SharesDue'[v] = 0
      BY <1>4, <2>1
    <2>3. Sum(SharesDue') = 0
      BY <2>2, UserZeros
    <2>4. QED
      BY <2>3
  <1>7. CASE ~ PrincipalEligible(u)
    <2>1. Waiting[u] = 0 /\ SharesDue[u] = 0
      BY <1>2, <1>7 DEF Waiting, SharesDue
    <2>2. a = 0
      BY <1>7 DEF PrincipalPayout
    <2> HIDE DEF n, m, x, y, a, r
    <2>3. m = n /\ y = x
      BY <1>5, <2>1
    <2>4. remainingSettlementPool' = r /\ remainingEligibleClaims' = n
      BY <1>1, <1>5, <1>7, <2>2
    <2>5. m = remainingEligibleClaims' /\ y <= remainingSettlementPool'
      BY <1>1, <2>3, <2>4
    <2>6. QED
      BY <1>7, <2>5 DEF PrincipalKept, m, y
  <1>8. CASE PrincipalEligible(u)
    <2>1. Waiting[u] = 1 /\ SharesDue[u] = Share(u)
      BY <1>2, <1>8 DEF Waiting, SharesDue
    <2>2. a = IF remainingEligibleClaims = 1 THEN r ELSE Share(u)
      BY <1>8 DEF PrincipalPayout, Share
    <2>3. Share(u) \in Nat
      BY <1>3, <2>1
    <2> HIDE DEF n, m, x, y, a, r
    <2>4. m = n - 1 /\ y = x - Share(u) /\ Share(u) <= x
      BY <1>5, <2>1, <2>3
    <2>5. remainingEligibleClaims' = n - 1
      BY <1>1, <1>8
    <2>6. CASE n = 1
      <3>1. m = 0 /\ y = 0 /\ a = r /\ remainingSettlementPool' = 0
        BY <1>1, <1>6, <2>2, <2>4, <2>6
      <3>2. m = remainingEligibleClaims' /\ y <= remainingSettlementPool'
        BY <2>4, <2>5, <3>1
      <3>3. Share(u) <= a /\ a <= r /\ a \in Nat
        BY <1>1, <1>5, <2>3, <2>4, <3>1
      <3>4. QED
        BY <3>1, <3>2, <3>3 DEF PrincipalKept, m, y, a, r
    <2>7. CASE n # 1
      <3>1. a = Share(u) /\ remainingSettlementPool' = r - Share(u)
        BY <1>1, <2>2, <2>7
      <3>2. y <= remainingSettlementPool' /\ Share(u) <= a /\ a <= r /\ a \in Nat
        BY <1>1, <1>5, <2>3, <2>4, <3>1
      <3>3. m = remainingEligibleClaims' /\ remainingEligibleClaims' # 0
        BY <1>5, <2>4, <2>5, <2>7
      <3>4. QED
        BY <3>2, <3>3 DEF PrincipalKept, m, y, a, r
    <2>8. QED
      BY <2>6, <2>7
  <1>9. QED
    BY <1>7, <1>8

LEMMA FeesUntouched ==
    ASSUME Kept, resolved, FeesKept, Steady, marketFeeClaimed' = marketFeeClaimed,
           UNCHANGED <<remainingMarketFeeClaims, historicalFeePoolRemaining,
                       forfeitedBonusPoolRemaining, marketFeeUserPoolRemaining>>
    PROVE  FeesKept'
  <1>1. outcome \in Book
    BY PoolIsShared
  <1>2. \A v \in Users : WaitsForFees(v)' <=> WaitsForFees(v)
    BY <1>1, SteadyClaims DEF WaitsForFees, FeesDue
  <1>3. /\ WaitingForFees' = WaitingForFees /\ EarningsDue' = EarningsDue
        /\ BonusesDue' = BonusesDue
    BY <1>1, <1>2, SteadyClaims DEF WaitingForFees, EarningsDue, BonusesDue
  <1>4. QED
    BY <1>3 DEF FeesKept

\* A fee claim takes the claimant's earnings and bonus, the last one everything.
LEMMA FeeClaimKeeps ==
    ASSUME Kept, resolved, FeesKept, Steady, NEW u \in Users, Principal(u) > 0,
           ClaimSelectedMarketFees(u)
    PROVE  /\ FeesKept'
           /\ FeesDue(u) =>
                /\ EarnedFees(u)[outcome] + FeeBonus(u) <= FeePayout(u)
                /\ FeePayout(u) <= marketFeeUserPoolRemaining
                /\ FeePayout(u) \in Nat
                /\ remainingMarketFeeClaims' = 0 => marketFeeUserPoolRemaining' = 0
  <1> DEFINE n == Sum(WaitingForFees)
             m == Sum(WaitingForFees)'
             x == Sum(EarningsDue)
             y == Sum(EarningsDue)'
             z == Sum(BonusesDue)
             w == Sum(BonusesDue)'
             e == EarnedFees(u)[outcome]
             b == FeeBonus(u)
             a == FeePayout(u)
             h == historicalFeePoolRemaining
             f == forfeitedBonusPoolRemaining
             p == marketFeeUserPoolRemaining
  <1>1. /\ outcome \in Book /\ h \in Nat /\ f \in Nat /\ p \in Nat
        /\ remainingMarketFeeClaims = n /\ x <= h /\ z <= f /\ p = h + f
    BY PoolIsShared DEF FeesKept, Kept, IInv, TypeOK, SettlementOK
  <1>2. /\ marketFeeClaimed' = marketFeeClaimed \cup {u}
        /\ marketFeeUserPoolRemaining' = p - a
    BY DEF ClaimSelectedMarketFees
  <1>3. /\ \A v \in Users \ {u} : WaitsForFees(v)' <=> WaitsForFees(v)
        /\ ~ WaitsForFees(u)' /\ (WaitsForFees(u) <=> FeesDue(u))
    BY <1>1, <1>2, SteadyClaims DEF WaitsForFees, FeesDue
  <1>4. \A v \in Users : /\ WaitingForFees[v] \in Nat /\ EarningsDue[v] \in Nat
                         /\ BonusesDue[v] \in Nat
                         /\ EarnedFees(v)'[outcome'] = EarnedFees(v)[outcome]
                         /\ FeeBonus(v)' = FeeBonus(v)
    BY <1>1, DueTypes, SteadyClaims
  <1>5. /\ \A v \in Users : /\ WaitingForFees'[v] \in Nat /\ EarningsDue'[v] \in Nat
                            /\ BonusesDue'[v] \in Nat
        /\ \A v \in Users \ {u} : /\ WaitingForFees[v] = WaitingForFees'[v]
                                  /\ EarningsDue[v] = EarningsDue'[v]
                                  /\ BonusesDue[v] = BonusesDue'[v]
        /\ WaitingForFees'[u] = 0 /\ EarningsDue'[u] = 0 /\ BonusesDue'[u] = 0
        /\ \A v \in Users : WaitingForFees'[v] = 0 => EarningsDue'[v] = 0 /\ BonusesDue'[v] = 0
    BY <1>3, <1>4 DEF WaitingForFees, EarningsDue, BonusesDue
  <1>6. /\ m + WaitingForFees[u] = n + 0 /\ y + EarningsDue[u] = x + 0
        /\ w + BonusesDue[u] = z + 0
        /\ n \in Nat /\ m \in Nat /\ x \in Nat /\ y \in Nat /\ z \in Nat /\ w \in Nat
    <2>1. /\ Sum(WaitingForFees') + WaitingForFees[u]
               = Sum(WaitingForFees) + WaitingForFees'[u]
          /\ Sum(WaitingForFees) \in Nat /\ Sum(WaitingForFees') \in Nat
      BY ZenonT(60), <1>4, <1>5, UserSumUpdate
    <2>2. /\ Sum(EarningsDue') + EarningsDue[u] = Sum(EarningsDue) + EarningsDue'[u]
          /\ Sum(EarningsDue) \in Nat /\ Sum(EarningsDue') \in Nat
      BY <1>4, <1>5, UserSumUpdate
    <2>3. /\ Sum(BonusesDue') + BonusesDue[u] = Sum(BonusesDue) + BonusesDue'[u]
          /\ Sum(BonusesDue) \in Nat /\ Sum(BonusesDue') \in Nat
      BY <1>4, <1>5, UserSumUpdate
    <2>4. QED
      BY <1>5, <2>1, <2>2, <2>3
  <1>7. m = 0 => y = 0 /\ w = 0
    <2> SUFFICES ASSUME m = 0 PROVE y = 0 /\ w = 0
      OBVIOUS
    <2>1. \A v \in Users : WaitingForFees'[v] <= Sum(WaitingForFees')
      BY <1>5, UserTerm
    <2>2. \A v \in Users : EarningsDue'[v] = 0 /\ BonusesDue'[v] = 0
      BY <1>5, <2>1
    <2>3. Sum(EarningsDue') = 0 /\ Sum(BonusesDue') = 0
      BY <2>2, UserZeros
    <2>4. QED
      BY <2>3
  <1>8. CASE ~ FeesDue(u)
    <2>1. WaitingForFees[u] = 0 /\ EarningsDue[u] = 0 /\ BonusesDue[u] = 0
      BY <1>3, <1>8 DEF WaitingForFees, EarningsDue, BonusesDue
    <2>2. /\ a = 0 /\ remainingMarketFeeClaims' = remainingMarketFeeClaims
          /\ historicalFeePoolRemaining' = h /\ forfeitedBonusPoolRemaining' = f
      BY <1>8 DEF FeePayout, ClaimSelectedMarketFees
    <2> HIDE DEF n, m, x, y, z, w, e, b, a, h, f, p
    <2>3. m = n /\ y = x /\ w = z /\ marketFeeUserPoolRemaining' = p
      BY <1>1, <1>2, <1>6, <2>1, <2>2
    <2>4. /\ remainingMarketFeeClaims' = m /\ y <= historicalFeePoolRemaining'
          /\ w <= forfeitedBonusPoolRemaining'
          /\ marketFeeUserPoolRemaining'
               = historicalFeePoolRemaining' + forfeitedBonusPoolRemaining'
      BY <1>1, <2>2, <2>3
    <2>5. QED
      BY <1>8, <2>4 DEF FeesKept, m, y, w
  <1>9. CASE FeesDue(u)
    <2>1. WaitingForFees[u] = 1 /\ EarningsDue[u] = e /\ BonusesDue[u] = b
      BY <1>3, <1>9 DEF WaitingForFees, EarningsDue, BonusesDue
    <2>2. e \in Nat /\ b \in Nat
      BY <1>4, <2>1
    <2>3. /\ a = IF remainingMarketFeeClaims = 1 THEN p ELSE e + b
          /\ remainingMarketFeeClaims' = remainingMarketFeeClaims - 1
          /\ IF remainingMarketFeeClaims = 1
               THEN historicalFeePoolRemaining' = 0 /\ forfeitedBonusPoolRemaining' = 0
               ELSE /\ historicalFeePoolRemaining' = h - e
                    /\ forfeitedBonusPoolRemaining' = f - b
      BY <1>9 DEF FeePayout, ClaimSelectedMarketFees
    <2> HIDE DEF n, m, x, y, z, w, e, b, a, h, f, p
    <2>4. /\ m = n - 1 /\ y = x - e /\ w = z - b /\ e <= x /\ b <= z
      BY <1>6, <2>1, <2>2
    <2>5. CASE n = 1
      <3>1. /\ m = 0 /\ y = 0 /\ w = 0 /\ a = p
            /\ marketFeeUserPoolRemaining' = 0 /\ remainingMarketFeeClaims' = 0
            /\ historicalFeePoolRemaining' = 0 /\ forfeitedBonusPoolRemaining' = 0
        BY <1>1, <1>2, <1>7, <2>3, <2>4, <2>5
      <3>2. e + b <= a /\ a <= p /\ a \in Nat
        <4>1. e <= h /\ b <= f
          BY <1>1, <1>6, <2>2, <2>4
        <4>2. e + b <= h + f
          BY <1>1, <2>2, <4>1
        <4>3. QED
          BY <1>1, <3>1, <4>2
      <3>3. /\ remainingMarketFeeClaims' = m /\ y <= historicalFeePoolRemaining'
            /\ w <= forfeitedBonusPoolRemaining'
            /\ marketFeeUserPoolRemaining'
                 = historicalFeePoolRemaining' + forfeitedBonusPoolRemaining'
        BY <3>1
      <3>4. QED
        BY <3>1, <3>2, <3>3 DEF FeesKept, m, y, w, e, b, a, p
    <2>6. CASE n # 1
      <3>1. /\ a = e + b /\ remainingMarketFeeClaims' = n - 1
            /\ marketFeeUserPoolRemaining' = p - (e + b)
            /\ historicalFeePoolRemaining' = h - e /\ forfeitedBonusPoolRemaining' = f - b
        BY <1>1, <1>2, <2>3, <2>6
      <3>2. e + b <= a /\ a <= p /\ a \in Nat
        BY <1>1, <1>6, <2>2, <2>4, <3>1
      <3>3. /\ remainingMarketFeeClaims' = m /\ y <= historicalFeePoolRemaining'
            /\ w <= forfeitedBonusPoolRemaining'
        BY <1>1, <1>6, <2>2, <2>4, <3>1
      <3>4. marketFeeUserPoolRemaining'
                 = historicalFeePoolRemaining' + forfeitedBonusPoolRemaining'
        <4>1. p - (e + b) = (h - e) + (f - b)
          BY <1>1, <2>2
        <4>2. QED
          BY <3>1, <4>1
      <3>5. remainingMarketFeeClaims' # 0
        BY <1>6, <2>6, <3>1
      <3>6. QED
        BY <3>2, <3>3, <3>4, <3>5 DEF FeesKept, m, y, w, e, b, a, p
    <2>7. QED
      BY <2>5, <2>6
  <1>10. QED
    BY <1>8, <1>9

\* What a step does to a settled vault, as far as its claims are concerned.
LEMMA SettledSteps ==
    ASSUME IInv, IInv', resolved, Next
    PROVE  \/ \E u \in Users : Withdraw(u)
           \/ \E u \in Users : ClaimMarketFeesFor(u)
           \/ /\ claimed' = claimed /\ marketFeeClaimed' = marketFeeClaimed
              /\ remainingEligibleClaims' = remainingEligibleClaims
              /\ remainingSettlementPool' = remainingSettlementPool \/ totalPrincipal = 0
              /\ UNCHANGED <<remainingMarketFeeClaims, historicalFeePoolRemaining,
                             forfeitedBonusPoolRemaining, marketFeeUserPoolRemaining>>
  <1> DEFINE Idle ==
        /\ claimed' = claimed /\ marketFeeClaimed' = marketFeeClaimed
        /\ remainingEligibleClaims' = remainingEligibleClaims
        /\ remainingSettlementPool' = remainingSettlementPool \/ totalPrincipal = 0
        /\ UNCHANGED <<remainingMarketFeeClaims, historicalFeePoolRemaining,
                       forfeitedBonusPoolRemaining, marketFeeUserPoolRemaining>>
  <1>1. CASE \/ BindMarket \/ SetMarketCoordinator \/ MarketGraduates \/ Tick
             \/ \E m \in ExtraMarkets : AuthorizeAdditionalMarket(m)
             \/ \E a \in GiftAmounts : Gift(a)
    BY <1>1 DEF BindMarket, SetMarketCoordinator, MarketGraduates, Tick, Gift,
       AuthorizeAdditionalMarket, settlementVars, poolVars, rewardVars, claimVars
  <1>2. CASE \/ \E u \in Users, s \in Side, a \in StakeAmounts : Stake(u, s, a)
             \/ \E u \in Users : ExitStake(u)
             \/ \E m \in ExtraMarkets \cup {Market}, a \in FeeAmounts : DepositMarketFee(m, a)
             \/ \E u \in Users, s \in Side : ProposeEarlyTermination(u, s)
             \/ ProcessEarlyTermination \/ Finalize \/ CancelUnlaunched
    BY <1>2 DEF Stake, ExitStake, DepositMarketFee, ProposeEarlyTermination,
       ProcessEarlyTermination, Finalize, CancelUnlaunched, StakingOpen
  <1>3. CASE \E u \in Users : ClaimEarlyTerminationBond(u)
    BY <1>3 DEF ClaimEarlyTerminationBond, settlementVars, poolVars, rewardVars, claimVars
  <1>4. CASE ClaimEmptySettlement \/ ClaimOfficialMarketFees \/ ClaimSurplus
    BY <1>4 DEF ClaimEmptySettlement, ClaimOfficialMarketFees, ClaimSurplus,
       settlementVars, poolVars, rewardVars, claimVars
  <1>5. ASSUME NEW f \in BOOLEAN, NEW e \in BOOLEAN, FlushOfficialPayments(f, e)
        PROVE  Idle
    <2>1. remainingSettlementPool' = remainingSettlementPool
             - (IF e /\ totalPrincipal = 0 THEN remainingSettlementPool ELSE 0)
      BY <1>5 DEF FlushOfficialPayments
    <2>2. remainingSettlementPool \in Nat
      BY DEF IInv, TypeOK, SettlementOK
    <2>3. QED
      BY <1>5, <2>1, <2>2 DEF FlushOfficialPayments, claimVars
  <1>6. CASE \/ \E u \in Users : Withdraw(u)
             \/ \E u \in Users : ClaimMarketFeesFor(u)
    BY <1>6
  <1>7. QED
    BY <1>1, <1>2, <1>3, <1>4, <1>5, <1>6 DEF Next, Transaction

\* Before the settlement nobody claims.
LEMMA OpenSteps ==
    ASSUME IInv, ~resolved, claimed = {}, marketFeeClaimed = {}, Next
    PROVE  \/ JustSettled'
           \/ ~resolved' /\ claimed' = {} /\ marketFeeClaimed' = {}
  <1> DEFINE Open == ~resolved' /\ claimed' = {} /\ marketFeeClaimed' = {}
  <1>1. CASE \/ BindMarket \/ SetMarketCoordinator \/ MarketGraduates \/ Tick
             \/ \E m \in ExtraMarkets : AuthorizeAdditionalMarket(m)
             \/ \E a \in GiftAmounts : Gift(a)
    BY <1>1 DEF BindMarket, SetMarketCoordinator, MarketGraduates, Tick, Gift,
       AuthorizeAdditionalMarket, settlementVars, claimVars, resultVars
  <1>2. CASE \/ \E u \in Users, s \in Side, a \in StakeAmounts : Stake(u, s, a)
             \/ \E m \in ExtraMarkets \cup {Market}, a \in FeeAmounts : DepositMarketFee(m, a)
             \/ \E u \in Users, s \in Side : ProposeEarlyTermination(u, s)
             \/ \E u \in Users : ClaimEarlyTerminationBond(u)
    BY <1>2 DEF Stake, DepositMarketFee, ProposeEarlyTermination,
       ClaimEarlyTerminationBond, settlementVars, claimVars, resultVars
  <1>3. CASE \E u \in Users : ExitStake(u)
    BY <1>3 DEF ExitStake, resultVars
  <1>4. CASE ProcessEarlyTermination \/ Finalize \/ CancelUnlaunched
    BY <1>4, SettlesFresh DEF claimVars
  <1>5. CASE \/ \E u \in Users : Withdraw(u) \/ ClaimMarketFeesFor(u)
             \/ ClaimEmptySettlement \/ ClaimOfficialMarketFees \/ ClaimSurplus
             \/ \E f, e \in BOOLEAN : FlushOfficialPayments(f, e)
    BY <1>5 DEF Withdraw, ClaimMarketFeesFor, ClaimEmptySettlement,
       ClaimOfficialMarketFees, ClaimSurplus, FlushOfficialPayments
  <1>6. QED
    BY <1>1, <1>2, <1>3, <1>4, <1>5 DEF Next, Transaction

LEMMA ClaimsKeptStep ==
    ASSUME Kept, Kept', ClaimsKept, [Next]_vars
    PROVE  ClaimsKept'
  <1> IInv /\ IInv'
    BY DEF Kept
  <1>1. CASE UNCHANGED vars
    <2>1. UNCHANGED <<stakeOf, totalStake, totalPrincipal, outcome, resolved, claimed,
                      marketFeeClaimed, settlementPool, remainingSettlementPool,
                      remainingEligibleClaims, remainingMarketFeeClaims,
                      historicalFeePoolRemaining, forfeitedBonusPoolRemaining,
                      marketFeeUserPoolRemaining, forfeitedBonusPool, pendingFees,
                      feeIndex, feeRemainder, accFeePerStake>>
      BY <1>1 DEF vars, ledgerVars, voteVars, historyVars, feeVars, resultVars,
         settlementVars, poolVars, rewardVars, claimVars
    <2>2. CASE resolved
      <3>1. Steady
        BY <1>1, <2>1 DEF Steady, EarnedFees, Growth, EarningStake, vars, resultVars,
           ledgerVars, voteVars
      <3>2. remainingSettlementPool' \in Nat
        BY <2>1 DEF IInv, TypeOK, SettlementOK
      <3>3. PrincipalKept' /\ FeesKept'
        BY <2>1, <2>2, <3>1, <3>2, PrincipalUntouched, FeesUntouched DEF ClaimsKept
      <3>4. QED
        BY <2>1, <2>2, <3>3 DEF ClaimsKept
    <2>3. CASE ~resolved
      BY <2>1, <2>3 DEF ClaimsKept
    <2>4. QED
      BY <2>2, <2>3
  <1>2. CASE Next /\ resolved
    <2>1. Steady /\ PrincipalKept /\ FeesKept /\ resolved'
      BY <1>2, SteadyStep DEF ClaimsKept, Steady, resultVars
    <2>2. remainingSettlementPool' \in Nat
      BY DEF IInv, TypeOK, SettlementOK
    <2>3. ASSUME NEW u \in Users, Withdraw(u)
          PROVE  PrincipalKept' /\ FeesKept'
      BY <1>2, <2>1, <2>3, WithdrawalKeeps, FeeClaimKeeps DEF Withdraw
    <2>4. ASSUME NEW u \in Users, ClaimMarketFeesFor(u)
          PROVE  PrincipalKept' /\ FeesKept'
      BY <1>2, <2>1, <2>2, <2>4, PrincipalUntouched, FeeClaimKeeps
         DEF ClaimMarketFeesFor, poolVars
    <2>5. ASSUME claimed' = claimed, marketFeeClaimed' = marketFeeClaimed,
                 remainingEligibleClaims' = remainingEligibleClaims,
                 remainingSettlementPool' = remainingSettlementPool \/ totalPrincipal = 0,
                 UNCHANGED <<remainingMarketFeeClaims, historicalFeePoolRemaining,
                             forfeitedBonusPoolRemaining, marketFeeUserPoolRemaining>>
          PROVE  PrincipalKept' /\ FeesKept'
      BY <1>2, <2>1, <2>2, <2>5, PrincipalUntouched, FeesUntouched
    <2>6. PrincipalKept' /\ FeesKept'
      BY <1>2, <2>3, <2>4, <2>5, SettledSteps
    <2>7. QED
      BY <2>1, <2>6 DEF ClaimsKept
  <1>3. CASE Next /\ ~resolved
    <2>1. claimed = {} /\ marketFeeClaimed = {}
      BY <1>3 DEF ClaimsKept
    <2>2. CASE JustSettled'
      BY <2>2, SettledClaimsNext
    <2>3. CASE ~resolved' /\ claimed' = {} /\ marketFeeClaimed' = {}
      BY <2>3 DEF ClaimsKept
    <2>4. QED
      BY <1>3, <2>1, <2>2, <2>3, OpenSteps
  <1>4. QED
    BY <1>1, <1>2, <1>3

LEMMA ClaimsInvariance == Spec => [](Kept /\ ClaimsKept)
  <1>1. Init => Kept /\ ClaimsKept
    <2>1. Init => claimed = {} /\ marketFeeClaimed = {} /\ ~resolved
      BY DEF Init, EmptyVault
    <2>2. QED
      BY <2>1, InitInvariant, VotesCountedInit, FeesBackedInit DEF Kept, ClaimsKept
  <1>2. Kept /\ ClaimsKept /\ [Next]_vars => (Kept /\ ClaimsKept)'
    <2> SUFFICES ASSUME Kept, ClaimsKept, [Next]_vars PROVE (Kept /\ ClaimsKept)'
      OBVIOUS
    <2>1. Kept'
      BY StepInvariant, VotesCountedStep, FeesBackedStep DEF Kept
    <2>2. ClaimsKept'
      BY <2>1, ClaimsKeptStep
    <2>3. QED
      BY <2>1, <2>2
  <1>3. QED
    BY <1>1, <1>2, PTL DEF Spec
------------------------------------------------------------------------------
\* Every require of a withdrawal and of a fee claim holds for every staker who
\* has not claimed yet, whatever the others claimed before and in whatever
\* order: "Reward exceeds pool" and its kin never revert a claim that is due.
THEOREM ClaimsAreServed == Spec => []NoClaimRefused
  <1>1. Kept /\ ClaimsKept => NoClaimRefused
    <2> SUFFICES ASSUME Kept, ClaimsKept, resolved, NEW u \in Users, Principal(u) > 0
                 PROVE  /\ FeesCovered(u)
                        /\ u \notin claimed =>
                             /\ PrincipalCovered(u)
                             /\ PrincipalPayout(u) + FeePayout(u) <= balance
      BY DEF NoClaimRefused
    <2>1. /\ SettlementOK /\ balance \in Nat /\ totalEarlyBondRefunds \in Nat
          /\ PrincipalKept /\ FeesKept /\ VaultSolvent
      BY DEF Kept, IInv, TypeOK, RequestsOK, ClaimsKept
    <2>2. /\ \A v \in Users : /\ Waiting[v] \in Nat /\ SharesDue[v] \in Nat
                              /\ WaitingForFees[v] \in Nat /\ EarningsDue[v] \in Nat
                              /\ BonusesDue[v] \in Nat
          /\ EarnedFees(u)[outcome] \in Nat /\ FeeBonus(u) \in Nat
      BY DueTypes
    <2>3. /\ Waiting[u] <= Sum(Waiting) /\ SharesDue[u] <= Sum(SharesDue)
          /\ WaitingForFees[u] <= Sum(WaitingForFees)
          /\ EarningsDue[u] <= Sum(EarningsDue) /\ BonusesDue[u] <= Sum(BonusesDue)
          /\ Sum(SharesDue) \in Nat /\ Sum(EarningsDue) \in Nat /\ Sum(BonusesDue) \in Nat
      BY <2>2, UserTerm, UserSumType
    <2>4. FeesCovered(u) /\ FeePayout(u) <= marketFeeUserPoolRemaining /\ FeePayout(u) \in Nat
      <3>1. CASE ~ FeesDue(u)
        BY <2>1, <3>1 DEF FeesCovered, FeePayout, SettlementOK
      <3>2. CASE FeesDue(u)
        <4>1. /\ WaitingForFees[u] = 1 /\ EarningsDue[u] = EarnedFees(u)[outcome]
              /\ BonusesDue[u] = FeeBonus(u)
          BY <3>2 DEF WaitsForFees, WaitingForFees, EarningsDue, BonusesDue
        <4>2. remainingMarketFeeClaims >= 1
          BY <2>1, <2>3, <4>1 DEF FeesKept, SettlementOK
        <4>3. /\ EarnedFees(u)[outcome] <= historicalFeePoolRemaining
              /\ FeeBonus(u) <= forfeitedBonusPoolRemaining
          BY <2>1, <2>2, <2>3, <4>1 DEF FeesKept, SettlementOK
        <4>4. EarnedFees(u)[outcome] + FeeBonus(u) <= marketFeeUserPoolRemaining
          BY <2>1, <2>2, <4>3 DEF FeesKept, SettlementOK
        <4>5. FeePayout(u) <= marketFeeUserPoolRemaining /\ FeePayout(u) \in Nat
          BY <2>1, <2>2, <3>2, <4>4 DEF FeePayout, SettlementOK
        <4>6. QED
          BY <4>2, <4>3, <4>5 DEF FeesCovered
      <3>3. QED
        BY <3>1, <3>2
    <2>5. ASSUME u \notin claimed
          PROVE  /\ PrincipalCovered(u) /\ PrincipalPayout(u) <= remainingSettlementPool
                 /\ PrincipalPayout(u) \in Nat
      <3>1. CASE ~ PrincipalEligible(u)
        BY <2>1, <3>1 DEF PrincipalCovered, PrincipalPayout, SettlementOK
      <3>2. CASE PrincipalEligible(u)
        <4>1. Waiting[u] = 1 /\ SharesDue[u] = Share(u)
          BY <2>5, <3>2 DEF Waits, Waiting, SharesDue
        <4>2. remainingEligibleClaims >= 1
          BY <2>1, <2>3, <4>1 DEF PrincipalKept, SettlementOK
        <4>3. PoolDenominator > 0
          BY <3>2, PoolIsShared
        <4>4. Share(u) <= remainingSettlementPool /\ Share(u) \in Nat
          BY <2>1, <2>2, <2>3, <4>1 DEF PrincipalKept, SettlementOK
        <4>5. PrincipalPayout(u) \in {remainingSettlementPool, Share(u)}
          BY <3>2 DEF PrincipalPayout, Share
        <4>6. PrincipalPayout(u) <= remainingSettlementPool /\ PrincipalPayout(u) \in Nat
          BY <2>1, <4>4, <4>5 DEF SettlementOK
        <4>7. QED
          BY <4>2, <4>3, <4>6 DEF PrincipalCovered
      <3>3. QED
        BY <3>1, <3>2
    <2>6. ASSUME u \notin claimed PROVE PrincipalPayout(u) + FeePayout(u) <= balance
      <3>1. /\ remainingSettlementPool + marketFeeUserPoolRemaining
                 + officialMarketFeesClaimable + totalEarlyBondRefunds <= balance
            /\ remainingSettlementPool \in Nat /\ marketFeeUserPoolRemaining \in Nat
            /\ officialMarketFeesClaimable \in Nat
        BY <2>1 DEF VaultSolvent, Liabilities, SettlementOK
      <3>2. PrincipalPayout(u) + FeePayout(u)
               <= remainingSettlementPool + marketFeeUserPoolRemaining
        BY <2>4, <2>5, <2>6, <3>1
      <3>3. QED
        BY <2>1, <2>4, <2>5, <2>6, <3>1, <3>2
    <2>7. QED
      BY <2>4, <2>5, <2>6
  <1>2. QED
    BY <1>1, ClaimsInvariance, PTL

\* A withdrawal takes at least the pro rata part of the settlement pool, less
\* than one unit rounded off, whoever withdrew before; and the last of those
\* who share in the pool leaves nothing in it.
THEOREM SharesArePaid == Spec => WithdrawalsPayTheShare
  <1> DEFINE Paid ==
        \A u \in claimed' \ claimed : PrincipalEligible(u) =>
          /\ (remainingSettlementPool - remainingSettlementPool') * PoolDenominator
                > settlementPool * Principal(u) - PoolDenominator
          /\ remainingEligibleClaims' = 0 => remainingSettlementPool' = 0
  <1>1. Kept /\ ClaimsKept /\ Kept' /\ [Next]_vars => [Paid]_vars
    <2> SUFFICES ASSUME Kept, ClaimsKept, Kept', Next,
                        NEW u \in claimed' \ claimed, PrincipalEligible(u)
                 PROVE  /\ (remainingSettlementPool - remainingSettlementPool') * PoolDenominator
                             > settlementPool * Principal(u) - PoolDenominator
                        /\ remainingEligibleClaims' = 0 => remainingSettlementPool' = 0
      OBVIOUS
    <2>1. IInv /\ IInv'
      BY DEF Kept
    <2>2. resolved
      <3> SUFFICES ASSUME ~resolved PROVE FALSE
        OBVIOUS
      <3>1. claimed = {} /\ marketFeeClaimed = {}
        BY DEF ClaimsKept
      <3>2. JustSettled' \/ claimed' = {}
        BY <2>1, <3>1, OpenSteps
      <3>3. claimed' = {}
        BY <3>2 DEF JustSettled
      <3>4. QED
        BY <3>3
    <2>3. Steady /\ PrincipalKept
      BY <2>1, <2>2, SteadyStep DEF ClaimsKept
    <2>4. Withdraw(u) /\ u \in Users
      <3>1. /\ \A v \in Users : Withdraw(v) => claimed' = claimed \cup {v}
            /\ \A v \in Users : ClaimMarketFeesFor(v) => claimed' = claimed
        BY DEF Withdraw, ClaimMarketFeesFor
      <3>2. QED
        BY <2>1, <2>2, <3>1, SettledSteps
    <2> DEFINE a == PrincipalPayout(u)
    <2>5. /\ Share(u) <= a /\ a <= remainingSettlementPool /\ a \in Nat
          /\ remainingEligibleClaims' = 0 => remainingSettlementPool' = 0
      BY <2>2, <2>3, <2>4, WithdrawalKeeps
    <2>6. remainingSettlementPool' = remainingSettlementPool - a
      BY <2>4 DEF Withdraw
    <2>7. /\ Principal(u) > 0 /\ remainingSettlementPool \in Nat
          /\ PoolDenominator \in Nat \ {0} /\ Share(u) \in Nat
          /\ Share(u) * PoolDenominator > settlementPool * Principal(u) - PoolDenominator
          /\ settlementPool \in Nat /\ Principal(u) \in Nat
      BY <2>1, <2>2, <2>4, PoolIsShared, PrincipalType
         DEF Withdraw, IInv, TypeOK, SettlementOK
    <2> HIDE DEF a
    <2>8. remainingSettlementPool - remainingSettlementPool' = a
      BY <2>5, <2>6, <2>7
    <2>9. \A s, q, d \in Nat : s <= q => s * d <= q * d
      OBVIOUS
    <2>10. Share(u) * PoolDenominator <= a * PoolDenominator
      BY <2>5, <2>7, <2>9
    <2>11. /\ settlementPool * Principal(u) \in Nat /\ a * PoolDenominator \in Nat
           /\ Share(u) * PoolDenominator \in Nat
      BY <2>5, <2>7, Product
    <2>12. a * PoolDenominator > settlementPool * Principal(u) - PoolDenominator
      BY <2>7, <2>10, <2>11
    <2>13. QED
      BY <2>5, <2>8, <2>12
  <1>2. QED
    BY <1>1, ClaimsInvariance, PTL DEF Spec, WithdrawalsPayTheShare

\* A fee claim pays at least the whole tokens of what was observed to be
\* earned by the user's own stake, fee by fee, in the outcome's book, and his
\* part of what leavers forfeited; and the last one leaves nothing behind.
THEOREM EarningsArePaid == HSpec => FeeClaimsPayTheEarnings
  <1> DEFINE Paid ==
        \A u \in marketFeeClaimed' \ marketFeeClaimed : FeeEligible(u) =>
          /\ marketFeeUserPoolRemaining - marketFeeUserPoolRemaining'
               >= earned[u][outcome] \div Precision + FeeBonus(u)
          /\ remainingMarketFeeClaims' = 0 => marketFeeUserPoolRemaining' = 0
  <1>1. /\ Kept /\ ClaimsKept /\ Kept' /\ [HNext]_hvars
        /\ FeeHistoryIsExact
        => [Paid]_hvars
    <2> SUFFICES ASSUME Kept, ClaimsKept, Kept', HNext, FeeHistoryIsExact,
                        NEW u \in marketFeeClaimed' \ marketFeeClaimed, FeeEligible(u)
                 PROVE  /\ marketFeeUserPoolRemaining - marketFeeUserPoolRemaining'
                             >= earned[u][outcome] \div Precision + FeeBonus(u)
                        /\ remainingMarketFeeClaims' = 0 => marketFeeUserPoolRemaining' = 0
      OBVIOUS
    <2>1. IInv /\ IInv' /\ Next
      BY DEF Kept, HNext, ObserveGifts, Next
    <2>2. resolved
      <3> SUFFICES ASSUME ~resolved PROVE FALSE
        OBVIOUS
      <3>1. claimed = {} /\ marketFeeClaimed = {}
        BY DEF ClaimsKept
      <3>2. JustSettled' \/ marketFeeClaimed' = {}
        BY <2>1, <3>1, OpenSteps
      <3>3. marketFeeClaimed' = {}
        BY <3>2 DEF JustSettled
      <3>4. QED
        BY <3>3
    <2>3. Steady /\ FeesKept
      BY <2>1, <2>2, SteadyStep DEF ClaimsKept
    <2>4. u \in Users /\ ClaimSelectedMarketFees(u) /\ Principal(u) > 0
      <3>1. \A v \in Users : ClaimSelectedMarketFees(v) =>
                                marketFeeClaimed' = marketFeeClaimed \cup {v}
        BY DEF ClaimSelectedMarketFees
      <3>2. \E v \in Users : ClaimSelectedMarketFees(v) /\ Principal(v) > 0
        BY <2>1, <2>2, SettledSteps DEF Withdraw, ClaimMarketFeesFor
      <3>3. QED
        BY <3>1, <3>2
    <2>5. FeesDue(u)
      BY DEF FeesDue
    <2> DEFINE a == FeePayout(u)
               e == EarnedFees(u)[outcome]
               p == marketFeeUserPoolRemaining
    <2>6. /\ e + FeeBonus(u) <= a /\ a <= p /\ a \in Nat
          /\ remainingMarketFeeClaims' = 0 => marketFeeUserPoolRemaining' = 0
      BY <2>2, <2>3, <2>4, <2>5, FeeClaimKeeps
    <2>7. marketFeeUserPoolRemaining' = p - a
      BY <2>4 DEF ClaimSelectedMarketFees
    <2>8. earned[u][outcome] \div Precision = e
      <3>1. /\ outcome \in Book /\ VotesOK /\ FeesOK /\ IndexBehind
        BY <2>1, <2>2, PoolIsShared DEF IInv, TypeOK
      <3>2. e * Precision + EarnedRemainder(u)[outcome] = earned[u][outcome]
        BY <2>4, <3>1 DEF FeeHistoryIsExact
      <3>3. e \in Nat /\ EarnedRemainder(u)[outcome] \in 0..(Precision - 1)
        BY <2>4, <3>1, EarnedType
      <3> HIDE DEF e
      <3>4. \A n \in Nat, d \in Nat \ {0} : \A r \in 0..(d - 1) : (n * d + r) \div d = n
        OBVIOUS
      <3>5. QED
        BY <3>2, <3>3, <3>4, PrecisionAssumption
    <2>9. p \in Nat
      BY <2>1 DEF IInv, TypeOK, SettlementOK
    <2>10. p - marketFeeUserPoolRemaining' = a
      <3> HIDE DEF a, p
      <3>1. QED
        BY <2>6, <2>7, <2>9
    <2>11. QED
      BY <2>6, <2>8, <2>10
  <1>2. HSpec => [](Kept /\ ClaimsKept)
    <2>1. HInit => Init
      BY DEF HInit
    <2>2. [HNext]_hvars => [Next]_vars
      BY ObservedIsAStep
    <2>3. HSpec => Spec
      BY <2>1, <2>2, PTL DEF HSpec, Spec
    <2>4. QED
      BY <2>3, ClaimsInvariance
  <1>3. QED
    BY <1>1, <1>2, FeeHistoryExact, PTL DEF HSpec, FeeClaimsPayTheEarnings
==============================================================================
