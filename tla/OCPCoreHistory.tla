--------------------------- MODULE OCPCoreHistory ---------------------------
(***************************************************************************)
(* The vault of OCPCore observed: history variables record what the code    *)
(* does not, so that its compressed ledgers can be compared with what       *)
(* happened.  They restrict no step of OCPCore.                             *)
(*                                                                         *)
(*  - earned[u][b]: what u's stake earned in book b, fee by fee, since he    *)
(*    last had no stake.  It is counted in units of 1/Precision token, and   *)
(*    knows nothing of indices, checkpoints or pending amounts.              *)
(*  - deadlineVotes: the vote at the moment that decides the topic: the end  *)
(*    of a request's window, or ResolutionTime.                              *)
(*  - uninvited: tokens sent to the vault that no function of it received    *)
(*    and that no settlement has absorbed yet.                               *)
(***************************************************************************)
EXTENDS OCPCore

VARIABLES earned, deadlineVotes, uninvited

historyObs == <<earned, deadlineVotes, uninvited>>
hvars == <<vars, historyObs>>

\* What one unit of stake in book b gets of a fee, in units of 1/Precision.
FeePerStake(fee, b) ==
    IF BookStake(b) = 0 THEN 0 ELSE (fee * Precision) \div BookStake(b)

HInit ==
    /\ Init
    /\ earned = [u \in Users |-> ZeroBooks]
    /\ deadlineVotes = totalStake
    /\ uninvited = 0

ObserveFees ==
    LET fee == totalMarketFeesAccrued' - totalMarketFeesAccrued
    IN  earned' = [u \in Users |-> [b \in Book |->
          IF Principal(u)' = 0 THEN 0
          ELSE earned[u][b] + EarningStake(u, b) * FeePerStake(fee, b)]]

ObserveVotes ==
    deadlineVotes' = IF ~ProcessingDue /\ now' > now
                        /\ (ProcessingDue' \/ now' = ResolutionTime)
                     THEN totalStake ELSE deadlineVotes

\* A settlement absorbs the gifts into its pool; claimSurplus sends them away.
ObserveGifts ==
    \/ \E a \in GiftAmounts : Gift(a) /\ uninvited' = uninvited + a
    \/ /\ Transaction \/ MarketGraduates \/ Tick
       /\ uninvited' = IF resolved' # resolved
                          \/ (resolved /\ Liabilities = 0 /\ balance' < balance)
                       THEN 0 ELSE uninvited

HNext == ObserveGifts /\ ObserveFees /\ ObserveVotes

HSpec == HInit /\ [][HNext]_hvars
------------------------------------------------------------------------------
\* The lazy fee history is exact: whenever a user's ledger is brought up to
\* date it shows, to the last fraction, what his stake earned while it was
\* there: nothing from before he came, nothing twice, nothing lost.
FeeHistoryIsExact ==
    \A u \in Users, b \in Book :
        EarnedFees(u)[b] * Precision + EarnedRemainder(u)[b] = earned[u][b]

\* Nothing is lost or invented: the vault holds what it owes and the gifts
\* nobody has absorbed, to the token.
VaultIsExact == balance = Liabilities + uninvited

\* The result is the strict majority of the votes as they stood when the
\* topic ended, by request or by time, however late it is processed; a topic
\* that never launched is INVALID, and ends before its time only that way or
\* by a request the majority confirms.
OutcomeIsTheVoteAtTheDeadline ==
    resolved =>
      \/ permissionless /\ market # "formal" /\ outcome = "INVALID"
      \/ LET cast == deadlineVotes["YES"] + deadlineVotes["NO"] + deadlineVotes["INVALID"]
             Won(s) == 2 * deadlineVotes[s] > cast
         IN  /\ ~permissionless \/ market = "formal"
             /\ now >= EffectiveResolutionTime
             /\ totalStake = deadlineVotes
             /\ outcome = IF Won("YES") THEN "YES" ELSE IF Won("NO") THEN "NO"
                          ELSE "INVALID"
             /\ terminatedEarlyAt # 0 => outcome # "INVALID"

\* Fee claims pay what was earned: at least the whole tokens of u's own
\* earnings in the outcome's book, plus his part of what leavers forfeited.
FeeClaimsPayTheEarnings ==
    [][\A u \in marketFeeClaimed' \ marketFeeClaimed : FeeEligible(u) =>
         /\ marketFeeUserPoolRemaining - marketFeeUserPoolRemaining'
              >= earned[u][outcome] \div Precision + FeeBonus(u)
         /\ remainingMarketFeeClaims' = 0 => marketFeeUserPoolRemaining' = 0]_hvars
==============================================================================
