---------------------------- MODULE ShareSnapshot ----------------------------
(***************************************************************************)
(* The pages and cards that show a vault when its link is shared           *)
(* (src/frontend/api: vault-share.ts, vault-result-card.tsx,               *)
(* vault-card.tsx on _lib/vaultSnapshot.ts).  A crawler's answer is cached *)
(* for a year, so it has to be right for ever.                             *)
(*                                                                         *)
(* A snapshot is read in several calls, all at one block, while the vault  *)
(* may be finalised; each may fail.  What it says of the settlement falls  *)
(* back to single calls that may each be missing.                          *)
(*                                                                         *)
(* Abstracted: the retry after a rate limit is in the failure of a call;   *)
(* addresses are well formed and factory, vault and market belong          *)
(* together or not; amounts and titles are left out.                       *)
(***************************************************************************)
EXTENDS Integers

CONSTANTS MaxBlock,    \* bound: blocks of the chain
          MaxRequests  \* bound: requests for a page or a card

ShareSnapshotAssumption == {MaxBlock, MaxRequests} \subseteq Nat \ {0}

VARIABLES
    height,   \* the last block
    vault,    \* the vault: its outcome, when it was finalised, whether it is a topic's
    left,     \* how many requests may still come
    request,  \* the request that is answered
    cached    \* what crawlers were told, by the cache of the CDN

vars == <<height, vault, left, request, cached>>

NoRequest == [at |-> "none"]
Latest == 0
Unknown == -1     \* a call that gave nothing

-----------------------------------------------------------------------------
\* The chain (external).

Grow ==
    /\ height < MaxBlock /\ height' = height + 1 /\ UNCHANGED <<vault, left, request, cached>>
Finalize ==
    /\ height < MaxBlock /\ vault.since = 0 /\ height' = height + 1
    /\ \E o \in 1..3 : vault' = [vault EXCEPT !.since = height', !.outcome = o]
    /\ UNCHANGED <<left, request, cached>>

ResolvedAt(b) == vault.since \in 1..b
OutcomeAt(b) == IF ResolvedAt(b) THEN vault.outcome ELSE 0

-----------------------------------------------------------------------------
\* The three handlers.

\* A link carries the block it was shared at, and a hint once the vault is final.
Share(block, finalized) ==
    [at |-> "head", kind |-> "share", finalized |-> finalized,
     block |-> IF finalized THEN Latest ELSE block, resolved |-> FALSE, outcome |-> 0]
Card(kind, block) ==
    [at |-> "head", kind |-> kind, finalized |-> FALSE, block |-> block, resolved |-> FALSE, outcome |-> 0]

\* Browsers are sent on to the vault's page; crawlers are answered.
Crawl ==
    /\ left > 0 /\ left' = left - 1 /\ request = NoRequest
    /\ request' \in {Share(b, f) : b \in 1..MaxBlock, f \in BOOLEAN}
                 \cup {Card(k, b) : k \in {"result-card", "card"}, b \in 0..MaxBlock}
    /\ UNCHANGED <<height, vault, cached>>

Goes(next) == request' = next /\ UNCHANGED <<height, vault, left, cached>>
Refused == Goes(NoRequest)

-----------------------------------------------------------------------------
\* loadVaultSnapshot.

\* Without a block, the latest one; every call that follows is at this block.
ReadHead ==
    /\ request.at = "head"
    /\ Goes([request EXCEPT !.at = "pair", !.block = IF @ = Latest THEN height ELSE @])
At(block) == IF block = Latest THEN height ELSE block
Exists(block) == At(block) <= height

\* Registered by its factory, and paired with the market of the link.
ReadPair ==
    /\ request.at = "pair"
    /\ IF Exists(request.block) /\ vault.paired THEN Goes([request EXCEPT !.at = "settlement"]) ELSE Refused

\* resolved, outcome and settlementPool in one batch, or else one by one.
ReadSettlement ==
    /\ request.at = "settlement"
    /\ \/ Goes([request EXCEPT !.at = "market", !.resolved = ResolvedAt(At(request.block)),
                               !.outcome = OutcomeAt(At(request.block))])
       \/ Goes([request EXCEPT !.at = "resolved"])
ReadResolved ==
    /\ request.at = "resolved"
    /\ \E answer \in {ResolvedAt(At(request.block)), FALSE} :
          Goes([request EXCEPT !.at = "outcome", !.resolved = answer])
ReadOutcome ==
    /\ request.at = "outcome"
    /\ \E answer \in {OutcomeAt(At(request.block)), 0} :
          Goes([request EXCEPT !.at = "market", !.outcome = answer])

\* The token, and the market, which points back to the vault and is activated.
ReadMarket ==
    /\ request.at = "market"
    /\ IF vault.activated THEN Goes([request EXCEPT !.at = "answer"]) ELSE Refused

Fails == request # NoRequest /\ Refused

-----------------------------------------------------------------------------
\* The answers; only those without an error are kept.

Answer(told) ==
    /\ cached' = cached \cup {told} /\ request' = NoRequest /\ UNCHANGED <<height, vault, left>>
Told == [kind |-> request.kind, block |-> request.block, resolved |-> request.resolved,
         outcome |-> request.outcome]

\* A page that the link calls final has to be; else it is as of its block.
AnswerShare ==
    /\ request.at = "answer" /\ request.kind = "share"
    /\ IF request.finalized => request.resolved THEN Answer(Told) ELSE Refused

\* Mistake: resolved is enough.
AnswerResult_AnyOutcome ==
    /\ request.at = "answer" /\ request.kind = "result-card"
    /\ IF request.resolved THEN Answer(Told) ELSE Refused
AnswerResult ==
    /\ request.at = "answer" /\ request.kind = "result-card"
    /\ IF request.resolved /\ request.outcome \in 1..3 THEN Answer(Told) ELSE Refused

\* The card of a vault as of a block does not speak of the settlement.
AnswerCard ==
    /\ request.at = "answer" /\ request.kind = "card"
    /\ Answer([Told EXCEPT !.resolved = FALSE, !.outcome = 0])

-----------------------------------------------------------------------------
Init ==
    /\ height = 1 /\ left = MaxRequests /\ request = NoRequest /\ cached = {}
    /\ \E p, a \in BOOLEAN :
          vault = [since |-> 0, outcome |-> 0, paired |-> p, activated |-> a]

Next ==
    \/ Grow \/ Finalize \/ Crawl
    \/ ReadHead \/ ReadPair \/ ReadSettlement \/ ReadResolved \/ ReadOutcome \/ ReadMarket \/ Fails
    \/ AnswerShare \/ AnswerResult \/ AnswerCard

Spec == Init /\ [][Next]_vars

-----------------------------------------------------------------------------
\* What the cache says of a vault stays true: a result card shows the outcome that is
\* final, a share never calls final what was not, and no answer is of a vault that is
\* not paired with its market.
CachedIsTrue ==
    \A told \in cached :
        /\ vault.paired /\ vault.activated
        /\ told.resolved => ResolvedAt(told.block)
        /\ told.kind = "result-card" => told.outcome = vault.outcome
=============================================================================
