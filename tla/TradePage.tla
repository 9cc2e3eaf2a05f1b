------------------------------ MODULE TradePage ------------------------------
(***************************************************************************)
(* The page that trades a topic market through the user's wallet           *)
(* (src/frontend/components/TestnetMarketApp.tsx with testnet/approvalFlow,*)
(* useAsyncQuote, viewCache and the writer of testnet/chainClient).        *)
(*                                                                         *)
(* Reads of the directory and of the market answer in any order, late or   *)
(* never; the browser's cache may answer first.  The user goes back in the *)
(* history and changes the wallet's account at any time, also while a      *)
(* transaction waits for an approval, and edits the form when it is not    *)
(* busy.                                                                    *)
(*                                                                         *)
(* Abstracted: what is read is only "live" or from the cache; actions are  *)
(* told apart by what guards them; a preview of the router is one of the   *)
(* waits before the wallet; a render follows a change of state at once;    *)
(* the wallet tells the page of a changed account at once.                 *)
(***************************************************************************)
EXTENDS Integers

CONSTANTS Markets, Accounts, None,
          MaxActs        \* bound: acts of the user, and changes of the market

TradePageAssumption == None \notin Markets \cup Accounts /\ MaxActs \in Nat

VARIABLES
    acts,     \* how many acts the user has left
    injected, \* the account the wallet has selected
    page,     \* the state of the component
    read,     \* the refresh that counts, the newest: what it still waits for
    run       \* the action under withPendingAction, or NoRun

vars == <<acts, injected, page, read, run>>

\* Whom and what a read is for.
Identity(p) == <<p.selected, p.account>>
NoView == <<None, "nothing">>

\* Actions: a "trade" is bound to a quote and a "stake" to a time of its own, and both
\* to the form they were clicked with; a "claim" (also an exit, a materialization, fees,
\* a settlement) and the "create" of a market to neither.
Bound == {"trade", "stake"}
NoRun == [at |-> "none", kind |-> "none", of |-> NoView, key |-> 0, wallet |-> 0, approve |-> FALSE]
Fresh(m) == [selected |-> m, account |-> None, connecting |-> None,
             directory |-> "nobody", market |-> NoView, viewLive |-> FALSE,
             shown |-> NoView, live |-> FALSE, quote |-> "none", key |-> 0, wallet |-> 0]
Parts(p) == {"directory"} \cup (IF p.selected = None THEN {} ELSE {"market"})
Nothing == [waits |-> {}, cache |-> {}]

Acts == acts > 0 /\ acts' = acts - 1
Pending == run # NoRun

-----------------------------------------------------------------------------
\* What a change of the component's state brings about.

\* quoteKey: the quote is of another key, and actionIdentity counts on.
Rekeyed(p) == [p EXCEPT !.key = @ + 1, !.quote = "none"]

\* Mistake: the page stays live until the reads of the new identity answer.
Shows_StillLive(p) ==
    IF Identity(p) # Identity(page)
    THEN page' = Rekeyed(p) /\ read' = [waits |-> Parts(p), cache |-> Parts(p) \ {"directory"}]
    ELSE page' = p /\ UNCHANGED read

\* The effect of a new identity: nothing of it is live, a refresh starts and the
\* cache is asked.  Its cleanup has cancelled what the old one still waited for.
Shows(p) ==
    IF Identity(p) # Identity(page)
    THEN /\ page' = [Rekeyed(p) EXCEPT !.market = NoView, !.viewLive = FALSE]
         /\ read' = [waits |-> Parts(p), cache |-> Parts(p) \ {"directory"}]
    ELSE page' = p /\ UNCHANGED read

Empty(p) == [p EXCEPT !.shown = NoView, !.live = FALSE]

\* chooseMarket, blocked while an action is pending.
Choose(m) ==
    /\ Acts /\ ~Pending /\ m # page.selected
    /\ Shows(Empty([page EXCEPT !.selected = m])) /\ UNCHANGED <<injected, run>>

\* popstate is not; it may also come back to the same market.
Back(m) ==
    /\ Acts /\ Shows(Empty([page EXCEPT !.selected = m])) /\ UNCHANGED <<injected, run>>

\* The form, disabled while busy.
Edit ==
    /\ Acts /\ ~Pending /\ page' = Rekeyed(page) /\ UNCHANGED <<injected, read, run>>

-----------------------------------------------------------------------------
\* The wallet.

\* invalidate: without an account before there is no new identity, and the
\* refresh that was running is dropped all the same.
AccountChanged(a) ==
    LET p == Empty([page EXCEPT !.account = None, !.wallet = @ + 1])
    IN  /\ Acts /\ a # injected /\ injected' = a
        /\ IF page.account # None THEN Shows(p)
           ELSE page' = Rekeyed(p) /\ read' = [read EXCEPT !.waits = {}]
        /\ UNCHANGED run

\* connect learns the account, and sets it later.
Connect ==
    /\ Acts /\ page.account = None /\ page.connecting = None
    /\ page' = [page EXCEPT !.connecting = injected]
    /\ UNCHANGED <<injected, read, run>>
Connected ==
    /\ page.connecting # None
    /\ Shows([page EXCEPT !.account = page.connecting, !.connecting = None])
    /\ UNCHANGED <<acts, injected, run>>

-----------------------------------------------------------------------------
\* Reading.

MarkLive(p) ==
    [p EXCEPT !.viewLive = p.directory = p.account
                           /\ (p.selected # None => p.market = Identity(p))]
Got(part) == read' = [read EXCEPT !.waits = @ \ {part}]

DirectoryRead ==
    /\ "directory" \in read.waits /\ Got("directory")
    /\ page' = MarkLive([page EXCEPT !.directory = page.account])
    /\ UNCHANGED <<acts, injected, run>>

\* The market of the account.  If its phase has changed, the keys have too.
MarketRead ==
    LET p == MarkLive([page EXCEPT !.shown = Identity(page), !.live = TRUE,
                                   !.market = Identity(page)])
    IN  /\ "market" \in read.waits /\ Got("market")
        /\ \/ page' = p /\ UNCHANGED acts
           \/ page' = Rekeyed(p) /\ Acts
        /\ UNCHANGED <<injected, run>>

ReadFails(part) ==
    /\ part \in read.waits /\ Got(part)
    /\ UNCHANGED <<acts, injected, page, run>>

\* loadViewSnapshot answers: for display, and not over what is live.
CacheAnswers_Over ==
    /\ read.cache # {} /\ read' = [read EXCEPT !.cache = {}]
    /\ page' = [page EXCEPT !.shown = Identity(page), !.live = FALSE]
    /\ UNCHANGED <<acts, injected, run>>
CacheAnswers ==
    /\ read.cache # {} /\ read' = [read EXCEPT !.cache = {}]
    /\ page' = IF page.market = Identity(page) THEN page
               ELSE [page EXCEPT !.shown = Identity(page), !.live = FALSE]
    /\ UNCHANGED <<acts, injected, run>>

\* Every 15 seconds, unless an action is pending.
Poll ==
    /\ ~Pending /\ read.waits = {} /\ read' = [read EXCEPT !.waits = Parts(page)]
    /\ UNCHANGED <<acts, injected, page, run>>

-----------------------------------------------------------------------------
\* Quotes are of one key, live for 90 seconds; a refresh that fails leaves the
\* old one to expire.
QuoteAnswers ==
    /\ page.viewLive /\ page.shown # NoView /\ page.quote # "fresh"
    /\ page' = [page EXCEPT !.quote = "fresh"]
    /\ UNCHANGED <<acts, injected, read, run>>
QuoteExpires ==
    /\ Acts /\ page.quote = "fresh" /\ page' = [page EXCEPT !.quote = "expired"]
    /\ run' = IF run.kind = "trade" THEN [run EXCEPT !.key = -1] ELSE run
    /\ UNCHANGED <<injected, read>>

\* A stake or a proposal in stock has no quote and its own 90 seconds.
StakeExpires ==
    /\ Acts /\ run.kind = "stake" /\ run.key # -1 /\ run' = [run EXCEPT !.key = -1]
    /\ UNCHANGED <<injected, page, read>>

-----------------------------------------------------------------------------
\* An action takes the lock of withPendingAction.

Starts(kind, of, approve) ==
    /\ Acts /\ ~Pending /\ page.account # None
    /\ run' = [at |-> "check", kind |-> kind, of |-> of, wallet |-> page.wallet,
               key |-> (IF kind \in Bound THEN page.key ELSE 0), approve |-> approve]
    /\ UNCHANGED <<injected, page, read>>
CanAct == page.viewLive /\ page.shown # NoView

\* submitSide, submitEarlyProposal: spendAndExecute, with an approval if the allowance
\* is short.
Spend(kind, approve) ==
    CanAct /\ (kind = "trade" => page.quote = "fresh") /\ Starts(kind, page.shown, approve)

\* transact alone: neither form nor quote is remembered.
Claim == CanAct /\ Starts("claim", page.shown, FALSE)

\* liveGuard: the directory of the account that clicked, and the market the page now
\* shows, whichever it is, unless none was selected at the click.
LiveGuard(of) == page.directory = of[2] /\ (of[1] # None => page.market = Identity(page))

\* The form that creates a market stays open over the history's back button.
Create == LiveGuard(Identity(page)) /\ Starts("create", Identity(page), FALSE)

\* The session: liveGuard, the epoch of the wallet and, of those bound, actionGuard.
Valid == LiveGuard(run.of) /\ run.wallet = page.wallet /\ (run.kind \in Bound => run.key = page.key)
SameSigner == injected = run.of[2]
Goes(step) == run' = [run EXCEPT !.at = step] /\ UNCHANGED <<acts, injected, page, read>>

\* signedClient and approveThenExecute: validate before everything.
Checked ==
    /\ run.at = "check" /\ Valid /\ SameSigner
    /\ Goes(IF run.approve THEN "approve" ELSE "execute")
\* submit validates once more and hands over to the wallet.
AskApproval == run.at = "approve" /\ Valid /\ Goes("approving")
\* The approval is mined: validate, read the allowance, validate.
Approved_NotChecked == run.at = "approving" /\ Goes("execute")
Approved == run.at = "approving" /\ Valid /\ SameSigner /\ Goes("execute")
\* Mistake: only the approval is validated.
AskBusiness_Unchecked == run.at = "execute" /\ Goes("sent")
AskBusiness == run.at = "execute" /\ Valid /\ Goes("sent")

\* A guard throws, the user rejects, a transaction fails.
ActionEnds ==
    /\ Pending /\ run' = NoRun /\ UNCHANGED <<acts, injected, page, read>>
\* The receipt: confirmedRevision changes every key, refresh(true) starts for the
\* identity of the click, if that is still shown.
Confirmed ==
    /\ run.at = "sent" /\ run.kind # "create" /\ run' = NoRun
    /\ page' = Rekeyed(page)
    /\ read' = IF run.of = Identity(page) THEN [read EXCEPT !.waits = Parts(page)] ELSE read
    /\ UNCHANGED <<acts, injected>>
\* created: the page goes to the new market, wherever the user has gone meanwhile.
Created(m) ==
    /\ run.at = "sent" /\ run.kind = "create" /\ run' = NoRun /\ m # page.selected
    /\ Shows(Empty([page EXCEPT !.selected = m])) /\ UNCHANGED <<acts, injected>>

-----------------------------------------------------------------------------
Init ==
    /\ acts = MaxActs
    /\ injected \in Accounts
    /\ \E m \in Markets \cup {None} :
        /\ page = Fresh(m)
        /\ read = [waits |-> Parts(Fresh(m)), cache |-> Parts(Fresh(m)) \ {"directory"}]
    /\ run = NoRun

Next ==
    \/ \E m \in Markets \cup {None} : Choose(m) \/ Back(m)
    \/ Edit \/ Connect \/ Connected
    \/ \E a \in Accounts : AccountChanged(a)
    \/ DirectoryRead \/ MarketRead \/ CacheAnswers \/ Poll
    \/ \E part \in {"directory", "market"} : ReadFails(part)
    \/ QuoteAnswers \/ QuoteExpires \/ StakeExpires
    \/ \E kind \in Bound, approve \in BOOLEAN : Spend(kind, approve)
    \/ Claim \/ Create
    \/ Checked \/ AskApproval \/ Approved \/ AskBusiness \/ ActionEnds \/ Confirmed
    \/ \E m \in Markets : Created(m)

Spec == Init /\ [][Next]_vars

-----------------------------------------------------------------------------
\* A page that calls itself live shows nothing but what was read from the chain
\* for the market that is selected and the account that is connected.
LiveViewIsOfThePage ==
    page.viewLive =>
        /\ page.directory = page.account
        /\ page.shown = NoView \/ (page.shown = Identity(page) /\ page.live)

\* The wallet is asked for a trade, a stake or a proposal only for the market and the
\* account that the page shows at that moment, and for anything else only in the name
\* of the account that the page shows and the wallet has selected: what every step does.
\* (A claim's market may be another than the one shown, for its session does not compare
\* them.)
AsksAsShown ==
    run.at = "execute" /\ run'.at = "sent" =>
        /\ run.of[2] = page.account /\ page.account = injected
        /\ run.kind \in Bound => run.of = Identity(page)
=============================================================================
