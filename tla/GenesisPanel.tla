----------------------------- MODULE GenesisPanel -----------------------------
(***************************************************************************)
(* The panel that trades a topic in its Genesis                            *)
(* (src/frontend/components/ZeroCapitalGenesis.tsx, genesisShareQuote.ts). *)
(*                                                                         *)
(* Refreshes overlap and answer in any order; the price moves between the  *)
(* quote the user sees, the quote of the click and the transaction.        *)
(*                                                                         *)
(* The Genesis contract is not in this repository: its curve is modelled   *)
(* by the replay of it in genesisShareQuote.ts, its other operations from  *)
(* the calls the panel makes.                                              *)
(*                                                                         *)
(* Abstracted: the two sides are alike, one is modelled; a snapshot's      *)
(* calls see one state; the registration of vault and Genesis holds; the   *)
(* mint of test tokens changes nothing that is modelled.                   *)
(***************************************************************************)
EXTENDS Integers

CONSTANTS Accounts, None,
          Threshold,     \* graduationThreshold
          VirtualQuote, VirtualSupply, CapitalBps,
          Amounts,       \* what the form may say, in shares
          Bids,          \* budgets of the other traders
          MaxActs        \* bound: acts of the users, blocks and refreshes

GenesisPanelAssumption ==
    /\ None \notin Accounts
    /\ {Threshold, VirtualQuote, VirtualSupply} \subseteq Nat \ {0} /\ CapitalBps \in 0..9899
    /\ Amounts \subseteq Nat \ {0} /\ Bids \subseteq Nat \ {0} /\ MaxActs \in Nat

VARIABLES
    acts,
    genesis,    \* the contract
    page,       \* the component's state: the form, the snapshot, the quote
    reads,      \* the snapshots on their way
    run         \* the transaction that runs, while busy

vars == <<acts, genesis, page, reads, run>>

Acts == acts > 0 /\ acts' = acts - 1
NoRun == [at |-> "none"]
Busy == run # NoRun
NoSnapshot == [of |-> None, known |-> FALSE]

-----------------------------------------------------------------------------
\* The curve, with the contract's roundings.

Gap(g) == Threshold - (g.reserve + g.locked)
TokenReserve(g) == VirtualSupply - g.sold
CeilDiv(a, b) == (a + b - 1) \div b
Cap(g) == CeilDiv(Gap(g) * 10000, 9900)
Retained(g, budget) ==
    LET retained == (budget * 9900) \div 10000 IN IF retained < Gap(g) THEN retained ELSE Gap(g)
Capital(g, budget) == ((g.cumulative + Retained(g, budget)) * CapitalBps) \div 9900 - g.locked
Curve(g, budget) == Retained(g, budget) - Capital(g, budget)
Output(g, budget) ==
    IF Curve(g, budget) <= 0 THEN 0
    ELSE (TokenReserve(g) * Curve(g, budget)) \div (VirtualQuote + g.reserve + Curve(g, budget))

\* budgetForGenesisShares: the least budget by bisection, 0 if none will do.
\* Mistake: the middle is not excluded from above, and the last one is taken.
Budget_OneMore(g, shares) ==
    LET search[r \in (1..Cap(g)) \X (1..Cap(g))] ==      \* low and high
          LET middle == (r[1] + r[2]) \div 2
          IN IF r[1] >= r[2] THEN r[1]
             ELSE IF Output(g, middle) > shares THEN search[<<r[1], middle>>] ELSE search[<<middle + 1, r[2]>>]
    IN IF shares > Output(g, Cap(g)) THEN 0 ELSE search[<<1, Cap(g)>>]
Budget(g, shares) ==
    LET search[r \in (1..Cap(g)) \X (1..Cap(g))] ==      \* low and high
          LET middle == (r[1] + r[2]) \div 2
          IN IF r[1] >= r[2] THEN r[1]
             ELSE IF Output(g, middle) >= shares THEN search[<<r[1], middle>>] ELSE search[<<middle + 1, r[2]>>]
    IN IF shares > Output(g, Cap(g)) THEN 0 ELSE search[<<1, Cap(g)>>]

-----------------------------------------------------------------------------
\* The contract.

Bought(g, a, budget) ==
    LET bought == [g EXCEPT !.reserve = @ + Curve(g, budget), !.locked = @ + Capital(g, budget),
                            !.cumulative = @ + Retained(g, budget), !.sold = @ + Output(g, budget),
                            !.held[a] = @ + Output(g, budget)]
    IN [bought EXCEPT !.phase = IF Gap(bought) = 0 THEN "graduated" ELSE @]
Refund(g, shares) == ((VirtualQuote + g.reserve) * shares) \div (TokenReserve(g) + shares)
Sold(g, a, shares) ==
    [g EXCEPT !.reserve = @ - Refund(g, shares), !.sold = @ - shares, !.held[a] = @ - shares]
Trading(g) == g.phase = "genesis" /\ ~g.expired

\* Others trade, the deadline passes, the formal market settles.
Others ==
    /\ Acts /\ Trading(genesis)
    /\ \/ \E a \in Accounts, bid \in Bids : Output(genesis, bid) > 0 /\ genesis' = Bought(genesis, a, bid)
       \/ \E a \in Accounts : genesis.held[a] > 0 /\ genesis' = Sold(genesis, a, genesis.held[a])
    /\ UNCHANGED <<page, reads, run>>
Expires ==
    /\ Acts /\ ~genesis.expired /\ genesis' = [genesis EXCEPT !.expired = TRUE]
    /\ UNCHANGED <<page, reads, run>>
Settles ==
    /\ Acts /\ genesis.phase = "graduated" /\ ~genesis.settled
    /\ genesis' = [genesis EXCEPT !.settled = TRUE] /\ UNCHANGED <<page, reads, run>>

-----------------------------------------------------------------------------
\* Reading: every five seconds, on the event of another panel, on demand and after
\* a transaction; also for a new wallet, whose old reads are not cancelled.

Snapshot(a) ==
    [of |-> a, known |-> TRUE, phase |-> genesis.phase, expired |-> genesis.expired,
     settled |-> genesis.settled, empty |-> genesis.cumulative = 0,
     price |-> <<genesis.reserve, genesis.sold>>,
     held |-> IF a = None THEN 0 ELSE genesis.held[a],
     claimed |-> a # None /\ a \in genesis.claimed]
Refresh ==
    /\ Acts /\ reads' = reads \cup {Snapshot(page.account)} /\ UNCHANGED <<genesis, page, run>>

\* The quote is of the form, the mode, the phase, the prices and the deadline.
QuoteKey(p) == <<p.amount, p.mode, p.snapshot.known,
                 IF p.snapshot.known THEN <<p.snapshot.phase, p.snapshot.price, p.snapshot.expired>> ELSE <<>> >>
Requoted(p) == IF QuoteKey(p) = QuoteKey(page) THEN p ELSE [p EXCEPT !.quote = "none"]

RefreshAnswers(snapshot) ==
    /\ reads' = reads \ {snapshot} /\ page' = Requoted([page EXCEPT !.snapshot = snapshot])
    /\ UNCHANGED <<acts, genesis, run>>
RefreshFails(snapshot) ==
    /\ reads' = reads \ {snapshot} /\ UNCHANGED <<acts, genesis, page, run>>

\* After 300 ms of an unchanged key, both sides; a side may have none.
QuoteAnswers ==
    /\ page.snapshot.known /\ page.snapshot.phase = "genesis" /\ ~page.snapshot.expired
    /\ page.quote = "none"
    /\ \E answer \in {"live", "refused"} : page' = [page EXCEPT !.quote = answer]
    /\ UNCHANGED <<acts, genesis, reads, run>>

\* The form and the wallet, at any time.
Edit ==
    /\ Acts
    /\ \E n \in Amounts, m \in {"buy", "sell"} :
          <<n, m>> # <<page.amount, page.mode>>
          /\ page' = Requoted([page EXCEPT !.amount = n, !.mode = m])
    /\ UNCHANGED <<genesis, reads, run>>
SwitchWallet(a) ==
    /\ Acts /\ a # page.account /\ page' = [page EXCEPT !.account = a]
    /\ reads' = reads \cup {Snapshot(a)} /\ UNCHANGED <<genesis, run>>

-----------------------------------------------------------------------------
\* The buttons.

Offered(kind) ==
    LET s == page.snapshot
    IN  /\ s.known
        /\ \/ /\ s.phase = "genesis" /\ ~s.expired
              /\ \/ kind = "buy" /\ page.mode = "buy" /\ page.quote = "live"
                 \/ kind = "sell" /\ page.mode = "sell" /\ s.held > 0
                 \/ kind = "cancel" /\ s.empty
           \/ kind = "fail" /\ s.phase = "genesis" /\ s.expired
           \/ /\ s.phase = "graduated"
              /\ \/ kind = "claimCash" /\ s.held > 0 /\ ~s.claimed
                 \/ kind = "migrate" /\ s.held > 0 /\ ~s.claimed /\ ~s.expired /\ ~s.settled
                 \/ kind = "claimPayout" /\ (s.expired \/ s.settled)
           \/ kind = "refund" /\ s.phase = "failed" /\ s.held > 0 /\ ~s.claimed

\* run, for the form and the wallet of the click; sell checks the snapshot.
Click(kind) ==
    /\ Acts /\ ~Busy /\ Offered(kind) /\ page.account # None
    /\ run' = [at |-> "check", kind |-> kind, by |-> page.account, amount |-> page.amount, budget |-> 0,
               least |-> 0]
    /\ UNCHANGED <<genesis, page, reads>>

Goes(next) == run' = next /\ UNCHANGED <<acts, genesis, page, reads>>

\* The network and the registration are checked; buy, sell and migrate quote again.
\* Mistake: a purchase may slip by one per cent, as a sale may.
QuotedBuy_MaySlip ==
    /\ run.at = "check" /\ run.kind = "buy" /\ Trading(genesis) /\ Budget(genesis, run.amount) > 0
    /\ Goes([run EXCEPT !.at = "approve", !.budget = Budget(genesis, run.amount), !.least = (run.amount * 99) \div 100])
QuotedBuy ==
    /\ run.at = "check" /\ run.kind = "buy" /\ Trading(genesis) /\ Budget(genesis, run.amount) > 0
    /\ Goes([run EXCEPT !.at = "approve", !.budget = Budget(genesis, run.amount), !.least = run.amount])
QuotedSell ==
    /\ run.at = "check" /\ run.kind = "sell" /\ run.amount <= page.snapshot.held
    /\ Goes([run EXCEPT !.at = "send", !.least = (Refund(genesis, run.amount) * 99) \div 100])
Checked ==
    /\ run.at = "check" /\ run.kind \notin {"buy", "sell"} /\ Goes([run EXCEPT !.at = "send"])
\* The allowance sufficed, or the approval is mined.
Approved == run.at = "approve" /\ Goes([run EXCEPT !.at = "send"])

\* The transaction is mined: the contract accepts it or it reverts.
Accepts ==
    LET g == genesis IN
    CASE run.kind = "buy" -> Trading(g) /\ Output(g, run.budget) >= run.least
      [] run.kind = "sell" -> Trading(g) /\ run.amount <= g.held[run.by]
                              /\ Refund(g, run.amount) >= run.least
      [] run.kind = "cancel" -> Trading(g) /\ g.cumulative = 0
      [] run.kind = "fail" -> g.phase = "genesis" /\ g.expired
      [] run.kind \in {"claimCash", "migrate"} -> g.phase = "graduated" /\ run.by \notin g.claimed
      [] run.kind = "claimPayout" -> g.phase = "graduated" /\ (g.expired \/ g.settled)
      [] run.kind = "refund" -> g.phase = "failed" /\ run.by \notin g.claimed
Applied ==
    LET g == genesis IN
    CASE run.kind = "buy" -> Bought(g, run.by, run.budget)
      [] run.kind = "sell" -> Sold(g, run.by, run.amount)
      [] run.kind \in {"cancel", "fail"} -> [g EXCEPT !.phase = "failed"]
      [] run.kind \in {"claimCash", "migrate", "refund"} -> [g EXCEPT !.claimed = @ \cup {run.by}]
      [] run.kind = "claimPayout" -> [g EXCEPT !.settled = TRUE]
Mined ==
    /\ run.at = "send" /\ Accepts /\ genesis' = Applied
    /\ run' = [run EXCEPT !.at = "refresh"]
    /\ page' = [page EXCEPT !.quote = "none"]
    /\ UNCHANGED <<acts, reads>>
\* The quotes are cleared, the refresh is awaited, the other panel told.
Refreshed ==
    /\ run.at = "refresh" /\ run' = NoRun
    /\ page' = Requoted([page EXCEPT !.snapshot = Snapshot(run.by)])
    /\ UNCHANGED <<acts, genesis, reads>>
\* A check, the user, the contract or the node refuses; an error is shown.
Ends == Busy /\ Goes(NoRun)

-----------------------------------------------------------------------------
Fresh == [phase |-> "genesis", expired |-> FALSE, settled |-> FALSE, reserve |-> 0, sold |-> 0,
          cumulative |-> 0, locked |-> 0, held |-> [a \in Accounts |-> 0], claimed |-> {}]
\* The panel is opened when others have traded, or all is over.
Opened ==
    LET traded == {Fresh} \cup {Bought(Fresh, a, bid) : a \in Accounts, bid \in Bids}
        late == {[g EXCEPT !.expired = TRUE] : g \in traded}
    IN traded \cup late \cup {[g EXCEPT !.phase = "failed"] : g \in {l \in late : l.phase = "genesis"}}

Init ==
    /\ acts = MaxActs /\ genesis \in Opened /\ run = NoRun
    /\ \E a \in Accounts, n \in Amounts :
          page = [account |-> a, amount |-> n, mode |-> "buy", snapshot |-> NoSnapshot, quote |-> "none"]
    /\ reads = {Snapshot(page.account)}

Kinds == {"buy", "sell", "cancel", "fail", "claimCash", "migrate", "claimPayout", "refund"}
Next ==
    \/ Others \/ Expires \/ Settles \/ Refresh \/ QuoteAnswers \/ Edit
    \/ \E s \in reads : RefreshAnswers(s) \/ RefreshFails(s)
    \/ \E a \in Accounts \cup {None} : SwitchWallet(a)
    \/ \E kind \in Kinds : Click(kind)
    \/ QuotedBuy \/ QuotedSell \/ Checked \/ Approved \/ Mined \/ Refreshed \/ Ends

Spec == Init /\ [][Next]_vars

-----------------------------------------------------------------------------
\* The budget that is quoted is the least that buys the shares, and none is quoted
\* only when none would: the bisection is right on every curve the trades can reach.
BudgetIsLeast ==
    Trading(genesis) =>
        \A n \in Amounts :
            LET budget == Budget(genesis, n)
            IN IF budget = 0 THEN \A b \in 1..Cap(genesis) : Output(genesis, b) < n
               ELSE Output(genesis, budget) >= n /\ \A b \in 1..(budget - 1) : Output(genesis, b) < n

\* A purchase gives the shares the form said at the click, or nothing at all,
\* wherever the price went meanwhile: what every step does.
GivesAsAsked ==
    run.at = "send" /\ run'.at = "refresh" /\ run.kind = "buy"
      => genesis'.held[run.by] >= genesis.held[run.by] + run.amount
=============================================================================
