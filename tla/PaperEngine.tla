----------------------------- MODULE PaperEngine -----------------------------
(***************************************************************************)
(* The pure part of the paper trading server: what one order does to a      *)
(* market document and a wallet (frontend/server/paper/engine.ts), and the  *)
(* rows a committed order leaves behind (store.ts).                         *)
(*                                                                         *)
(* A wallet counts whole micro dollars, a market document counts in floats.  *)
(* Here both are integers: Fine units make one micro dollar, so that a       *)
(* conversion can lose a fraction, which the engine keeps as the player's    *)
(* dust inside the document.                                                *)
(*                                                                         *)
(* Abstracted: which of the model's many phases a document is in (here open  *)
(* or closed by its deadline) and its prices (a sale and a claim return what *)
(* was paid, less one unit that stays in the market as a fee).              *)
(***************************************************************************)
EXTENDS Integers

CONSTANTS
    Users,            \* authenticated players
    Markets,          \* ids that randomUUID may give to markets
    Ids,              \* request ids that clients draw
    None,             \* SQL NULL: no row, no id, no value
    InitialGrant,     \* INITIAL_GRANT in micro dollars
    Fine,             \* float units per micro dollar
    Amounts           \* budgets of a purchase, in micro dollars

ASSUME EngineAssumption ==
    /\ InitialGrant \in Nat /\ Fine \in Nat \ {0}
    /\ Amounts \subseteq Nat

TradeOps == {"buy", "sell", "claim"}
Ops == TradeOps \cup {"create", "share"}

(* The body of a POST: user comes from the session, the rest from the client. *)
Order == [user : Users, id : Ids, op : Ops, market : Markets \cup {None},
          amount : Amounts \cup {0}, revision : Nat]
OrderOf(u, i, op, m, a, r) ==
    [user |-> u, id |-> i, op |-> op, market |-> m, amount |-> a, revision |-> r]

Document == [creator : Users, phase : {"OPEN", "CLOSED"}, revision : Nat,
             cash : Int, held : [Users -> Nat], dust : [Users -> Nat]]

(* createPaperMarket: the creator is its first player. *)
NewDocument(u) ==
    [creator |-> u, phase |-> "OPEN", revision |-> 0, cash |-> 0,
     held |-> [v \in Users |-> 0], dust |-> [v \in Users |-> 0]]

Closed(d) ==
    [creator |-> d.creator, phase |-> "CLOSED", revision |-> d.revision + 1,
     cash |-> d.cash, held |-> d.held, dust |-> d.dust]

(* advancePaperMarket: a deadline closes the market and counts as a revision. *)
(* Every reader computes it, only an order stores it.                        *)
Advance(d, due) == IF due /\ d.phase = "OPEN" THEN Closed(d) ELSE d

(* withdrawMicros: strictly down before the floor, so nothing is minted. *)
Withdrawable(f) == IF f = 0 THEN 0 ELSE (f - 1) \div Fine

(* What the player's account receives (or pays, when negative). *)
Proceeds(d, o) == IF o.op = "buy" THEN -(o.amount * Fine) ELSE d.held[o.user] - 1

(* applyPaperAction lends the whole wallet to the account for one action. *)
Credit(d, o, w) == w * Fine + d.dust[o.user]

(* The engine's refusals: wrong phase, too little money, nothing to sell. *)
Allowed(d, o, w) ==
    \/ o.op = "buy"   /\ d.phase = "OPEN" /\ o.amount * Fine <= Credit(d, o, w)
    \/ o.op = "sell"  /\ d.phase = "OPEN" /\ d.held[o.user] > 0
    \/ o.op = "claim" /\ d.phase = "CLOSED" /\ d.held[o.user] > 0

Funds(d, o, w) == Credit(d, o, w) + Proceeds(d, o)
WalletAfter(d, o, w) == Withdrawable(Funds(d, o, w))

HeldAfter(d, o) == IF o.op = "buy" THEN d.held[o.user] + o.amount * Fine ELSE 0

(* Mistake: the fraction is dropped. *)
DustAfter_Dropped(d, o, w) == 0

DustAfter(d, o, w) == Funds(d, o, w) - Fine * WalletAfter(d, o, w)

Traded(d, o, w) ==
    [creator |-> d.creator, phase |-> d.phase, revision |-> d.revision + 1,
     cash |-> d.cash - Proceeds(d, o),
     held |-> [d.held EXCEPT ![o.user] = HeldAfter(d, o)],
     dust |-> [d.dust EXCEPT ![o.user] = DustAfter(d, o, w)]]

(* The rows of ocp_paper_requests and ocp_paper_journal. *)
Responses == [market : Markets, revision : Nat, wallet : Nat]
RequestRow == [order : Order, response : Responses]
JournalRow == [id : Ids \cup {None}, before : Nat, after : Nat]

ASSUME NoneAssumption ==
    None \notin Users \cup Markets \cup Ids /\ None \notin Document /\ None \notin RequestRow

Response(m, d, w) == [market |-> m, revision |-> d.revision, wallet |-> w]
Request(o, m, d, w) == [order |-> o, response |-> Response(m, d, w)]
Entry(id, before, after) == [id |-> id, before |-> before, after |-> after]
==============================================================================
