----------------------------- MODULE PaperLedger -----------------------------
(***************************************************************************)
(* What the paper trading server promises: a ledger that executes one order  *)
(* at a time, each request id of a user at most once, and gives every user   *)
(* one initial grant.  No connections, no locks, no attempts.               *)
(*                                                                         *)
(* PaperStore implements it (its property RefinesLedger).                   *)
(***************************************************************************)
EXTENDS PaperEngine, Sequences

VARIABLES
    wallet,           \* ocp_paper_users.balance_micros
    granted,          \* users with a row in ocp_paper_grants
    journal,          \* ocp_paper_journal, per user
    markets,          \* ocp_paper_markets: id -> document or None
    requests,         \* ocp_paper_requests: user, id -> order and response
    due               \* markets whose deadline has passed

lvars == <<wallet, granted, journal, markets, requests, due>>

Init ==
    /\ wallet = [u \in Users |-> 0]
    /\ granted = {}
    /\ journal = [u \in Users |-> <<>>]
    /\ markets = [m \in Markets |-> None]
    /\ requests = [u \in Users |-> [i \in Ids |-> None]]
    /\ due = {}

Grant(u) ==
    /\ u \notin granted
    /\ granted' = granted \cup {u}
    /\ wallet' = [wallet EXCEPT ![u] = @ + InitialGrant]
    /\ journal' = [journal EXCEPT ![u] =
                     Append(@, Entry(None, wallet[u], wallet[u] + InitialGrant))]
    /\ UNCHANGED <<markets, requests, due>>

(* The effect of an order on all four tables at once. *)
Effect(o, m, d, w) ==
    /\ requests[o.user][o.id] = None
    /\ markets' = [markets EXCEPT ![m] = d]
    /\ wallet' = [wallet EXCEPT ![o.user] = w]
    /\ requests' = [requests EXCEPT ![o.user][o.id] = Request(o, m, d, w)]
    /\ journal' = [journal EXCEPT ![o.user] = Append(@, Entry(o.id, wallet[o.user], w))]
    /\ UNCHANGED <<granted, due>>

Create(u, i) ==
    /\ u \in granted
    /\ \E m \in Markets :
         /\ markets[m] = None
         /\ Effect(OrderOf(u, i, "create", None, 0, 0), m, NewDocument(u), wallet[u])

(* A trade takes effect on the document of its revision; the clock was read   *)
(* at some moment of the request, so a deadline that has just passed may not  *)
(* be seen yet.                                                              *)
Trade(u, i, op, m, a) ==
    /\ u \in granted
    /\ markets[m] # None
    /\ \E late \in BOOLEAN :
         LET d == Advance(markets[m], late)
             o == OrderOf(u, i, op, m, a, d.revision)
         IN /\ late => m \in due
            /\ Allowed(d, o, wallet[u])
            /\ Effect(o, m, Traded(d, o, wallet[u]), WalletAfter(d, o, wallet[u]))

DeadlinePasses(m) ==
    /\ markets[m] # None /\ m \notin due
    /\ due' = due \cup {m}
    /\ UNCHANGED <<wallet, granted, journal, markets, requests>>

Next ==
    \/ \E u \in Users : Grant(u)
    \/ \E u \in Users, i \in Ids : Create(u, i)
    \/ \E u \in Users, i \in Ids, op \in TradeOps, m \in Markets, a \in Amounts \cup {0} :
         Trade(u, i, op, m, a)
    \/ \E m \in Markets : DeadlinePasses(m)

Spec == Init /\ [][Next]_lvars
-----------------------------------------------------------------------------
(* The journal explains the wallet: entries follow one another without a gap,  *)
(* the last one is the balance, each request has exactly one entry and each    *)
(* entry but the grant has its request.                                       *)
JournalExplains ==
    \A u \in Users :
        LET j == journal[u] IN
        /\ \A k \in 2..Len(j) : j[k].before = j[k - 1].after
        /\ wallet[u] = IF Len(j) = 0 THEN 0 ELSE j[Len(j)].after
        /\ \A k, l \in 1..Len(j) : j[k].id = j[l].id => k = l
        /\ \A i \in Ids : requests[u][i] # None <=> \E k \in 1..Len(j) : j[k].id = i
        /\ u \in granted <=> \E k \in 1..Len(j) : j[k].id = None
==============================================================================
