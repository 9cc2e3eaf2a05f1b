--------------------------- MODULE SitePagesProofs ---------------------------
(***************************************************************************)
(* Proofs about the pages of the site (TradePage, CreatePage, VaultPage,    *)
(* GenesisPanel, ExploreList and WalletHook), as Site instantiates them and *)
(* for every value of its constants: for each page an inductive invariant,  *)
(* that it holds at first, that every step keeps it, and that what the page *)
(* shows or asks to sign follows from it.  SiteProofs puts them together.   *)
(***************************************************************************)
EXTENDS Site, SumLemmas, NaturalsInduction, WellFoundedInduction,
        FiniteSetTheorems, SequenceTheorems, TLAPS

(* Induction, and recursion along 0..N, with sets and functions in the place of  *)
(* predicates and operators.                                                     *)
LEMMA Induction ==
    ASSUME NEW Q, 0 \in Q, \A n \in Nat : n \in Q => n + 1 \in Q
    PROVE  \A n \in Nat : n \in Q
  <1> DEFINE Bad == {n \in Nat : n \notin Q}
  <1> SUFFICES ASSUME Bad # {} PROVE FALSE
    OBVIOUS
  <1>1. IsWellFoundedOn(OpToRel(<, Nat), Nat)
    BY NatLessThanWellFounded
  <1>2. PICK n \in Bad : \A m \in Bad : ~ (<<m, n>> \in OpToRel(<, Nat))
    <2>1. Bad \subseteq Nat
      OBVIOUS
    <2> HIDE DEF Bad
    <2>2. QED
      BY <1>1, <2>1, WFMin
  <1>3. n # 0 /\ n - 1 \in Nat
    OBVIOUS
  <1>4. n - 1 \in Q
    <2>1. <<n - 1, n>> \in OpToRel(<, Nat)
      BY <1>3 DEF OpToRel
    <2>2. QED
      BY <1>2, <1>3, <2>1
  <1>5. QED
    BY <1>3, <1>4

LEMMA LeastExists ==
    ASSUME NEW S \in SUBSET Nat, S # {}
    PROVE  \E n \in S : \A m \in S : n <= m
  <1>1. IsWellFoundedOn(OpToRel(<, Nat), Nat)
    BY NatLessThanWellFounded
  <1>2. PICK n \in S : \A m \in S : ~ (<<m, n>> \in OpToRel(<, Nat))
    BY <1>1, WFMin
  <1>3. ASSUME NEW m \in S PROVE n <= m
    <2>1. CASE m < n
      BY <1>2, <2>1 DEF OpToRel
    <2>2. QED
      BY <2>1
  <1>4. QED
    BY <1>3

\* Iterating a step function s from a.
Iterated(a, s, N, f) == f = [n \in 0..N |-> IF n = 0 THEN a ELSE s[f[n - 1]]]

LEMMA IterationExists ==
    ASSUME NEW a, NEW s, NEW N \in Nat
    PROVE  \E f : Iterated(a, s, N, f)
  <1> DEFINE Q == {n \in Nat : \E f : Iterated(a, s, n, f)}
  <1>1. 0 \in Q
    <2>1. Iterated(a, s, 0, [n \in 0..0 |-> a])
      BY DEF Iterated
    <2>2. QED
      BY <2>1
  <1>2. ASSUME NEW n \in Nat, n \in Q PROVE n + 1 \in Q
    <2>1. PICK f : Iterated(a, s, n, f)
      BY <1>2
    <2> DEFINE g == [i \in 0..(n + 1) |-> IF i = n + 1 THEN s[f[n]] ELSE f[i]]
    <2>2. \A i \in 0..n : f[i] = IF i = 0 THEN a ELSE s[f[i - 1]]
      BY <2>1 DEF Iterated
    <2>3. ASSUME NEW i \in 0..(n + 1) PROVE g[i] = IF i = 0 THEN a ELSE s[g[i - 1]]
      <3>1. CASE i = n + 1
        BY <3>1
      <3>2. CASE i # n + 1
        <4>1. i \in 0..n
          BY <3>2
        <4>2. i # 0 => g[i - 1] = f[i - 1]
          BY <4>1
        <4>3. QED
          BY <2>2, <3>2, <4>1, <4>2
      <3>3. QED
        BY <3>1, <3>2
    <2>4. Iterated(a, s, n + 1, g)
      BY <2>3 DEF Iterated
    <2>5. QED
      BY <2>4
  <1> HIDE DEF Q
  <1>3. N \in Q
    BY <1>1, <1>2, Induction
  <1>4. QED
    BY <1>3 DEF Q

LEMMA IterationIs ==
    ASSUME NEW a, NEW s, NEW N \in Nat, NEW f, Iterated(a, s, N, f)
    PROVE  f[0] = a /\ \A n \in 1..N : f[n] = s[f[n - 1]]
  BY DEF Iterated

------------------------------------------------------------------------------
(* TradePage.  What is read and shown is of an identity; a key counts the    *)
(* changes of identity and form, and the wallet's epoch those of the account. *)
TradeViews == (Markets \cup {Nobody}) \X (Accounts \cup {Nobody, "nothing"})
TradePages ==
    [selected : Markets \cup {Nobody}, account : Accounts \cup {Nobody},
     connecting : Accounts \cup {Nobody}, directory : Accounts \cup {Nobody, "nobody"},
     market : TradeViews, viewLive : BOOLEAN, shown : TradeViews, live : BOOLEAN,
     quote : {"none", "fresh", "expired"}, key : Nat, wallet : Nat]
TradeRun ==
    [at : {"none", "check", "approve", "approving", "execute", "sent"},
     kind : {"none", "trade", "stake", "claim", "create"}, of : TradeViews, key : Int,
     wallet : Nat, approve : BOOLEAN]
TradeTypes ==
    /\ injected \in Accounts
    /\ page \in TradePages
    /\ read \in [waits : SUBSET {"directory", "market"}, cache : SUBSET {"market"}]
    /\ run \in TradeRun

\* No read is for a market when none is selected; what was read for the identity of the
\* page is what it shows, as live.
TradeReads ==
    /\ page.selected = Nobody => "market" \notin read.waits /\ read.cache = {}
    /\ page.selected = Nobody => page.shown = Trade!NoView
    /\ page.market = Trade!Identity(page) =>
         page.shown = Trade!NoView \/ (page.shown = Trade!Identity(page) /\ page.live)
    /\ page.viewLive /\ page.selected # Nobody => page.market = Trade!Identity(page)

\* An account is connected only where there is none.
TradeConnects == page.connecting # Nobody => page.account = Nobody

\* An action bound to the page's key is of its identity; one of the page's epoch of the
\* wallet is of the page's account and, once it has been checked, of the wallet's.
TradeRuns ==
    /\ run.key <= page.key /\ run.wallet <= page.wallet
    /\ run.kind \in Trade!Bound /\ run.key = page.key => run.of = Trade!Identity(page)
    /\ run.at # "none" /\ run.wallet = page.wallet
         => run.of[2] = page.account /\ page.account # Nobody
    /\ run.at \in {"approve", "approving", "execute"} /\ run.wallet = page.wallet
         => run.of[2] = injected

TradeInv == TradeTypes /\ TradeReads /\ TradeConnects /\ TradeRuns /\ Trade!LiveViewIsOfThePage

LEMMA NoViewIsAView == Trade!NoView \in TradeViews
  BY DEF TradeViews, Trade!NoView

LEMMA TradeInit == Trade!Init => TradeInv
  <1> SUFFICES ASSUME Trade!Init PROVE TradeInv
    OBVIOUS
  <1> USE DEF Trade!Fresh
  <1>1. PICK m \in Markets \cup {Nobody} :
          /\ page = Trade!Fresh(m)
          /\ read = [waits |-> Trade!Parts(page), cache |-> Trade!Parts(page) \ {"directory"}]
    BY DEF Trade!Init
  <1>2. injected \in Accounts /\ run = Trade!NoRun
    BY DEF Trade!Init
  <1>3. TradeTypes
    <2>1. page \in TradePages
      BY <1>1, NoViewIsAView DEF TradePages
    <2>2. read \in [waits : SUBSET {"directory", "market"}, cache : SUBSET {"market"}]
      BY <1>1 DEF Trade!Parts
    <2>3. run \in TradeRun
      BY <1>2, NoViewIsAView DEF Trade!NoRun, TradeRun
    <2>4. QED
      BY <1>2, <2>1, <2>2, <2>3 DEF TradeTypes
  <1>4. TradeReads
    BY <1>1 DEF TradeReads, Trade!Parts
  <1>5. TradeConnects /\ TradeRuns
    BY <1>1, <1>2 DEF TradeConnects, TradeRuns, Trade!NoRun, Trade!Bound
  <1>6. Trade!LiveViewIsOfThePage
    BY <1>1 DEF Trade!LiveViewIsOfThePage
  <1>7. QED
    BY <1>3, <1>4, <1>5, <1>6 DEF TradeInv

LEMMA TradeNoRun ==
    Trade!NoRun \in TradeRun /\ Trade!NoRun.at = "none" /\ Trade!NoRun.kind \notin Trade!Bound
    /\ Trade!NoRun.key = 0 /\ Trade!NoRun.wallet = 0
  BY NoViewIsAView DEF TradeRun, Trade!NoRun, Trade!Bound

LEMMA TradeRekeyed ==
    ASSUME NEW p \in TradePages, NEW q, q = Trade!Rekeyed(p)
    PROVE  /\ q \in TradePages /\ q.key = p.key + 1 /\ q.wallet = p.wallet
           /\ q.selected = p.selected /\ q.account = p.account /\ q.connecting = p.connecting
           /\ q.directory = p.directory /\ q.market = p.market /\ q.viewLive = p.viewLive
           /\ q.shown = p.shown /\ q.live = p.live
  <1>1. PICK r : r = [p EXCEPT !.key = p.key + 1]
    OBVIOUS
  <1>2. q = [r EXCEPT !.quote = "none"]
    BY <1>1 DEF Trade!Rekeyed
  <1>3. /\ r \in TradePages /\ r.key = p.key + 1 /\ r.wallet = p.wallet
        /\ r.selected = p.selected /\ r.account = p.account /\ r.connecting = p.connecting
        /\ r.directory = p.directory /\ r.market = p.market /\ r.viewLive = p.viewLive
        /\ r.shown = p.shown /\ r.live = p.live
    BY <1>1 DEF TradePages
  <1>4. QED
    BY <1>2, <1>3 DEF TradePages

\* What a change of identity, or none, does to the page and its reads.
LEMMA TradeShows ==
    ASSUME TradeInv, NEW p, Trade!Shows(p),
           p \in TradePages,
           p.directory = page.directory, p.market = page.market, p.viewLive = page.viewLive,
           p.key = page.key, p.wallet >= page.wallet,
           \/ p.shown = Trade!NoView
           \/ p.shown = page.shown /\ p.live = page.live /\ p.selected = page.selected,
           p.connecting # Nobody => p.account = Nobody,
           p.account = page.account \/ page.account = Nobody \/ p.wallet > page.wallet,
           injected' \in Accounts, run' = run \/ run' = Trade!NoRun,
           injected' = injected \/ p.wallet > page.wallet
    PROVE  TradeInv'
  <1> USE DEF TradeInv
  <1>t. /\ run \in TradeRun /\ run' \in TradeRun /\ page.key \in Nat /\ page.wallet \in Nat
        /\ p.wallet \in Nat
    BY TradeNoRun DEF TradeTypes, TradePages
  \* It is enough to look at the page: an action that is still there is the same.
  <1>s. ASSUME page'.wallet = p.wallet, page'.account = p.account,
               \/ page'.key = page.key /\ Trade!Identity(page') = Trade!Identity(page)
               \/ page'.key = page.key + 1
        PROVE  TradeRuns'
    <2>1. CASE run' = Trade!NoRun
      BY <1>t, <1>s, <2>1, TradeNoRun DEF TradeRuns
    <2>2. CASE run' = run
      <3>1. run.key <= page.key /\ run.wallet <= page.wallet /\ run.key \in Int /\ run.wallet \in Nat
        BY <1>t DEF TradeRuns, TradeRun
      <3>2. run.kind \in Trade!Bound /\ run.key = page'.key
              => page'.key = page.key /\ Trade!Identity(page') = Trade!Identity(page)
        BY <1>t, <1>s, <3>1
      <3>3. run.wallet = page'.wallet => p.wallet = page.wallet /\ run.wallet = page.wallet
        BY <1>t, <1>s, <3>1
      <3>4. run'.key <= page'.key /\ run'.wallet <= page'.wallet
        BY <1>t, <1>s, <2>2, <3>1
      <3>5. run.at # "none" /\ run.wallet = page'.wallet
              => run.of[2] = p.account /\ p.account # Nobody
        BY <1>t, <3>3 DEF TradeRuns
      <3>6. run.at \in {"approve", "approving", "execute"} /\ run.wallet = page'.wallet
              => run.of[2] = injected'
        BY <1>t, <3>3 DEF TradeRuns
      <3>7. QED
        BY <1>s, <2>2, <3>2, <3>4, <3>5, <3>6 DEF TradeRuns
    <2>3. QED
      BY <2>1, <2>2
  <1>1. CASE Trade!Identity(p) = Trade!Identity(page)
    <2>1. page' = p /\ read' = read /\ p.selected = page.selected /\ p.account = page.account
      BY <1>1 DEF Trade!Shows, Trade!Identity
    <2>2. TradeTypes'
      BY <1>t, <2>1 DEF TradeTypes
    <2>3. TradeReads' /\ TradeConnects'
      BY <2>1 DEF TradeReads, TradeConnects, Trade!Identity
    <2>4. TradeRuns'
      BY <1>1, <1>s, <2>1
    <2>5. Trade!LiveViewIsOfThePage'
      BY <2>1 DEF Trade!LiveViewIsOfThePage, Trade!Identity
    <2>6. QED
      BY <2>2, <2>3, <2>4, <2>5
  <1>2. CASE Trade!Identity(p) # Trade!Identity(page)
    <2>1. /\ page' = [Trade!Rekeyed(p) EXCEPT !.market = Trade!NoView, !.viewLive = FALSE]
          /\ read' = [waits |-> Trade!Parts(p), cache |-> Trade!Parts(p) \ {"directory"}]
      BY <1>2 DEF Trade!Shows
    <2>2. /\ page' \in TradePages
          /\ page'.selected = p.selected /\ page'.account = p.account /\ page'.shown = p.shown
          /\ page'.market = Trade!NoView /\ page'.viewLive = FALSE
          /\ page'.key = page.key + 1 /\ page'.wallet = p.wallet /\ page'.connecting = p.connecting
      <3>1. PICK q : q = Trade!Rekeyed(p)
        OBVIOUS
      <3>2. page' = [q EXCEPT !.market = Trade!NoView, !.viewLive = FALSE]
        BY <2>1, <3>1
      <3>3. PICK r : r = [q EXCEPT !.market = Trade!NoView]
        OBVIOUS
      <3>4. page' = [r EXCEPT !.viewLive = FALSE]
        BY <3>2, <3>3
      <3>5. /\ q \in TradePages /\ q.selected = p.selected /\ q.account = p.account
            /\ q.shown = p.shown /\ q.key = page.key + 1 /\ q.wallet = p.wallet
            /\ q.connecting = p.connecting
        BY <3>1, TradeRekeyed
      <3>6. /\ r \in TradePages /\ r.selected = p.selected /\ r.account = p.account
            /\ r.shown = p.shown /\ r.key = page.key + 1 /\ r.wallet = p.wallet
            /\ r.connecting = p.connecting /\ r.market = Trade!NoView
        BY <3>3, <3>5, NoViewIsAView DEF TradePages
      <3>7. QED
        BY <3>4, <3>6 DEF TradePages
    <2>3. TradeTypes' /\ TradeConnects'
      BY <1>t, <2>1, <2>2 DEF TradeTypes, TradeConnects, Trade!Parts
    <2>4. TradeReads'
      <3>1. p.selected = Nobody => p.shown = Trade!NoView
        BY DEF TradeReads
      <3>2. Trade!Identity(page') = Trade!NoView => p.selected = Nobody
        BY <2>2 DEF Trade!Identity, Trade!NoView
      <3>3. QED
        BY <2>1, <2>2, <3>1, <3>2 DEF TradeReads, Trade!Parts
    <2>5. TradeRuns'
      BY <1>s, <2>2
    <2>6. Trade!LiveViewIsOfThePage'
      BY <2>2 DEF Trade!LiveViewIsOfThePage
    <2>7. QED
      BY <2>3, <2>4, <2>5, <2>6
  <1>3. QED
    BY <1>1, <1>2

LEMMA TradeEmpty ==
    ASSUME NEW p \in TradePages, NEW q, q = Trade!Empty(p)
    PROVE  /\ q \in TradePages /\ q.key = p.key /\ q.wallet = p.wallet
           /\ q.selected = p.selected /\ q.account = p.account /\ q.connecting = p.connecting
           /\ q.directory = p.directory /\ q.market = p.market /\ q.viewLive = p.viewLive
           /\ q.shown = Trade!NoView /\ q.live = FALSE
  <1>1. PICK r : r = [p EXCEPT !.shown = Trade!NoView]
    OBVIOUS
  <1>2. q = [r EXCEPT !.live = FALSE]
    BY <1>1 DEF Trade!Empty
  <1>3. /\ r \in TradePages /\ r.key = p.key /\ r.wallet = p.wallet
        /\ r.selected = p.selected /\ r.account = p.account /\ r.connecting = p.connecting
        /\ r.directory = p.directory /\ r.market = p.market /\ r.viewLive = p.viewLive
        /\ r.shown = Trade!NoView
    BY <1>1, NoViewIsAView DEF TradePages
  <1>4. QED
    BY <1>2, <1>3 DEF TradePages

\* A page on which only what is not said here has changed, with its key no smaller.
LEMMA TradeSame ==
    ASSUME TradeInv, TradeTypes', UNCHANGED injected,
           run' = run \/ run' = [run EXCEPT !.key = -1],
           read'.waits \subseteq read.waits \/ read'.waits \subseteq Trade!Parts(page),
           read'.cache \subseteq read.cache,
           page'.selected = page.selected, page'.account = page.account,
           page'.directory = page.directory, page'.market = page.market,
           page'.viewLive = page.viewLive, page'.shown = page.shown, page'.live = page.live,
           page'.connecting # Nobody => page'.account = Nobody,
           page'.key >= page.key, page'.wallet = page.wallet
    PROVE  TradeInv'
  <1> USE DEF TradeInv
  <1>1. Trade!Identity(page') = Trade!Identity(page)
    BY DEF Trade!Identity
  <1>2. TradeReads'
    BY <1>1 DEF TradeReads, TradeTypes, Trade!Parts, Trade!NoView
  <1>3. TradeRuns'
    <2>1. CASE run' = run
      <3>1. run.key \in Int /\ page.key \in Nat /\ page'.key \in Nat
        BY DEF TradeTypes, TradePages, TradeRun
      <3>2. QED
        BY <1>1, <2>1, <3>1 DEF TradeRuns
    <2>2. CASE run' = [run EXCEPT !.key = -1]
      <3>1. /\ run'.key = -1 /\ run'.at = run.at /\ run'.of = run.of /\ run'.wallet = run.wallet
            /\ run'.kind = run.kind
        BY <2>2 DEF TradeTypes, TradeRun
      <3>2. page.key >= 0 /\ page'.key # -1 /\ -1 <= page'.key
        BY DEF TradeTypes, TradePages
      <3>3. QED
        BY <1>1, <3>1, <3>2 DEF TradeRuns
    <2>3. QED
      BY <2>1, <2>2
  <1>4. Trade!LiveViewIsOfThePage' /\ TradeConnects'
    BY <1>1 DEF Trade!LiveViewIsOfThePage, Trade!NoView, TradeConnects
  <1>5. QED
    BY <1>2, <1>3, <1>4

\* A run that has got further on the same page.
LEMMA TradeGoes ==
    ASSUME TradeInv, UNCHANGED <<injected, page, read>>, TradeTypes', TradeRuns'
    PROVE  TradeInv'
  BY DEF TradeInv, TradeReads, TradeConnects, Trade!LiveViewIsOfThePage, Trade!NoView, Trade!Identity

LEMMA TradeMarkLive ==
    ASSUME NEW p \in TradePages, NEW q, q = Trade!MarkLive(p)
    PROVE  /\ q \in TradePages /\ q.key = p.key /\ q.wallet = p.wallet
           /\ q.selected = p.selected /\ q.account = p.account /\ q.connecting = p.connecting
           /\ q.directory = p.directory /\ q.market = p.market
           /\ q.shown = p.shown /\ q.live = p.live
           /\ q.viewLive => /\ p.directory = p.account
                            /\ p.selected # Nobody => p.market = Trade!Identity(p)
  BY DEF Trade!MarkLive, TradePages

\* A read has answered: the page is of the same identity, and its view is live if both
\* the directory and the market are of that identity.
LEMMA TradeAnswered ==
    ASSUME TradeInv, NEW p \in TradePages,
           p.selected = page.selected, p.account = page.account,
           p.key = page.key, p.wallet = page.wallet, p.connecting = page.connecting,
           \/ p.market = page.market /\ p.shown = page.shown /\ p.live = page.live
           \/ p.market = Trade!Identity(page) /\ p.shown = Trade!Identity(page) /\ p.live
              /\ p.selected # Nobody,
           page' = Trade!MarkLive(p) \/ page' = Trade!Rekeyed(Trade!MarkLive(p)),
           NEW part, Trade!Got(part), UNCHANGED <<injected, run>>
    PROVE  TradeInv'
  <1>1. PICK q : q = Trade!MarkLive(p)
    OBVIOUS
  <1>2. /\ q \in TradePages /\ q.key = page.key /\ q.wallet = page.wallet
        /\ q.selected = page.selected /\ q.account = page.account /\ q.connecting = page.connecting
        /\ q.directory = p.directory /\ q.market = p.market
        /\ q.shown = p.shown /\ q.live = p.live
        /\ q.viewLive => /\ p.directory = p.account
                         /\ p.selected # Nobody => p.market = Trade!Identity(p)
    BY <1>1, TradeMarkLive
  <1>3. /\ page' \in TradePages /\ page'.key \in {page.key, page.key + 1} /\ page'.wallet = page.wallet
        /\ page'.selected = page.selected /\ page'.account = page.account
        /\ page'.connecting = page.connecting
        /\ page'.directory = p.directory /\ page'.market = p.market
        /\ page'.shown = p.shown /\ page'.live = p.live
        /\ page'.viewLive => /\ p.directory = p.account
                             /\ p.selected # Nobody => p.market = Trade!Identity(p)
    <2>1. CASE page' = q
      BY <1>2, <2>1
    <2>2. CASE page' = Trade!Rekeyed(q)
      BY <1>2, <2>2, TradeRekeyed
    <2>3. QED
      BY <1>1, <2>1, <2>2
  <1>4. /\ read' \in [waits : SUBSET {"directory", "market"}, cache : SUBSET {"market"}]
        /\ read'.waits \subseteq read.waits /\ read'.cache = read.cache
    BY DEF Trade!Got, TradeInv, TradeTypes
  <1>5. TradeTypes'
    BY <1>3, <1>4 DEF TradeInv, TradeTypes
  <1>6. /\ Trade!Identity(page') = Trade!Identity(page) /\ Trade!Identity(p) = Trade!Identity(page)
        /\ p.market = Trade!Identity(page) => p.shown = Trade!NoView \/ (p.shown = Trade!Identity(page) /\ p.live)
        /\ page.selected = Nobody => p.shown = Trade!NoView
    BY <1>3 DEF TradeInv, TradeReads, Trade!Identity
  <1>7. TradeReads'
    BY <1>3, <1>4, <1>6 DEF TradeInv, TradeReads, Trade!NoView
  <1>8. TradeRuns' /\ TradeConnects'
    <2>1. run.key \in Int /\ page.key \in Nat
      BY DEF TradeInv, TradeTypes, TradePages, TradeRun
    <2>2. QED
      BY <1>3, <1>6, <2>1 DEF TradeInv, TradeRuns, TradeConnects
  <1>9. Trade!LiveViewIsOfThePage'
    BY <1>3, <1>6 DEF Trade!LiveViewIsOfThePage, Trade!NoView
  <1>10. QED
    BY <1>5, <1>7, <1>8, <1>9 DEF TradeInv

LEMMA TradeStep == TradeInv /\ [Trade!Next]_(Trade!vars) => TradeInv'
  <1> SUFFICES ASSUME TradeInv, [Trade!Next]_(Trade!vars) PROVE TradeInv'
    OBVIOUS
  <1>t. page \in TradePages /\ run \in TradeRun /\ injected \in Accounts
    BY DEF TradeInv, TradeTypes
  <1>r. read \in [waits : SUBSET {"directory", "market"}, cache : SUBSET {"market"}]
    BY DEF TradeInv, TradeTypes
  <1>1. ASSUME NEW m \in Markets \cup {Nobody},
               Trade!Choose(m) \/ Trade!Back(m) \/ Trade!Created(m)
        PROVE  TradeInv'
    <2>1. PICK r : r = [page EXCEPT !.selected = m]
      OBVIOUS
    <2>2. PICK p : p = Trade!Empty(r)
      OBVIOUS
    <2>3. Trade!Shows(p) /\ UNCHANGED injected /\ (run' = run \/ run' = Trade!NoRun)
      BY <1>1, <2>1, <2>2 DEF Trade!Choose, Trade!Back, Trade!Created
    <2>4. r \in TradePages /\ r.directory = page.directory /\ r.market = page.market
          /\ r.viewLive = page.viewLive /\ r.key = page.key /\ r.wallet = page.wallet
          /\ r.account = page.account /\ r.connecting = page.connecting
      BY <1>t, <2>1 DEF TradePages
    <2>5. p \in TradePages /\ p.directory = page.directory /\ p.market = page.market
          /\ p.viewLive = page.viewLive /\ p.key = page.key /\ p.wallet = page.wallet
          /\ p.account = page.account /\ p.connecting = page.connecting
          /\ p.shown = Trade!NoView
      BY <2>2, <2>4, TradeEmpty
    <2>6. p.wallet >= page.wallet /\ (p.connecting # Nobody => p.account = Nobody)
      BY <1>t, <2>5 DEF TradePages, TradeInv, TradeConnects
    <2>7. QED
      BY <1>t, <2>3, <2>5, <2>6, TradeShows
  <1>2. CASE Trade!Edit
    <2>1. page' = Trade!Rekeyed(page) /\ UNCHANGED <<injected, read, run>>
      BY <1>2 DEF Trade!Edit
    <2>2. TradeTypes'
      BY <1>t, <2>1, TradeRekeyed DEF TradeInv, TradeTypes
    <2>3. page'.key >= page.key /\ (page'.connecting # Nobody => page'.account = Nobody)
      BY <1>t, <2>1, TradeRekeyed DEF TradePages, TradeInv, TradeConnects
    <2>4. QED
      BY <1>t, <2>1, <2>2, <2>3, TradeRekeyed, TradeSame
  <1>3. ASSUME NEW a \in Accounts, Trade!AccountChanged(a)
        PROVE  TradeInv'
    <2>1. PICK r0 : r0 = [page EXCEPT !.account = Nobody]
      OBVIOUS
    <2>2. PICK r : r = [r0 EXCEPT !.wallet = @ + 1]
      OBVIOUS
    <2>3. PICK p : p = Trade!Empty(r)
      OBVIOUS
    <2>4. /\ r0 \in TradePages /\ r0.directory = page.directory /\ r0.market = page.market
          /\ r0.viewLive = page.viewLive /\ r0.key = page.key /\ r0.wallet = page.wallet
          /\ r0.selected = page.selected /\ r0.account = Nobody
          /\ r0.connecting = page.connecting
      BY <1>t, <2>1 DEF TradePages
    <2>5. /\ r \in TradePages /\ r.directory = page.directory /\ r.market = page.market
          /\ r.viewLive = page.viewLive /\ r.key = page.key /\ r.wallet = page.wallet + 1
          /\ r.selected = page.selected /\ r.account = Nobody
      BY <2>2, <2>4 DEF TradePages
    <2>6. /\ p \in TradePages /\ p.directory = page.directory /\ p.market = page.market
          /\ p.viewLive = page.viewLive /\ p.key = page.key /\ p.wallet = page.wallet + 1
          /\ p.selected = page.selected /\ p.account = Nobody /\ p.shown = Trade!NoView
      BY <2>3, <2>5, TradeEmpty
    <2>7. /\ a # injected /\ injected' = a /\ UNCHANGED run
          /\ IF page.account # Nobody THEN Trade!Shows(p)
             ELSE page' = Trade!Rekeyed(p) /\ read' = [read EXCEPT !.waits = {}]
      <3>1. p = Trade!Empty([page EXCEPT !.account = Nobody, !.wallet = @ + 1])
        BY <2>1, <2>2, <2>3
      <3>2. QED
        BY <1>3, <3>1 DEF Trade!AccountChanged
    <2>8. page.wallet \in Nat /\ page.key \in Nat
      BY <1>t DEF TradePages
    <2>9. CASE page.account # Nobody
      <3>1. p.wallet > page.wallet /\ p.wallet >= page.wallet /\ injected' \in Accounts
        BY <2>6, <2>7, <2>8
      <3>2. QED
        BY <2>6, <2>7, <2>9, <3>1, TradeShows
    <2>10. CASE page.account = Nobody
      <3>1. page' = Trade!Rekeyed(p) /\ read' = [read EXCEPT !.waits = {}]
        BY <2>7, <2>10
      <3>2. /\ page' \in TradePages /\ page'.directory = page.directory /\ page'.market = page.market
            /\ page'.viewLive = page.viewLive /\ page'.key = page.key + 1
            /\ page'.wallet = page.wallet + 1 /\ page'.selected = page.selected
            /\ page'.account = page.account /\ page'.shown = Trade!NoView
        BY <2>6, <2>10, <3>1, TradeRekeyed
      <3>3. read'.waits = {} /\ read'.cache = read.cache
            /\ read' \in [waits : SUBSET {"directory", "market"}, cache : SUBSET {"market"}]
        BY <1>r, <3>1
      <3>4. TradeTypes'
        BY <2>7, <3>2, <3>3 DEF TradeInv, TradeTypes
      <3>5. TradeReads'
        BY <3>2, <3>3 DEF TradeInv, TradeReads, Trade!NoView, Trade!Identity
      <3>6. TradeRuns' /\ TradeConnects'
        <4>1. /\ run' = run /\ run.key \in Int /\ run.wallet \in Nat
              /\ run.key <= page.key /\ run.wallet <= page.wallet
          BY <1>t, <2>7 DEF TradeInv, TradeRuns, TradeRun
        <4>2. /\ run'.key < page'.key /\ run'.wallet < page'.wallet
              /\ run'.key # page'.key /\ run'.wallet # page'.wallet
          BY <2>8, <3>2, <4>1
        <4>3. QED
          BY <2>8, <2>10, <3>2, <4>1, <4>2 DEF TradeRuns, TradeConnects
      <3>7. Trade!LiveViewIsOfThePage'
        BY <3>2 DEF TradeInv, Trade!LiveViewIsOfThePage, Trade!NoView
      <3>8. QED
        BY <3>4, <3>5, <3>6, <3>7 DEF TradeInv
    <2>11. QED
      BY <2>9, <2>10
  <1>4. CASE Trade!Connect
    <2>1. /\ page' = [page EXCEPT !.connecting = injected] /\ page.account = Nobody
          /\ UNCHANGED <<injected, read, run>>
      BY <1>4 DEF Trade!Connect
    <2>2. /\ page' \in TradePages /\ page'.directory = page.directory /\ page'.market = page.market
          /\ page'.viewLive = page.viewLive /\ page'.key = page.key /\ page'.wallet = page.wallet
          /\ page'.selected = page.selected /\ page'.account = page.account
          /\ page'.shown = page.shown /\ page'.live = page.live /\ page'.key >= page.key
      BY <1>t, <2>1 DEF TradePages
    <2>3. TradeTypes' /\ (page'.connecting # Nobody => page'.account = Nobody)
      BY <2>1, <2>2 DEF TradeInv, TradeTypes
    <2>4. QED
      BY <2>1, <2>2, <2>3, TradeSame
  <1>5. CASE Trade!Connected
    <2>1. PICK r : r = [page EXCEPT !.account = page.connecting]
      OBVIOUS
    <2>2. PICK p : p = [r EXCEPT !.connecting = Nobody]
      OBVIOUS
    <2>3. /\ r \in TradePages /\ r.directory = page.directory /\ r.market = page.market
          /\ r.viewLive = page.viewLive /\ r.key = page.key /\ r.wallet = page.wallet
          /\ r.shown = page.shown /\ r.live = page.live /\ r.selected = page.selected
          /\ page.account = Nobody
      BY <1>5, <1>t, <2>1 DEF TradePages, Trade!Connected, TradeInv, TradeConnects
    <2>4. /\ p \in TradePages /\ p.directory = page.directory /\ p.market = page.market
          /\ p.viewLive = page.viewLive /\ p.key = page.key /\ p.wallet = page.wallet
          /\ p.shown = page.shown /\ p.live = page.live /\ p.selected = page.selected
          /\ p.wallet >= page.wallet /\ p.connecting = Nobody
      BY <1>t, <2>2, <2>3 DEF TradePages
    <2>5. Trade!Shows(p) /\ UNCHANGED <<injected, run>>
      <3>1. p = [page EXCEPT !.account = page.connecting, !.connecting = Nobody]
        BY <2>1, <2>2
      <3>2. QED
        BY <1>5, <3>1 DEF Trade!Connected
    <2>6. injected' \in Accounts /\ injected' = injected /\ run' = run /\ page.account = Nobody
      BY <1>t, <2>3, <2>5
    <2>7. QED
      BY <2>4, <2>5, <2>6, TradeShows
  <1>6. CASE Trade!DirectoryRead
    <2>1. PICK r : r = [page EXCEPT !.directory = page.account]
      OBVIOUS
    <2>2. page' = Trade!MarkLive(r) /\ Trade!Got("directory") /\ UNCHANGED <<injected, run>>
      BY <1>6, <2>1 DEF Trade!DirectoryRead
    <2>3. /\ r \in TradePages /\ r.directory = page.account /\ r.market = page.market
          /\ r.key = page.key /\ r.wallet = page.wallet /\ r.account = page.account
          /\ r.connecting = page.connecting /\ r.shown = page.shown /\ r.live = page.live /\ r.selected = page.selected
      BY <1>t, <2>1 DEF TradePages
    <2>4. QED
      BY <2>2, <2>3, TradeAnswered
  <1>7. CASE Trade!MarketRead
    <2>1. PICK r0 : r0 = [page EXCEPT !.shown = Trade!Identity(page)]
      OBVIOUS
    <2>2. PICK r1 : r1 = [r0 EXCEPT !.live = TRUE]
      OBVIOUS
    <2>3. PICK r : r = [r1 EXCEPT !.market = Trade!Identity(page)]
      OBVIOUS
    <2>4. Trade!Identity(page) \in TradeViews
      BY <1>t DEF Trade!Identity, TradeViews, TradePages
    <2>5. /\ r0 \in TradePages /\ r0.key = page.key /\ r0.wallet = page.wallet
          /\ r0.selected = page.selected /\ r0.account = page.account
          /\ r0.connecting = page.connecting /\ r0.shown = Trade!Identity(page)
      BY <1>t, <2>1, <2>4 DEF TradePages
    <2>6. /\ r1 \in TradePages /\ r1.key = page.key /\ r1.wallet = page.wallet
          /\ r1.selected = page.selected /\ r1.account = page.account
          /\ r1.connecting = page.connecting /\ r1.shown = Trade!Identity(page) /\ r1.live
      BY <2>2, <2>5 DEF TradePages
    <2>7. /\ r \in TradePages /\ r.key = page.key /\ r.wallet = page.wallet
          /\ r.selected = page.selected /\ r.account = page.account
          /\ r.connecting = page.connecting /\ r.shown = Trade!Identity(page) /\ r.live /\ r.market = Trade!Identity(page)
      BY <2>3, <2>4, <2>6 DEF TradePages
    <2>8. /\ page' = Trade!MarkLive(r) \/ page' = Trade!Rekeyed(Trade!MarkLive(r))
          /\ Trade!Got("market") /\ UNCHANGED <<injected, run>> /\ "market" \in read.waits
      <3>1. r = [page EXCEPT !.shown = Trade!Identity(page), !.live = TRUE, !.market = Trade!Identity(page)]
        BY <2>1, <2>2, <2>3
      <3>2. QED
        BY <1>7, <3>1 DEF Trade!MarketRead
    <2>9. page.selected # Nobody
      BY <2>8 DEF TradeInv, TradeReads
    <2>10. QED
      BY <2>7, <2>8, <2>9, TradeAnswered
  <1>8. ASSUME NEW part \in {"directory", "market"}, Trade!ReadFails(part)
        PROVE  TradeInv'
    <2>1. UNCHANGED <<injected, page, run>> /\ read' = [read EXCEPT !.waits = @ \ {part}]
      BY <1>8 DEF Trade!ReadFails, Trade!Got
    <2>2. /\ read' \in [waits : SUBSET {"directory", "market"}, cache : SUBSET {"market"}]
          /\ read'.waits \subseteq read.waits /\ read'.cache = read.cache
      BY <1>r, <2>1
    <2>3. TradeTypes' /\ page'.key >= page.key /\ (page'.connecting # Nobody => page'.account = Nobody)
      BY <1>t, <2>1, <2>2 DEF TradeInv, TradeTypes, TradePages, TradeConnects
    <2>4. QED
      BY <2>1, <2>2, <2>3, TradeSame
  <1>9. CASE Trade!CacheAnswers
    <2>1. UNCHANGED <<injected, run>> /\ read' = [read EXCEPT !.cache = {}] /\ read.cache # {}
      BY <1>9 DEF Trade!CacheAnswers
    <2>2. /\ read' \in [waits : SUBSET {"directory", "market"}, cache : SUBSET {"market"}]
          /\ read'.waits = read.waits /\ read'.cache = {}
      BY <1>r, <2>1
    <2>3. CASE page' = page
      <3>1. TradeTypes' /\ page'.key >= page.key /\ (page'.connecting # Nobody => page'.account = Nobody)
        BY <1>t, <2>1, <2>2, <2>3 DEF TradeInv, TradeTypes, TradePages, TradeConnects
      <3>2. QED
        BY <2>1, <2>2, <2>3, <3>1, TradeSame
    <2>4. CASE page' # page
      <3>1. /\ page.market # Trade!Identity(page)
            /\ page' = [page EXCEPT !.shown = Trade!Identity(page), !.live = FALSE]
        BY <1>9, <2>4 DEF Trade!CacheAnswers
      <3>2. PICK r : r = [page EXCEPT !.shown = Trade!Identity(page)]
        OBVIOUS
      <3>3. page' = [r EXCEPT !.live = FALSE]
        BY <3>1, <3>2
      <3>4. Trade!Identity(page) \in TradeViews
        BY <1>t DEF Trade!Identity, TradeViews, TradePages
      <3>5. /\ r \in TradePages /\ r.key = page.key /\ r.wallet = page.wallet
            /\ r.selected = page.selected /\ r.account = page.account /\ r.market = page.market
            /\ r.connecting = page.connecting /\ r.directory = page.directory /\ r.viewLive = page.viewLive
        BY <1>t, <3>2, <3>4 DEF TradePages
      <3>6. /\ page' \in TradePages /\ page'.key = page.key /\ page'.wallet = page.wallet
            /\ page'.selected = page.selected /\ page'.account = page.account
            /\ page'.market = page.market /\ page'.connecting = page.connecting
            /\ page'.directory = page.directory /\ page'.viewLive = page.viewLive
        BY <3>3, <3>5 DEF TradePages
      <3>7. Trade!Identity(page') = Trade!Identity(page)
        BY <3>6 DEF Trade!Identity
      <3>8. page.selected # Nobody /\ ~page.viewLive
        BY <2>1, <3>1 DEF TradeInv, TradeReads
      <3>9. TradeTypes'
        BY <2>1, <2>2, <3>6 DEF TradeInv, TradeTypes
      <3>10. TradeReads'
        BY <2>2, <3>1, <3>6, <3>7, <3>8 DEF TradeInv, TradeReads
      <3>11. TradeRuns' /\ TradeConnects'
        BY <2>1, <3>6, <3>7 DEF TradeInv, TradeRuns, TradeConnects
      <3>12. Trade!LiveViewIsOfThePage'
        BY <3>6, <3>8 DEF Trade!LiveViewIsOfThePage
      <3>13. QED
        BY <3>9, <3>10, <3>11, <3>12 DEF TradeInv
    <2>5. QED
      BY <2>3, <2>4
  <1>10. CASE Trade!Poll
    <2>1. UNCHANGED <<injected, page, run>> /\ read' = [read EXCEPT !.waits = Trade!Parts(page)]
      BY <1>10 DEF Trade!Poll
    <2>2. /\ read' \in [waits : SUBSET {"directory", "market"}, cache : SUBSET {"market"}]
          /\ read'.waits = Trade!Parts(page) /\ read'.cache = read.cache
      BY <1>r, <2>1 DEF Trade!Parts
    <2>3. TradeTypes' /\ page'.key >= page.key /\ (page'.connecting # Nobody => page'.account = Nobody)
      BY <1>t, <2>1, <2>2 DEF TradeInv, TradeTypes, TradePages, TradeConnects
    <2>4. QED
      BY <2>1, <2>2, <2>3, TradeSame
  <1>11. CASE Trade!QuoteAnswers \/ Trade!QuoteExpires \/ Trade!StakeExpires
    <2>1. /\ \/ page' = page \/ page' = [page EXCEPT !.quote = "fresh"]
             \/ page' = [page EXCEPT !.quote = "expired"]
          /\ run' = run \/ run' = [run EXCEPT !.key = -1]
          /\ UNCHANGED <<injected, read>>
      BY <1>11 DEF Trade!QuoteAnswers, Trade!QuoteExpires, Trade!StakeExpires
    <2>2. /\ page' \in TradePages /\ page'.directory = page.directory /\ page'.market = page.market
          /\ page'.viewLive = page.viewLive /\ page'.key = page.key /\ page'.wallet = page.wallet
          /\ page'.selected = page.selected /\ page'.account = page.account
          /\ page'.shown = page.shown /\ page'.live = page.live /\ page'.key >= page.key
          /\ page'.connecting = page.connecting
      <3>0. CASE page' = page
        BY <1>t, <3>0 DEF TradePages
      <3>1. CASE page' = [page EXCEPT !.quote = "fresh"]
        BY <1>t, <3>1 DEF TradePages
      <3>2. CASE page' = [page EXCEPT !.quote = "expired"]
        BY <1>t, <3>2 DEF TradePages
      <3>3. QED
        BY <2>1, <3>0, <3>1, <3>2
    <2>3. run' \in TradeRun
      BY <1>t, <2>1 DEF TradeRun
    <2>4. TradeTypes' /\ (page'.connecting # Nobody => page'.account = Nobody)
      BY <1>t, <2>1, <2>2, <2>3 DEF TradeInv, TradeTypes, TradeConnects
    <2>5. QED
      BY <2>1, <2>2, <2>4, TradeSame
  <1>12. ASSUME NEW kind \in {"trade", "stake", "claim", "create"}, NEW of, NEW approve \in BOOLEAN,
                of = Trade!Identity(page), Trade!Starts(kind, of, approve)
         PROVE  TradeInv'
    <2>1. PICK key : key = IF kind \in Trade!Bound THEN page.key ELSE 0
      OBVIOUS
    <2>2. /\ run' = [at |-> "check", kind |-> kind, of |-> of, wallet |-> page.wallet, key |-> key,
                     approve |-> approve]
          /\ page.account # Nobody /\ UNCHANGED <<injected, page, read>>
      BY <1>12, <2>1 DEF Trade!Starts
    <2>3. key \in Int /\ key <= page.key /\ of \in TradeViews /\ of[2] = page.account
      BY <1>12, <1>t, <2>1 DEF TradePages, TradeViews, Trade!Identity
    <2>4. TradeTypes'
      BY <1>t, <2>2, <2>3 DEF TradeInv, TradeTypes, TradeRun, TradePages
    <2>5. TradeRuns'
      BY <1>12, <1>t, <2>2, <2>3 DEF TradeRuns, TradePages, Trade!Identity
    <2>6. QED
      BY <2>2, <2>4, <2>5, TradeGoes
  <1>12c. Trade!CanAct => page.shown = Trade!Identity(page)
    BY DEF Trade!CanAct, TradeInv, Trade!LiveViewIsOfThePage
  <1>12a. ASSUME NEW kind \in Trade!Bound, NEW approve \in BOOLEAN, Trade!Spend(kind, approve)
         PROVE  TradeInv'
    BY <1>12, <1>12a, <1>12c DEF Trade!Spend, Trade!Bound
  <1>12b. CASE Trade!Claim \/ Trade!Create
    BY <1>12, <1>12b, <1>12c DEF Trade!Claim, Trade!Create
  <1>13. CASE Trade!Checked \/ Trade!AskApproval \/ Trade!Approved \/ Trade!AskBusiness
    <2>1. PICK step \in {"approve", "approving", "execute", "sent"} : Trade!Goes(step)
      BY <1>13 DEF Trade!Checked, Trade!AskApproval, Trade!Approved, Trade!AskBusiness
    <2>2. /\ run' \in TradeRun /\ run'.at = step /\ run'.of = run.of /\ run'.key = run.key
          /\ run'.wallet = run.wallet /\ run'.kind = run.kind /\ UNCHANGED <<injected, page, read>>
      BY <1>t, <2>1 DEF Trade!Goes, TradeRun
    <2>3. run.at # "none"
      BY <1>13 DEF Trade!Checked, Trade!AskApproval, Trade!Approved, Trade!AskBusiness
    <2>4. run'.at \in {"approve", "approving", "execute"} /\ run.wallet = page.wallet
            => run.of[2] = injected
      BY <1>13, <2>1, <2>2 DEF Trade!Checked, Trade!AskApproval, Trade!Approved, Trade!AskBusiness,
         Trade!SameSigner, TradeInv, TradeRuns
    <2>5. TradeRuns'
      BY <2>2, <2>3, <2>4 DEF TradeInv, TradeRuns, Trade!Identity
    <2>6. TradeTypes'
      BY <1>t, <2>2 DEF TradeInv, TradeTypes
    <2>7. QED
      BY <2>2, <2>5, <2>6, TradeGoes
  <1>14. CASE Trade!ActionEnds
    <2>1. run' = Trade!NoRun /\ UNCHANGED <<injected, page, read>>
      BY <1>14 DEF Trade!ActionEnds
    <2>2. run' \in TradeRun
      BY <2>1, TradeNoRun
    <2>3. TradeTypes'
      BY <2>1, <2>2 DEF TradeInv, TradeTypes
    <2>4. TradeRuns'
      BY <1>t, <2>1, TradeNoRun DEF TradeRuns, TradePages
    <2>5. QED
      BY <2>1, <2>3, <2>4, TradeGoes
  <1>15. CASE Trade!Confirmed
    <2>1. /\ run' = Trade!NoRun /\ page' = Trade!Rekeyed(page) /\ UNCHANGED injected
          /\ read' = [read EXCEPT !.waits = Trade!Parts(page)] \/ read' = read
      BY <1>15 DEF Trade!Confirmed
    <2>2. /\ read' \in [waits : SUBSET {"directory", "market"}, cache : SUBSET {"market"}]
          /\ read'.waits = Trade!Parts(page) \/ read'.waits = read.waits
          /\ read'.cache = read.cache
      BY <1>r, <2>1 DEF Trade!Parts
    <2>3. /\ page' \in TradePages /\ page'.directory = page.directory /\ page'.market = page.market
          /\ page'.viewLive = page.viewLive /\ page'.key = page.key + 1 /\ page'.wallet = page.wallet
          /\ page'.selected = page.selected /\ page'.account = page.account
          /\ page'.shown = page.shown /\ page'.live = page.live /\ page'.connecting = page.connecting
      BY <1>t, <2>1, TradeRekeyed
    <2>4. Trade!Identity(page') = Trade!Identity(page)
      BY <2>3 DEF Trade!Identity
    <2>5. run' \in TradeRun
      BY <2>1, TradeNoRun
    <2>6. TradeTypes'
      BY <2>1, <2>2, <2>3, <2>5 DEF TradeInv, TradeTypes
    <2>7. TradeReads'
      BY <2>2, <2>3, <2>4 DEF TradeInv, TradeReads, Trade!NoView, Trade!Parts
    <2>8. TradeRuns' /\ TradeConnects'
      BY <2>1, <2>3, TradeNoRun DEF TradeRuns, TradePages, TradeInv, TradeConnects
    <2>9. Trade!LiveViewIsOfThePage'
      BY <2>3, <2>4 DEF TradeInv, Trade!LiveViewIsOfThePage, Trade!NoView
    <2>10. QED
      BY <2>6, <2>7, <2>8, <2>9 DEF TradeInv
  <1>16. CASE UNCHANGED Trade!vars
    BY <1>16 DEF Trade!vars, TradeInv, TradeTypes, TradeReads, TradeConnects, TradeRuns,
       Trade!LiveViewIsOfThePage, Trade!Identity, Trade!NoRun, Trade!NoView
  <1>17. QED
    BY <1>1, <1>2, <1>3, <1>4, <1>5, <1>6, <1>7, <1>8, <1>9, <1>10, <1>11, <1>12a, <1>12b, <1>13,
       <1>14, <1>15, <1>16 DEF Trade!Next

\* What is asked of the wallet.
LEMMA TradeAsks == TradeInv /\ [Trade!Next]_(Trade!vars) => Trade!AsksAsShown
  <1> SUFFICES ASSUME TradeInv, [Trade!Next]_(Trade!vars), run.at = "execute", run'.at = "sent"
               PROVE  /\ run.of[2] = page.account /\ page.account = injected
                      /\ run.kind \in Trade!Bound => run.of = Trade!Identity(page)
    BY DEF Trade!AsksAsShown
  <1>t. page \in TradePages /\ run \in TradeRun
    BY DEF TradeInv, TradeTypes
  <1>1. Trade!AskBusiness
    <2>1. CASE run' = run \/ run' = [run EXCEPT !.key = -1]
      BY <1>t, <2>1 DEF TradeRun
    <2>2. CASE run' = Trade!NoRun
      BY <2>2 DEF Trade!NoRun
    <2>3. ASSUME NEW step \in {"approve", "approving", "execute"}, Trade!Goes(step)
          PROVE  FALSE
      BY <1>t, <2>3 DEF Trade!Goes, TradeRun
    <2>4. ASSUME NEW kind, NEW of, NEW approve, Trade!Starts(kind, of, approve)
          PROVE  FALSE
      BY <2>4 DEF Trade!Starts
    <2>5. QED
      BY <2>1, <2>2, <2>3, <2>4 DEF Trade!Next, Trade!vars, Trade!Choose, Trade!Back, Trade!Edit,
         Trade!Connect, Trade!Connected, Trade!AccountChanged, Trade!DirectoryRead, Trade!MarketRead,
         Trade!CacheAnswers, Trade!Poll, Trade!ReadFails, Trade!QuoteAnswers, Trade!QuoteExpires,
         Trade!StakeExpires, Trade!Spend, Trade!Claim, Trade!Create, Trade!Checked, Trade!AskApproval,
         Trade!Approved, Trade!ActionEnds, Trade!Confirmed, Trade!Created
  <1>2. run.wallet = page.wallet /\ (run.kind \in Trade!Bound => run.key = page.key)
    BY <1>1 DEF Trade!AskBusiness, Trade!Valid
  <1>3. QED
    BY <1>2 DEF TradeInv, TradeRuns

------------------------------------------------------------------------------
(* CreatePage.  The hash on the page is of what its credential attests, and  *)
(* what runs has taken both from the page at one moment.                     *)
CreateShapes ==
    /\ page = [form |-> page.form, account |-> page.account, verification |-> page.verification,
               hash |-> page.hash]
    /\ run = [at |-> run.at, account |-> run.account, params |-> run.params,
              credential |-> run.credential, hash |-> run.hash]
HashIsAttested ==
    /\ page.verification # Create!NoCredential => page.hash = page.verification.params
    /\ run.at = "attest" => run.params = run.credential.params
    /\ run.at = "create" => run.hash = run.credential.params
CreateInv == CreateShapes /\ HashIsAttested /\ Create!SentAsAttested

LEMMA CreateInit == Create!Init => CreateInv
  BY DEF Create!Init, CreateInv, CreateShapes, HashIsAttested, Create!SentAsAttested, Create!NoRun,
     Create!NoCredential

LEMMA CreateStep == CreateInv /\ [Create!Next]_(Create!vars) => CreateInv'
  <1> SUFFICES ASSUME CreateInv, [Create!Next]_(Create!vars) PROVE CreateInv'
    OBVIOUS
  <1> USE DEF CreateInv, CreateShapes, HashIsAttested, Create!SentAsAttested
  <1>1. ASSUME NEW c \in Contents, Create!Edit(c) PROVE CreateInv'
    BY <1>1 DEF Create!Edit, Create!NoCredential
  <1>2. ASSUME NEW a \in Accounts \cup {Nobody}, Create!SwitchWallet(a) PROVE CreateInv'
    BY <1>2 DEF Create!SwitchWallet, Create!NoCredential
  <1>3. CASE Create!Reconfigure
    BY <1>3 DEF Create!Reconfigure, Create!NoCredential
  <1>4. CASE Create!VerifyX
    BY <1>4 DEF Create!VerifyX, Create!NoRun, Create!NoCredential
  <1>5. CASE Create!VerifyReads
    BY <1>5 DEF Create!VerifyReads, Create!NoCredential
  <1>6. CASE Create!VerifyAnswers
    BY <1>6 DEF Create!VerifyAnswers, Create!Ends, Create!NoRun, Create!NoCredential
  <1>7. CASE Create!Fails
    BY <1>7 DEF Create!Fails, Create!Ends, Create!NoRun, Create!NoCredential
  <1>8. CASE Create!Create
    BY <1>8 DEF Create!Create, Create!NoCredential
  <1>9. CASE Create!CreateExpired
    BY <1>9 DEF Create!CreateExpired, Create!Ends, Create!NoRun, Create!NoCredential
  <1>10. CASE Create!CreateSends
    <2>1. /\ run' = [run EXCEPT !.at = "wait", !.params = Create!Params(@)]
          /\ sent' = sent \cup {Create!Creation} /\ UNCHANGED <<topics, page>>
          /\ Create!Params(run.params) = run.credential.params
      BY <1>10 DEF Create!CreateSends
    <2>2. Create!Creation.params = Create!Creation.credential.params
      BY <2>1 DEF Create!Creation
    <2>3. Create!SentAsAttested'
      BY <2>1, <2>2
    <2>4. CreateShapes' /\ run'.at = "wait"
      BY <2>1
    <2>5. HashIsAttested'
      BY <2>1, <2>4 DEF Create!NoCredential
    <2>6. QED
      BY <2>3, <2>4, <2>5
  <1>11. CASE Create!CreateConfirmed
    BY <1>11 DEF Create!CreateConfirmed, Create!Ends, Create!NoRun, Create!NoCredential
  <1>12. ASSUME NEW t \in sent, Create!Mined(t) PROVE CreateInv'
    BY <1>12 DEF Create!Mined, Create!NoCredential
  <1>13. CASE UNCHANGED Create!vars
    BY <1>13 DEF Create!vars, Create!NoCredential
  <1>14. QED
    BY <1>1, <1>2, <1>3, <1>4, <1>5, <1>6, <1>7, <1>8, <1>9, <1>10, <1>11, <1>12, <1>13 DEF Create!Next

------------------------------------------------------------------------------
(* VaultPage: the quote is for the form. *)
PageFields == {"detail", "loading", "loadFailed", "late", "tab", "mode", "amount", "quote", "quoting", "timer",
               "quoteBusy", "busy", "failed"}
QuoteHolds ==
    /\ PageFields \subseteq DOMAIN page /\ page.amount \in Typed
    /\ page.timer \in BOOLEAN /\ page.quoteBusy \in BOOLEAN
    /\ page.quoting # Vault!NoQuote => page.quoting.amount = page.amount /\ page.quoting.mode = page.mode
    /\ ~page.timer /\ ~page.quoteBusy /\ page.quote # Vault!NoQuote
         => page.quote.amount = page.amount /\ page.quote.mode = page.mode

LEMMA BlankIsTyped == Blank \in Typed
  BY SiteAssumption DEF Vault!VaultPageAssumption

LEMMA QuoteInit == Vault!Init => QuoteHolds
  BY BlankIsTyped DEF Vault!Init, QuoteHolds, PageFields

LEMMA QuoteShows == QuoteHolds => Vault!QuoteIsForTheForm
  BY DEF QuoteHolds, Vault!QuoteIsForTheForm, Vault!QuoteShown, PageFields

LEMMA QuoteStep == QuoteHolds /\ [Vault!Next]_(Vault!vars) => QuoteHolds'
  <1> SUFFICES ASSUME QuoteHolds, [Vault!Next]_(Vault!vars) PROVE QuoteHolds'
    OBVIOUS
  <1>i. /\ PageFields \subseteq DOMAIN page /\ page.amount \in Typed
        /\ page.timer \in BOOLEAN /\ page.quoteBusy \in BOOLEAN
    BY DEF QuoteHolds
  <1>same. ASSUME page' = page PROVE QuoteHolds'
    BY <1>same DEF QuoteHolds, Vault!NoQuote
  \* What leaves the form and the quote alone.
  <1>alike. ASSUME PageFields \subseteq DOMAIN page', page'.timer = page.timer, page'.quoteBusy = page.quoteBusy,
                   page'.quoting = page.quoting, page'.quote = page.quote, page'.amount = page.amount,
                   page'.mode = page.mode
            PROVE  QuoteHolds'
    BY <1>alike DEF QuoteHolds, Vault!NoQuote
  \* What drops the quote that is being read, and starts the timer.
  <1>anew. ASSUME PageFields \subseteq DOMAIN page', page'.timer = TRUE, page'.quoteBusy = page.quoteBusy,
                  page'.quoting = Vault!NoQuote, page'.amount \in Typed
           PROVE  QuoteHolds'
    BY <1>i, <1>anew DEF QuoteHolds, Vault!NoQuote
  <1>requoted. ASSUME NEW p, PageFields \subseteq DOMAIN p, p.quoteBusy = page.quoteBusy, p.amount \in Typed,
                      page' = Vault!Requoted(p)
               PROVE  QuoteHolds'
    <2>1. PageFields \subseteq DOMAIN page' /\ page'.timer = TRUE /\ page'.quoteBusy = page.quoteBusy
          /\ page'.quoting = Vault!NoQuote /\ page'.amount \in Typed
      BY <1>requoted DEF Vault!Requoted, PageFields
    <2>2. QED
      BY <1>anew, <2>1
  <1>requotedThenRead. ASSUME NEW p, PageFields \subseteq DOMAIN p, p.quoteBusy = page.quoteBusy, p.amount \in Typed,
                      page' = Vault!ReadBegun(Vault!Requoted(p))
               PROVE  QuoteHolds'
    <2>1. PageFields \subseteq DOMAIN page' /\ page'.timer = TRUE /\ page'.quoteBusy = page.quoteBusy
          /\ page'.quoting = Vault!NoQuote /\ page'.amount \in Typed
      BY <1>requotedThenRead DEF Vault!Requoted, Vault!ReadBegun, PageFields
    <2>2. QED
      BY <1>anew, <2>1
  <1>1. ASSUME NEW i \in DOMAIN reads, Vault!ReadTopic(i) PROVE QuoteHolds'
    <2>1. page' = [page EXCEPT !.late = chain.late]
      BY <1>1 DEF Vault!ReadTopic
    <2>2. QED
      BY <1>i, <1>alike, <2>1 DEF PageFields
  <1>2. ASSUME NEW i \in DOMAIN reads, Vault!Publish(i) PROVE QuoteHolds'
    <2>1. PICK d : page' = Vault!Requoted(Vault!Ended([page EXCEPT !.detail = d], i))
      BY <1>2 DEF Vault!Publish
    <2>2. PICK p : p = Vault!Ended([page EXCEPT !.detail = d], i)
      OBVIOUS
    <2>3. PageFields \subseteq DOMAIN p /\ p.quoteBusy = page.quoteBusy /\ p.amount \in Typed
      BY <1>i, BlankIsTyped, <2>2 DEF Vault!Ended, PageFields
    <2>4. QED
      BY <1>requoted, <2>1, <2>2, <2>3
  <1>3. ASSUME NEW i \in DOMAIN reads, Vault!ReadFails(i) PROVE QuoteHolds'
    <2>1. page' = Vault!Ended([page EXCEPT !.loadFailed = TRUE], i)
      BY <1>3 DEF Vault!ReadFails
    <2>2. QED
      BY <1>i, <1>alike, <2>1 DEF Vault!Ended, PageFields
  <1>4. CASE Vault!Reload
    <2>1. page' = Vault!ReadBegun(page)
      BY <1>4 DEF Vault!Reload
    <2>2. QED
      BY <1>i, <1>alike, <2>1 DEF Vault!ReadBegun, PageFields
  <1>5. CASE Vault!QuoteTimer
    <2>1. CASE page' = [page EXCEPT !.timer = FALSE, !.quote = Vault!NoQuote, !.quoteBusy = FALSE]
      <3>1. /\ PageFields \subseteq DOMAIN page' /\ page'.timer = FALSE /\ page'.quote = Vault!NoQuote
            /\ page'.quoteBusy = FALSE /\ page'.quoting = page.quoting /\ page'.amount = page.amount
            /\ page'.mode = page.mode
        BY <1>i, <2>1 DEF PageFields
      <3>2. QED
        BY <1>i, <3>1 DEF QuoteHolds, Vault!NoQuote
    <2>2. CASE page' = [page EXCEPT !.timer = FALSE, !.quoteBusy = TRUE,
                                    !.quoting = [amount |-> page.amount, mode |-> page.mode, price |-> chain.price]]
      <3>1. PICK q : q = [amount |-> page.amount, mode |-> page.mode, price |-> chain.price]
        OBVIOUS
      <3>2. page' = [page EXCEPT !.timer = FALSE, !.quoteBusy = TRUE, !.quoting = q]
        BY <2>2, <3>1
      <3>3. /\ PageFields \subseteq DOMAIN page' /\ page'.timer = FALSE
            /\ page'.quoteBusy = TRUE /\ page'.quoting = q /\ page'.amount = page.amount
            /\ page'.mode = page.mode
        BY <1>i, <3>2 DEF PageFields
      <3>4. q.amount = page.amount /\ q.mode = page.mode
        BY <3>1
      <3>5. QED
        BY <1>i, <3>3, <3>4 DEF QuoteHolds, Vault!NoQuote
    <2>3. QED
      BY <1>5, <2>1, <2>2 DEF Vault!QuoteTimer
  <1>6. CASE Vault!QuoteAnswer
    <2>1. PICK q \in {page.quoting, Vault!NoQuote} :
            page' = [page EXCEPT !.quote = q, !.quoting = Vault!NoQuote, !.quoteBusy = FALSE]
      BY <1>6 DEF Vault!QuoteAnswer
    <2>2. page.quoting # Vault!NoQuote
      BY <1>6 DEF Vault!QuoteAnswer
    <2>3. /\ PageFields \subseteq DOMAIN page' /\ page'.timer = page.timer /\ page'.quote = q
          /\ page'.quoteBusy = FALSE /\ page'.quoting = Vault!NoQuote /\ page'.amount = page.amount
          /\ page'.mode = page.mode
      BY <1>i, <2>1 DEF PageFields
    <2>4. QED
      BY <2>1, <2>2, <2>3 DEF QuoteHolds, Vault!NoQuote
  <1>7. CASE Vault!ClockRuns
    <2>1. page' = [page EXCEPT !.late = TRUE]
      BY <1>7 DEF Vault!ClockRuns
    <2>2. QED
      BY <1>i, <1>alike, <2>1 DEF PageFields
  <1>8. ASSUME NEW a \in Typed, Vault!TypeAmount(a) PROVE QuoteHolds'
    <2>1. page' = Vault!Requoted([page EXCEPT !.amount = a])
      BY <1>8 DEF Vault!TypeAmount
    <2>2. PICK p : p = [page EXCEPT !.amount = a]
      OBVIOUS
    <2>3. PageFields \subseteq DOMAIN p /\ p.quoteBusy = page.quoteBusy /\ p.amount \in Typed
      BY <1>i, BlankIsTyped, <2>2 DEF PageFields
    <2>4. QED
      BY <1>requoted, <2>1, <2>2, <2>3
  <1>9. ASSUME NEW m \in {"BUY", "SELL"}, Vault!ChooseMode(m) PROVE QuoteHolds'
    <2>1. page' = Vault!Requoted([page EXCEPT !.mode = m])
      BY <1>9 DEF Vault!ChooseMode
    <2>2. PICK p : p = [page EXCEPT !.mode = m]
      OBVIOUS
    <2>3. PageFields \subseteq DOMAIN p /\ p.quoteBusy = page.quoteBusy /\ p.amount \in Typed
      BY <1>i, BlankIsTyped, <2>2 DEF PageFields
    <2>4. QED
      BY <1>requoted, <2>1, <2>2, <2>3
  <1>10. ASSUME NEW t \in {"PROTOCOL", "MARKET"}, Vault!ChooseTab(t) PROVE QuoteHolds'
    <2>1. page' = [page EXCEPT !.tab = t]
      BY <1>10 DEF Vault!ChooseTab
    <2>2. QED
      BY <1>i, <1>alike, <2>1 DEF PageFields
  <1>11. ASSUME NEW a \in Accounts \cup {Nobody}, Vault!SwitchWallet(a) PROVE QuoteHolds'
    <2>1. page' = Vault!ReadBegun(Vault!Requoted([page EXCEPT !.amount = Blank, !.quote = Vault!NoQuote, !.failed = FALSE]))
      BY <1>11 DEF Vault!SwitchWallet
    <2>2. PICK p : p = [page EXCEPT !.amount = Blank, !.quote = Vault!NoQuote, !.failed = FALSE]
      OBVIOUS
    <2>3. PageFields \subseteq DOMAIN p /\ p.quoteBusy = page.quoteBusy /\ p.amount \in Typed
      BY <1>i, BlankIsTyped, <2>2 DEF PageFields
    <2>4. QED
      BY <1>requotedThenRead, <2>1, <2>2, <2>3
  <1>12. ASSUME page' = [page EXCEPT !.busy = TRUE, !.failed = FALSE] PROVE QuoteHolds'
    BY <1>i, <1>alike, <1>12 DEF PageFields
  <1>13. CASE \E s \in Vault!Sides : Vault!ClickStake(s) \/ Vault!ClickTrade(s)
    BY <1>12, <1>13 DEF Vault!ClickStake, Vault!ClickTrade, Vault!Begin
  <1>14. CASE Vault!ClickFaucet \/ Vault!ClickWithdraw \/ Vault!ClickFinalize \/ Vault!ClickRedeem
    BY <1>12, <1>14 DEF Vault!ClickFaucet, Vault!ClickWithdraw, Vault!ClickFinalize, Vault!ClickRedeem, Vault!Begin
  <1>15. CASE Vault!Call
    BY <1>15, <1>same DEF Vault!Call
  <1>16. CASE Vault!CallFails
    <2>1. page' = [page EXCEPT !.failed = TRUE, !.busy = FALSE]
      BY <1>16 DEF Vault!CallFails
    <2>2. QED
      BY <1>i, <1>alike, <2>1 DEF PageFields
  <1>17. CASE Vault!Refresh
    <2>1. CASE page' = Vault!ReadBegun(page)
      BY <1>i, <1>alike, <2>1 DEF Vault!ReadBegun, PageFields
    <2>2. CASE page' = Vault!ReadBegun(Vault!Requoted([page EXCEPT !.amount = Blank]))
      <3>1. PICK p : p = [page EXCEPT !.amount = Blank]
        OBVIOUS
      <3>2. PageFields \subseteq DOMAIN p /\ p.quoteBusy = page.quoteBusy /\ p.amount \in Typed
        BY <1>i, BlankIsTyped, <3>1 DEF PageFields
      <3>3. QED
        BY <1>requotedThenRead, <2>2, <3>1, <3>2
    <2>3. QED
      BY <1>17, <2>1, <2>2 DEF Vault!Refresh
  <1>18. CASE Vault!DeadlinePasses \/ Vault!PriceMoves \/ Vault!SomebodyResolves
              \/ (\E a \in Accounts : Vault!SomebodyLeaves(a)) \/ UNCHANGED Vault!vars
    BY <1>18, <1>same DEF Vault!DeadlinePasses, Vault!PriceMoves, Vault!SomebodyResolves, Vault!SomebodyLeaves, Vault!vars
  <1>19. QED
    BY <1>1, <1>2, <1>3, <1>4, <1>5, <1>6, <1>7, <1>8, <1>9, <1>10, <1>11, <1>13, <1>14, <1>15, <1>16, <1>17, <1>18
       DEF Vault!Next

(* VaultPage: the payout that is shown. *)
Outcomes == {"YES", "NO", "INVALID", "PENDING"}
TopicFields == {"canonical", "late", "resolved", "outcome", "pool", "left", "claims", "claimed", "price", "stake", "side",
                "fees", "shares", "forVault", "forMarket"}
TopicHolds(c) ==
    /\ TopicFields \subseteq DOMAIN c
    /\ c.resolved \in BOOLEAN /\ c.outcome \in Outcomes
    /\ c.pool \in Nat /\ c.left \in Int /\ c.claims \in Int /\ c.price \in Int
    /\ c.stake \in [Accounts -> Nat] /\ c.side \in [Accounts -> Vault!Sides] /\ c.fees \in [Accounts -> Nat]
    /\ Vault!Sound(c)
\* What a topic that is resolved keeps; each claim takes one of those counted.
Kept(c, d) ==
    c.resolved => /\ d.resolved /\ d.outcome = c.outcome /\ d.pool = c.pool
                  /\ d.stake = c.stake /\ d.side = c.side
                  /\ d.claims \in Int /\ d.claims <= c.claims /\ (d.claims = c.claims => d.left = c.left)
                  /\ \A a \in Accounts : a \notin d.claimed => a \notin c.claimed /\ d.fees[a] = c.fees[a]
\* The figures of a resolved topic stay those of the chain, but for what others claim.
Figures(c, d) ==
    /\ d.of \in Accounts \cup {Nobody}
    /\ d.resolved => /\ c.resolved /\ d.outcome = c.outcome /\ d.pool = c.pool
                     /\ d.total = Vault!AllStaked(c)
                     /\ d.staked = [s \in Vault!Sides |-> Vault!Staked(c, s)]
                     /\ d.claims \in Int /\ c.claims \in Int /\ c.claims <= d.claims
                     /\ (d.claims = c.claims => d.remaining = c.left)
\* So do those of the user, until it has left.
UserHolds(c, d) ==
    d.resolved /\ d.of # Nobody /\ d.user.left = "no" /\ d.of \notin c.claimed =>
        d.user.stake = c.stake[d.of] /\ d.user.side = c.side[d.of] /\ d.user.fees = c.fees[d.of]
VaultDetails ==
    {Vault!NoDetail} \cup
    [of : Accounts \cup {Nobody}, resolved : BOOLEAN, outcome : Outcomes, total : Int,
     staked : [Vault!Sides -> Int], pool : Int, remaining : Int, claims : Int, price : Int]
VaultReads == [of : Accounts \cup {Nobody}, own : BOOLEAN, got : VaultDetails]
ReadsHold == reads \in Seq(VaultReads) /\ \A i \in 1..Len(reads) : Figures(chain, reads[i].got)
DetailHolds == PageFields \subseteq DOMAIN page /\ Figures(chain, page.detail) /\ UserHolds(chain, page.detail)
VaultCalls == {"pair", "approveVault", "stake", "clear", "refresh", "gas", "mint", "quote", "approveMarket", "buy", "sell",
               "withdraw", "resolve", "resolveIfOpen", "redeem"}
HandlerHolds(r) ==
    /\ {"op", "side", "by", "amount", "limit", "calls"} \subseteq DOMAIN r
    /\ r.side \in Vault!Sides /\ r.by \in Accounts /\ r.calls \in Seq(VaultCalls)
    /\ (\E k \in 1..Len(r.calls) : r.calls[k] = "stake") => r.amount \in Nat
VaultRunHolds == run = Vault!Idle \/ HandlerHolds(run)
PayoutHolds ==
    /\ TopicHolds(chain) /\ wallet \in Accounts \cup {Nobody}
    /\ VaultRunHolds /\ ReadsHold /\ DetailHolds

LEMMA VaultBounds ==
    /\ IsFiniteSet(Accounts) /\ Nobody \notin Accounts /\ Blank \notin Nat
    /\ Typed \subseteq Nat \cup {Blank} /\ Prices \subseteq Nat
    /\ Vault!Sides = {"YES", "NO", "INVALID"}
    /\ \A c \in Topics : TopicHolds(c)
  <1>1. /\ Vault!IsFiniteSet(Accounts) /\ Nobody \notin Accounts /\ Blank \notin Nat
        /\ Typed \subseteq Nat \cup {Blank} /\ Prices \subseteq Nat
    BY SiteAssumption DEF Vault!VaultPageAssumption
  <1>2. IsFiniteSet(Accounts)
    BY <1>1 DEF Vault!IsFiniteSet, IsFiniteSet
  <1>3. ASSUME NEW c \in Topics PROVE TopicHolds(c)
    <2>1. c \in [canonical : BOOLEAN, late : BOOLEAN, resolved : BOOLEAN, outcome : Vault!Sides \cup {"PENDING"},
           pool : Nat, left : Nat, claims : Nat, claimed : SUBSET Accounts, price : Nat,
           stake : [Accounts -> Nat], side : [Accounts -> Vault!Sides], fees : [Accounts -> Nat],
           shares : [Accounts -> [{"YES", "NO"} -> Nat]], forVault : [Accounts -> Nat],
           forMarket : [Accounts -> Nat]]
      BY SiteAssumption DEF Vault!VaultPageAssumption
    <2>2. Vault!Sound(c)
      BY SiteAssumption DEF Vault!VaultPageAssumption
    <2>3. QED
      BY <2>1, <2>2 DEF TopicHolds, TopicFields, Outcomes, Vault!Sides
  <1>4. QED
    BY <1>1, <1>2, <1>3 DEF Vault!Sides

LEMMA VaultSumIs == \A f, S : Vault!SumFunctionOnSet(f, S) = SumFunctionOnSet(f, S)
  BY DEF Vault!SumFunctionOnSet, Vault!FoldFunctionOnSet, Vault!MapThenFoldSet,
         SumFunctionOnSet, FoldFunctionOnSet, MapThenFoldSet

LEMMA StakedIsSum ==
    \A c, s : Vault!Staked(c, s) = SumFunctionOnSet(c.stake, {a \in Accounts : c.side[a] = s})
  BY VaultSumIs DEF Vault!Staked

LEMMA StakedIs ==
    ASSUME NEW c, TopicHolds(c), NEW s
    PROVE  /\ Vault!Staked(c, s) \in Nat
           /\ \A a \in Accounts : c.side[a] = s => c.stake[a] <= Vault!Staked(c, s)
  <1> DEFINE S == {a \in Accounts : c.side[a] = s}
  <1>1. IsFiniteSet(S)
    BY VaultBounds, FS_Subset
  <1>2. \A a \in S : c.stake[a] \in Nat
    BY DEF TopicHolds
  <1>3. Vault!Staked(c, s) = SumFunctionOnSet(c.stake, S)
    BY StakedIsSum
  <1>4. ASSUME NEW a \in Accounts, c.side[a] = s PROVE a \in S
    BY <1>4
  <1> HIDE DEF S
  <1>5. SumFunctionOnSet(c.stake, S) \in Nat
    BY <1>1, <1>2, SumType
  <1>6. \A a \in S : c.stake[a] <= SumFunctionOnSet(c.stake, S)
    BY <1>1, <1>2, TermAtMostSum
  <1>7. QED
    BY <1>3, <1>4, <1>5, <1>6

LEMMA FiguresKept ==
    ASSUME NEW c, NEW e, NEW d, Figures(c, d), Kept(c, e)
    PROVE  Figures(e, d)
  <1>1. ASSUME d.resolved PROVE Vault!AllStaked(e) = Vault!AllStaked(c) /\ \A s : Vault!Staked(e, s) = Vault!Staked(c, s)
    <2>1. e.stake = c.stake /\ e.side = c.side
      BY <1>1 DEF Figures, Kept
    <2>2. \A s : Vault!Staked(e, s) = Vault!Staked(c, s)
      BY <2>1 DEF Vault!Staked
    <2>3. QED
      BY <2>2 DEF Vault!AllStaked
  <1>2. ASSUME d.resolved
        PROVE  e.claims \in Int /\ e.claims <= d.claims /\ (d.claims = e.claims => d.remaining = e.left)
    <2>1. PICK x, y, z : x = e.claims /\ y = c.claims /\ z = d.claims
      OBVIOUS
    <2>2. /\ x \in Int /\ y \in Int /\ z \in Int /\ x <= y /\ y <= z
          /\ (x = y => e.left = c.left) /\ (z = y => d.remaining = c.left)
      BY <1>2, <2>1 DEF Figures, Kept
    <2>3. z = x => x = y /\ z = y
      BY <2>2
    <2>4. x <= z
      BY <2>2
    <2>5. QED
      BY <2>1, <2>2, <2>3, <2>4
  <1>3. QED
    BY <1>1, <1>2 DEF Figures, Kept

LEMMA UserKept ==
    ASSUME NEW c, NEW e, NEW d, Figures(c, d), UserHolds(c, d), Kept(c, e)
    PROVE  UserHolds(e, d)
  BY DEF Figures, UserHolds, Kept

\* Whoever is eligible has a part of a whole that is not zero.
LEMMA WholeIs ==
    ASSUME NEW c, TopicHolds(c)
    PROVE  /\ Vault!Whole(c) \in Nat
           /\ \A a \in Accounts : Vault!Eligible(c, a) => Vault!Whole(c) > 0
  <1>1. PICK y, n, i : y = Vault!Staked(c, "YES") /\ n = Vault!Staked(c, "NO") /\ i = Vault!Staked(c, "INVALID")
    OBVIOUS
  <1>2. y \in Nat /\ n \in Nat /\ i \in Nat /\ Vault!AllStaked(c) = y + n + i
    BY <1>1, StakedIs DEF Vault!AllStaked
  <1>3. PICK w : w = Vault!Whole(c)
    OBVIOUS
  <1>4. w = IF c.outcome = "INVALID" THEN Vault!AllStaked(c) ELSE Vault!Staked(c, c.outcome)
    BY <1>3 DEF Vault!Whole
  <1>5. Vault!Staked(c, c.outcome) \in Nat
    BY StakedIs
  <1>6. w \in Nat
    BY <1>2, <1>4, <1>5
  <1>7. ASSUME NEW a \in Accounts, Vault!Eligible(c, a) PROVE w > 0
    <2>1. c.stake[a] > 0 /\ c.outcome \in {"INVALID", c.side[a]}
      BY <1>7 DEF Vault!Eligible
    <2>2. c.side[a] \in {"YES", "NO", "INVALID"} /\ c.stake[a] \in Nat
      BY VaultBounds DEF TopicHolds
    <2>3. /\ c.side[a] = "YES" => c.stake[a] <= y
          /\ c.side[a] = "NO" => c.stake[a] <= n
          /\ c.side[a] = "INVALID" => c.stake[a] <= i
      BY <1>1, StakedIs
    <2>4. CASE c.outcome = "INVALID"
      BY <1>2, <1>4, <2>1, <2>2, <2>3, <2>4
    <2>5. CASE c.outcome # "INVALID"
      <3>1. c.outcome = c.side[a] /\ w = Vault!Staked(c, c.outcome)
        BY <1>4, <2>1, <2>5
      <3>2. c.stake[a] <= w
        BY <3>1, StakedIs
      <3>3. QED
        BY <1>6, <2>1, <2>2, <3>2
    <2>6. QED
      BY <2>4, <2>5
  <1>8. QED
    BY <1>3, <1>6, <1>7

LEMMA ShareIs ==
    ASSUME NEW c, TopicHolds(c), NEW a \in Accounts, Vault!Eligible(c, a)
    PROVE  Vault!Share(c, a) \in Nat /\ Vault!Share(c, a) * Vault!Whole(c) <= c.pool * c.stake[a]
  <1>1. PICK w, n, q : w = Vault!Whole(c) /\ n = c.pool * c.stake[a] /\ q = n \div w
    OBVIOUS
  <1>2. w \in Nat \ {0}
    BY <1>1, WholeIs
  <1>3. c.pool \in Nat /\ c.stake[a] \in Nat
    BY DEF TopicHolds
  <1>4. n \in Nat
    <2>1. \A u, v \in Nat : u * v \in Nat
      OBVIOUS
    <2>2. QED
      BY <1>1, <1>3, <2>1
  <1>5. q \in Nat /\ q * w <= n
    BY <1>1, <1>2, <1>4
  <1>6. Vault!Share(c, a) = q
    BY <1>1 DEF Vault!Share
  <1>7. QED
    BY <1>1, <1>5, <1>6

\* What the claimants of a resolved topic may expect: their shares.
Expected(c) == [a \in Vault!Claimants(c) |-> Vault!Share(c, a)]
LEMMA SoundIs ==
    ASSUME NEW c, TopicHolds(c), c.resolved
    PROVE  /\ IsFiniteSet(Vault!Claimants(c)) /\ Vault!Claimants(c) \subseteq Accounts
           /\ c.claims = Cardinality(Vault!Claimants(c))
           /\ SumFunctionOnSet(Expected(c), Vault!Claimants(c)) <= c.left
           /\ \A a \in Vault!Claimants(c) : Expected(c)[a] = Vault!Share(c, a) /\ Expected(c)[a] \in Nat
           /\ \A a \in Accounts : a \in Vault!Claimants(c) <=> Vault!Eligible(c, a) /\ a \notin c.claimed
  <1>1. \A a \in Accounts : a \in Vault!Claimants(c) <=> Vault!Eligible(c, a) /\ a \notin c.claimed
    BY DEF Vault!Claimants
  <1>2. Vault!Claimants(c) \subseteq Accounts
    BY DEF Vault!Claimants
  <1>3. IsFiniteSet(Vault!Claimants(c))
    BY <1>2, VaultBounds, FS_Subset
  <1>4. ASSUME NEW a \in Vault!Claimants(c) PROVE Expected(c)[a] = Vault!Share(c, a) /\ Expected(c)[a] \in Nat
    <2>1. a \in Accounts /\ Vault!Eligible(c, a)
      BY <1>1, <1>2
    <2>2. Expected(c)[a] = Vault!Share(c, a)
      BY DEF Expected
    <2>3. QED
      BY <2>1, <2>2, ShareIs
  <1>5. /\ c.claims = Vault!Cardinality(Vault!Claimants(c))
        /\ Vault!SumFunctionOnSet(Expected(c), Vault!Claimants(c)) <= c.left
    BY DEF TopicHolds, Vault!Sound, Expected
  <1>6. Vault!Cardinality(Vault!Claimants(c)) = Cardinality(Vault!Claimants(c))
    BY DEF Vault!Cardinality, Cardinality
  <1>7. Vault!SumFunctionOnSet(Expected(c), Vault!Claimants(c)) = SumFunctionOnSet(Expected(c), Vault!Claimants(c))
    BY VaultSumIs
  <1>8. QED
    BY <1>1, <1>2, <1>3, <1>4, <1>5, <1>6, <1>7

\* The same the other way round.
LEMMA SoundFrom ==
    ASSUME NEW c, c.resolved, c.claims = Cardinality(Vault!Claimants(c)),
           SumFunctionOnSet(Expected(c), Vault!Claimants(c)) <= c.left
    PROVE  Vault!Sound(c)
  <1>1. Vault!Cardinality(Vault!Claimants(c)) = Cardinality(Vault!Claimants(c))
    BY DEF Vault!Cardinality, Cardinality
  <1>2. Vault!SumFunctionOnSet(Expected(c), Vault!Claimants(c)) = SumFunctionOnSet(Expected(c), Vault!Claimants(c))
    BY VaultSumIs
  <1>3. QED
    BY <1>1, <1>2 DEF Vault!Sound, Expected

LEMMA PrincipalIs ==
    ASSUME NEW c, TopicHolds(c), NEW a \in Accounts
    PROVE  Vault!Principal(c, a) \in Int
  <1>1. c.left \in Int
    BY DEF TopicHolds
  <1>2. Vault!Eligible(c, a) => Vault!Share(c, a) \in Int
    BY ShareIs
  <1>3. QED
    BY <1>1, <1>2 DEF Vault!Principal

\* A topic whose claims are as they were is as sound.
LEMMA SoundAlike ==
    ASSUME NEW c, NEW d, Vault!Sound(c), d.resolved = c.resolved, d.outcome = c.outcome, d.pool = c.pool,
           d.left = c.left, d.claims = c.claims, d.claimed = c.claimed, d.stake = c.stake, d.side = c.side
    PROVE  Vault!Sound(d)
  <1>1. \A s : Vault!Staked(d, s) = Vault!Staked(c, s)
    BY DEF Vault!Staked
  <1>2. Vault!Whole(d) = Vault!Whole(c)
    BY <1>1 DEF Vault!Whole, Vault!AllStaked
  <1>3. \A a : Vault!Share(d, a) = Vault!Share(c, a)
    BY <1>2 DEF Vault!Share
  <1>4. Vault!Claimants(d) = Vault!Claimants(c)
    BY DEF Vault!Claimants, Vault!Eligible
  <1>5. [a \in Vault!Claimants(d) |-> Vault!Share(d, a)] = [a \in Vault!Claimants(c) |-> Vault!Share(c, a)]
    BY <1>3, <1>4
  <1>6. QED
    BY <1>4, <1>5 DEF Vault!Sound

LEMMA PayoutInit == Vault!Init => PayoutHolds
  <1> SUFFICES ASSUME Vault!Init PROVE PayoutHolds
    OBVIOUS
  <1>1. TopicHolds(chain) /\ wallet \in Accounts \cup {Nobody} /\ VaultRunHolds
    BY VaultBounds DEF Vault!Init, VaultRunHolds
  <1>2. Figures(chain, Vault!NoDetail)
    BY DEF Figures, Vault!NoDetail
  <1>3. DetailHolds
    <2>1. UserHolds(chain, Vault!NoDetail)
      <3>1. PICK d : d = Vault!NoDetail
        OBVIOUS
      <3>2. d.resolved = FALSE
        BY <3>1 DEF Vault!NoDetail
      <3>3. QED
        BY <3>1, <3>2 DEF UserHolds
    <2>2. page.detail = Vault!NoDetail /\ PageFields \subseteq DOMAIN page
      BY DEF Vault!Init, PageFields
    <2>3. QED
      BY <1>2, <2>1, <2>2 DEF DetailHolds
  <1>4. ReadsHold
    <2>1. PICK r : r = Vault!NewRead(wallet, FALSE)
      OBVIOUS
    <2>2. r \in VaultReads /\ r.got = Vault!NoDetail
      BY <1>1, <2>1 DEF Vault!NewRead, VaultReads, VaultDetails
    <2>3. reads = <<r>>
      BY <2>1 DEF Vault!Init
    <2>4. QED
      BY <1>2, <2>2, <2>3 DEF ReadsHold
  <1>5. QED
    BY <1>1, <1>3, <1>4 DEF PayoutHolds

LEMMA PayoutShows == PayoutHolds => Vault!ShownPayoutIsPaid
  <1> SUFFICES ASSUME PayoutHolds, NEW d, d = page.detail, NEW a, a = d.of, a # Nobody,
                      Vault!Withdrawable(d) > 0, a \notin chain.claimed
               PROVE  /\ Vault!CanLeave(chain, a)
                      /\ Vault!Withdrawable(d) <= Vault!PayoutOf(chain, a)
                      /\ d.claims = chain.claims => Vault!Withdrawable(d) = Vault!PayoutOf(chain, a)
    BY DEF Vault!ShownPayoutIsPaid
  <1>1. TopicHolds(chain) /\ Figures(chain, d) /\ UserHolds(chain, d)
    BY DEF PayoutHolds, DetailHolds
  <1>2. PICK mine : mine = d.user
    OBVIOUS
  <1>3. d.resolved /\ mine.stake # 0 /\ mine.left = "no"
    BY <1>2 DEF Vault!Withdrawable
  <1>4. a \in Accounts /\ chain.resolved
    BY <1>1, <1>3 DEF Figures
  <1>5. mine.stake = chain.stake[a] /\ mine.side = chain.side[a] /\ mine.fees = chain.fees[a]
    BY <1>1, <1>2, <1>3 DEF UserHolds
  <1>6. chain.stake[a] \in Nat /\ chain.fees[a] \in Nat /\ chain.side[a] \in Vault!Sides /\ chain.left \in Int
    BY <1>1, <1>4 DEF TopicHolds
  <1>7. Vault!CanLeave(chain, a)
    BY <1>3, <1>4, <1>5, <1>6 DEF Vault!CanLeave
  <1>8. PICK p, w, e : p = Vault!Principal(chain, a) /\ w = Vault!Whole(chain) /\ e = Vault!Share(chain, a)
    OBVIOUS
  <1>9. p \in Int
    BY <1>1, <1>4, <1>8, PrincipalIs
  <1>10. Vault!Eligible(chain, a) <=> d.outcome \in {"INVALID", mine.side}
    BY <1>1, <1>3, <1>5, <1>6 DEF Vault!Eligible, Figures
  <1>11. PICK x : x = IF ~(d.outcome \in {"INVALID", mine.side}) THEN 0
                      ELSE IF d.claims = 1 THEN d.remaining
                      ELSE LET whole == IF d.outcome = "INVALID" THEN d.total ELSE d.staked[d.outcome]
                           IN  IF whole > 0 THEN (d.pool * mine.stake) \div whole ELSE 0
    OBVIOUS
  <1>12. Vault!Withdrawable(d) = mine.fees + x
    BY <1>2, <1>3, <1>11 DEF Vault!Withdrawable
  <1>13. Vault!PayoutOf(chain, a) = p + chain.fees[a]
    BY <1>8 DEF Vault!PayoutOf
  <1>14. CASE ~Vault!Eligible(chain, a)
    <2>1. x = 0 /\ p = 0
      BY <1>8, <1>10, <1>11, <1>14 DEF Vault!Principal
    <2>2. QED
      BY <1>5, <1>6, <1>7, <1>12, <1>13, <2>1
  <1>15. CASE Vault!Eligible(chain, a)
    <2>1. w > 0 /\ w \in Nat /\ e \in Nat
      BY <1>1, <1>4, <1>8, <1>15, WholeIs, ShareIs
    <2>2. d.outcome = chain.outcome /\ chain.outcome \in {"INVALID", chain.side[a]} /\ d.pool = chain.pool
      BY <1>1, <1>3, <1>15 DEF Figures, Vault!Eligible
    <2>3. chain.outcome \in Vault!Sides
      BY <1>6, <2>2, VaultBounds
    <2>4. d.total = Vault!AllStaked(chain) /\ d.staked[d.outcome] = Vault!Staked(chain, chain.outcome)
      BY <1>1, <1>3, <2>2, <2>3 DEF Figures
    <2>5. (IF d.outcome = "INVALID" THEN d.total ELSE d.staked[d.outcome]) = w
      BY <1>8, <2>2, <2>4 DEF Vault!Whole
    <2>6. e = (d.pool * mine.stake) \div w
      BY <1>5, <1>8, <2>2 DEF Vault!Share
    <2>7. x = IF d.claims = 1 THEN d.remaining ELSE e
      BY <1>10, <1>11, <1>15, <2>1, <2>5, <2>6
    <2>8. p = IF chain.claims = 1 THEN chain.left ELSE e
      BY <1>8, <1>15 DEF Vault!Principal
    <2>9. a \in Vault!Claimants(chain)
      BY <1>1, <1>4, <1>15, SoundIs
    <2>10. chain.claims >= 1
      <3>1. /\ IsFiniteSet(Vault!Claimants(chain)) /\ Vault!Claimants(chain) # {}
            /\ chain.claims = Cardinality(Vault!Claimants(chain))
        BY <1>1, <1>4, <2>9, SoundIs
      <3>2. chain.claims \in Nat /\ chain.claims # 0
        BY <3>1, FS_EmptySet, FS_CardinalityType
      <3>3. QED
        BY <3>2
    <2>11. e <= chain.left
      <3>1. PICK f, S : f = Expected(chain) /\ S = Vault!Claimants(chain)
        OBVIOUS
      <3>2. IsFiniteSet(S) /\ (\A b \in S : f[b] \in Nat) /\ a \in S /\ f[a] = e
        BY <1>1, <1>4, <1>8, <2>9, <3>1, SoundIs
      <3>3. e <= SumFunctionOnSet(f, S) /\ SumFunctionOnSet(f, S) \in Nat
        BY <3>2, TermAtMostSum, SumType
      <3>4. SumFunctionOnSet(f, S) <= chain.left
        BY <1>1, <1>4, <3>1, SoundIs
      <3>5. QED
        BY <1>6, <2>1, <3>3, <3>4
    <2>12. /\ d.claims \in Int /\ chain.claims \in Int /\ chain.claims <= d.claims
           /\ (d.claims = chain.claims => d.remaining = chain.left)
      BY <1>1, <1>3 DEF Figures
    <2>13. x <= p /\ x \in Int /\ (d.claims = chain.claims => x = p)
      <3>1. CASE d.claims = 1
        <4>1. chain.claims = 1
          BY <2>10, <2>12, <3>1
        <4>2. QED
          BY <1>6, <2>7, <2>8, <2>12, <3>1, <4>1
      <3>2. CASE d.claims # 1
        BY <1>6, <2>1, <2>7, <2>8, <2>11, <3>2
      <3>3. QED
        BY <3>1, <3>2
    <2>14. QED
      BY <1>5, <1>6, <1>7, <1>9, <1>12, <1>13, <2>13
  <1>16. QED
    BY <1>14, <1>15

\* Whoever leaves takes one of the counted shares, or the rest, or nothing.
LEMMA LeftHolds ==
    ASSUME NEW c, TopicHolds(c), NEW a \in Accounts, Vault!CanLeave(c, a)
    PROVE  TopicHolds(Vault!Left(c, a)) /\ Kept(c, Vault!Left(c, a))
  <1>0. c.resolved /\ a \notin c.claimed
    BY DEF Vault!CanLeave
  <1>1. PICK p, n : p = Vault!Principal(c, a) /\ n = IF Vault!Eligible(c, a) THEN 1 ELSE 0
    OBVIOUS
  <1>2. p \in Int /\ n \in Int
    BY <1>1, PrincipalIs
  <1>3. PICK x, y, z, f : /\ x = c.claimed \cup {a} /\ y = c.left - p /\ z = c.claims - n
                          /\ f = [c.fees EXCEPT ![a] = 0]
    OBVIOUS
  <1>4. y \in Int /\ z \in Int /\ f \in [Accounts -> Nat] /\ \A b \in Accounts : b # a => f[b] = c.fees[b]
    BY <1>2, <1>3 DEF TopicHolds
  <1>5. Vault!Left(c, a) = [c EXCEPT !.claimed = x, !.left = y, !.claims = z, !.fees = f]
    BY <1>1, <1>3 DEF Vault!Left, TopicHolds, TopicFields
  <1>6. PICK d : d = [c EXCEPT !.claimed = x, !.left = y, !.claims = z, !.fees = f]
    OBVIOUS
  <1>7. /\ TopicFields \subseteq DOMAIN d /\ d.resolved = c.resolved /\ d.outcome = c.outcome /\ d.pool = c.pool
        /\ d.left = y /\ d.claims = z /\ d.price = c.price /\ d.stake = c.stake /\ d.side = c.side /\ d.fees = f
        /\ d.claimed = x
    BY <1>6 DEF TopicHolds, TopicFields
  <1>8. c.claims \in Int /\ c.left \in Int
    BY DEF TopicHolds
  <1>9. Kept(c, d)
    <2>1. z <= c.claims /\ (z = c.claims => y = c.left)
      <3>1. n = 0 => p = 0
        BY <1>1 DEF Vault!Principal
      <3>2. n = 0 \/ n = 1
        BY <1>1
      <3>3. QED
        BY <1>3, <1>8, <3>1, <3>2
    <2>2. \A b \in Accounts : b \notin x => b # a /\ b \notin c.claimed
      BY <1>3
    <2>3. QED
      BY <1>4, <1>7, <2>1, <2>2 DEF Kept
  <1>10. PICK who, L : who = Vault!Claimants(c) /\ L = Vault!Claimants(d)
    OBVIOUS
  <1>11. L = who \ {a}
    <2>1. \A b : Vault!Eligible(d, b) <=> Vault!Eligible(c, b)
      BY <1>7 DEF Vault!Eligible
    <2>2. \A b : b \in who <=> b \in Accounts /\ Vault!Eligible(c, b) /\ b \notin c.claimed
      BY <1>10 DEF Vault!Claimants
    <2>3. \A b : b \in L <=> b \in Accounts /\ Vault!Eligible(d, b) /\ b \notin x
      BY <1>7, <1>10 DEF Vault!Claimants
    <2>4. QED
      BY <1>3, <2>1, <2>2, <2>3
  <1>12. \A b : Vault!Share(d, b) = Vault!Share(c, b)
    <2>1. \A s : Vault!Staked(d, s) = Vault!Staked(c, s)
      BY <1>7 DEF Vault!Staked
    <2>2. Vault!Whole(d) = Vault!Whole(c)
      BY <1>7, <2>1 DEF Vault!Whole, Vault!AllStaked
    <2>3. QED
      BY <1>7, <2>2 DEF Vault!Share
  <1>13. PICK e, g : e = Expected(c) /\ g = Expected(d)
    OBVIOUS
  <1>14. /\ IsFiniteSet(who) /\ c.claims = Cardinality(who) /\ SumFunctionOnSet(e, who) <= c.left
         /\ \A b \in who : e[b] = Vault!Share(c, b) /\ e[b] \in Nat
         /\ a \in who <=> Vault!Eligible(c, a)
    BY <1>0, <1>10, <1>13, SoundIs
  <1>15. IsFiniteSet(L) /\ (\A b \in L : b \in who /\ g[b] = e[b] /\ e[b] \in Nat)
    <2>1. \A b \in L : g[b] = Vault!Share(d, b)
      BY <1>10, <1>13 DEF Expected
    <2>2. IsFiniteSet(L)
      BY <1>11, <1>14, FS_RemoveElement
    <2>3. QED
      BY <1>11, <1>12, <1>14, <2>1, <2>2
  <1>16. SumFunctionOnSet(g, L) = SumFunctionOnSet(e, L) /\ SumFunctionOnSet(e, L) \in Nat
    BY <1>15, SumAgrees, SumType
  <1>17. Cardinality(L) = IF a \in who THEN Cardinality(who) - 1 ELSE Cardinality(who)
    BY <1>11, <1>14, FS_RemoveElement
  <1>18. z = Cardinality(L)
    BY <1>1, <1>3, <1>8, <1>14, <1>17
  <1>19. SumFunctionOnSet(g, L) <= y
    <2>1. CASE ~Vault!Eligible(c, a)
      <3>1. L = who /\ p = 0
        BY <1>1, <1>11, <1>14, <2>1 DEF Vault!Principal
      <3>2. QED
        BY <1>3, <1>8, <1>14, <1>16, <3>1
    <2>2. CASE Vault!Eligible(c, a) /\ c.claims = 1
      <3>1. Cardinality(L) = 0
        BY <1>14, <1>17, <2>2
      <3>2. L = {}
        BY <1>15, <3>1, FS_EmptySet
      <3>3. SumFunctionOnSet(g, L) = 0
        BY <3>2, SumEmpty
      <3>4. p = c.left
        BY <1>1, <2>2 DEF Vault!Principal
      <3>5. QED
        BY <1>3, <1>8, <3>3, <3>4
    <2>3. CASE Vault!Eligible(c, a) /\ c.claims # 1
      <3>1. a \in who /\ e[a] = Vault!Share(c, a)
        BY <1>14, <2>3
      <3>2. p = e[a]
        BY <1>1, <2>3, <3>1 DEF Vault!Principal
      <3>3. \A b \in who : e[b] \in Int
        BY <1>14
      <3>4. SumFunctionOnSet(e, who) = e[a] + SumFunctionOnSet(e, who \ {a})
        BY <1>14, <3>1, <3>3, SumRemove
      <3>5. PICK t, u : t = SumFunctionOnSet(e, who) /\ u = SumFunctionOnSet(e, L)
        OBVIOUS
      <3>6. t = p + u /\ t <= c.left /\ u \in Nat
        BY <1>11, <1>14, <1>16, <3>2, <3>4, <3>5
      <3>7. u <= y
        BY <1>2, <1>3, <1>8, <3>6
      <3>8. QED
        BY <1>16, <3>5, <3>7
    <2>4. QED
      BY <2>1, <2>2, <2>3
  <1>20. Vault!Sound(d)
    BY <1>0, <1>7, <1>10, <1>13, <1>18, <1>19, SoundFrom
  <1>21. TopicHolds(d)
    BY <1>4, <1>7, <1>20 DEF TopicHolds
  <1>22. QED
    BY <1>5, <1>6, <1>9, <1>21

\* The sides are all there is.
LEMMA AllStakedIs ==
    ASSUME NEW c, TopicHolds(c)
    PROVE  Vault!AllStaked(c) = SumFunctionOnSet(c.stake, Accounts)
  <1>1. PICK f, Y, N, I : /\ f = c.stake /\ Y = {a \in Accounts : c.side[a] = "YES"}
                          /\ N = {a \in Accounts : c.side[a] = "NO"} /\ I = {a \in Accounts : c.side[a] = "INVALID"}
    OBVIOUS
  <1>2. PICK y, n, i, m : /\ y = [a \in Accounts |-> IF a \in Y THEN f[a] ELSE 0]
                          /\ n = [a \in Accounts |-> IF a \in N THEN f[a] ELSE 0]
                          /\ i = [a \in Accounts |-> IF a \in I THEN f[a] ELSE 0]
                          /\ m = [a \in Accounts |-> y[a] + n[a]]
    OBVIOUS
  <1>3. \A a \in Accounts : f[a] \in Nat /\ c.side[a] \in {"YES", "NO", "INVALID"}
    BY <1>1, VaultBounds DEF TopicHolds
  <1>4. \A a \in Accounts : y[a] \in Nat /\ n[a] \in Nat /\ i[a] \in Nat /\ m[a] \in Nat /\ m[a] = y[a] + n[a]
    BY <1>2, <1>3
  <1>5. \A a \in Accounts : f[a] = m[a] + i[a]
    BY <1>1, <1>2, <1>3
  <1>6. IsFiniteSet(Accounts)
    BY VaultBounds
  <1>7. SumFunctionOnSet(f, Accounts) = SumFunctionOnSet(m, Accounts) + SumFunctionOnSet(i, Accounts)
    BY <1>4, <1>5, <1>6, SumAdds
  <1>8. SumFunctionOnSet(m, Accounts) = SumFunctionOnSet(y, Accounts) + SumFunctionOnSet(n, Accounts)
    BY <1>4, <1>6, SumAdds
  <1>9. Y \in SUBSET Accounts /\ N \in SUBSET Accounts /\ I \in SUBSET Accounts
    BY <1>1
  <1>10. \A a \in Accounts : /\ y[a] = IF a \in Y THEN f[a] ELSE 0
                             /\ n[a] = IF a \in N THEN f[a] ELSE 0
                             /\ i[a] = IF a \in I THEN f[a] ELSE 0
    BY <1>2
  <1>11. /\ SumFunctionOnSet(y, Accounts) = SumFunctionOnSet(f, Y)
         /\ SumFunctionOnSet(n, Accounts) = SumFunctionOnSet(f, N)
         /\ SumFunctionOnSet(i, Accounts) = SumFunctionOnSet(f, I)
    BY <1>3, <1>6, <1>9, <1>10, SumOfPart
  <1>12. /\ Vault!Staked(c, "YES") = SumFunctionOnSet(f, Y) /\ Vault!Staked(c, "NO") = SumFunctionOnSet(f, N)
         /\ Vault!Staked(c, "INVALID") = SumFunctionOnSet(f, I)
    BY <1>1, StakedIsSum
  <1>13. QED
    BY <1>1, <1>7, <1>8, <1>11, <1>12 DEF Vault!AllStaked

LEMMA WholeOf ==
    ASSUME NEW c, TopicHolds(c), NEW d, d.stake = c.stake, d.side = c.side
    PROVE  Vault!Whole(d) \in Int
  <1>1. \A s : Vault!Staked(d, s) = Vault!Staked(c, s) /\ Vault!Staked(c, s) \in Nat
    BY StakedIs DEF Vault!Staked
  <1>2. QED
    BY <1>1 DEF Vault!Whole, Vault!AllStaked

\* The stakes that may claim are within the whole they are divided by.
LEMMA ClaimantsStaked ==
    ASSUME NEW c, TopicHolds(c), NEW d, d.stake = c.stake, d.side = c.side
    PROVE  SumFunctionOnSet(d.stake, Vault!Claimants(d)) <= Vault!Whole(d)
  <1>1. PICK f, who, o : f = c.stake /\ who = Vault!Claimants(d) /\ o = d.outcome
    OBVIOUS
  <1>2. \A s : Vault!Staked(d, s) = Vault!Staked(c, s)
    BY DEF Vault!Staked
  <1>3. Vault!AllStaked(d) = Vault!AllStaked(c)
    BY <1>2 DEF Vault!AllStaked
  <1>4. IsFiniteSet(Accounts) /\ \A a \in Accounts : f[a] \in Nat
    BY <1>1, VaultBounds DEF TopicHolds
  <1>5. who \subseteq Accounts /\ \A a \in who : o \in {"INVALID", c.side[a]}
    BY <1>1 DEF Vault!Claimants, Vault!Eligible
  <1>6. CASE o = "INVALID"
    <2>1. Vault!Whole(d) = SumFunctionOnSet(f, Accounts)
      BY <1>1, <1>3, <1>6, AllStakedIs DEF Vault!Whole
    <2>2. SumFunctionOnSet(f, who) <= SumFunctionOnSet(f, Accounts)
      BY <1>4, <1>5, PartAtMostSum
    <2>3. QED
      BY <1>1, <2>1, <2>2
  <1>7. CASE o # "INVALID"
    <2>1. PICK S : S = {a \in Accounts : c.side[a] = o}
      OBVIOUS
    <2>2. who \in SUBSET S
      BY <1>5, <1>7, <2>1
    <2>3. IsFiniteSet(S) /\ \A a \in S : f[a] \in Nat
      BY <1>4, <2>1, FS_Subset
    <2>4. SumFunctionOnSet(f, who) <= SumFunctionOnSet(f, S)
      BY <2>2, <2>3, PartAtMostSum
    <2>5. Vault!Whole(d) = SumFunctionOnSet(f, S)
      BY <1>1, <1>2, <1>7, <2>1, StakedIsSum DEF Vault!Whole
    <2>6. QED
      BY <1>1, <2>4, <2>5
  <1>8. QED
    BY <1>6, <1>7

LEMMA SettledHolds ==
    ASSUME NEW c, TopicHolds(c), ~c.resolved
    PROVE  TopicHolds(Vault!Settled(c)) /\ Kept(c, Vault!Settled(c))
  <1>1. PICK all : all = Vault!AllStaked(c)
    OBVIOUS
  <1>2. all \in Nat
    BY <1>1, StakedIs DEF Vault!AllStaked
  <1>3. PICK o : o = IF 2 * Vault!Staked(c, "YES") > Vault!AllStaked(c) THEN "YES"
                     ELSE IF 2 * Vault!Staked(c, "NO") > Vault!AllStaked(c) THEN "NO" ELSE "INVALID"
    OBVIOUS
  <1>4. PICK s : s = [c EXCEPT !.resolved = TRUE, !.outcome = o]
    OBVIOUS
  <1>5. PICK n : n = Vault!Cardinality({a \in Accounts : Vault!Eligible(s, a)})
    OBVIOUS
  <1>6. n \in Nat
    <2> DEFINE E == {a \in Accounts : Vault!Eligible(s, a)}
    <2>1. E \subseteq Accounts
      OBVIOUS
    <2>2. n = Cardinality(E)
      BY <1>5 DEF Vault!Cardinality, Cardinality
    <2> HIDE DEF E
    <2>3. QED
      BY <2>1, <2>2, VaultBounds, FS_Subset, FS_CardinalityType
  <1>7. Vault!Settled(c) = [s EXCEPT !.pool = all, !.left = all, !.claims = n]
    BY <1>1, <1>3, <1>4, <1>5 DEF Vault!Settled
  <1>8. PICK d : d = [s EXCEPT !.pool = all, !.left = all, !.claims = n]
    OBVIOUS
  <1>9. /\ TopicFields \subseteq DOMAIN s /\ s.resolved = TRUE /\ s.outcome = o
        /\ s.price = c.price /\ s.stake = c.stake /\ s.side = c.side /\ s.fees = c.fees /\ s.claimed = c.claimed
    BY <1>4 DEF TopicHolds, TopicFields
  <1>10. /\ TopicFields \subseteq DOMAIN d /\ d.resolved = TRUE /\ d.outcome = o
         /\ d.pool = all /\ d.left = all /\ d.claims = n
         /\ d.price = c.price /\ d.stake = c.stake /\ d.side = c.side /\ d.fees = c.fees /\ d.claimed = c.claimed
    BY <1>8, <1>9 DEF TopicFields
  <1>11. o \in Outcomes
    BY <1>3 DEF Outcomes
  <1>15. PICK who : who = Vault!Claimants(d)
    OBVIOUS
  <1>16. d.claims = Cardinality(who)
    <2>1. c.claimed = {}
      BY DEF TopicHolds, Vault!Sound
    <2>2. \A a : Vault!Eligible(s, a) <=> Vault!Eligible(d, a)
      BY <1>9, <1>10 DEF Vault!Eligible
    <2>3. who = {a \in Accounts : Vault!Eligible(s, a)}
      BY <1>10, <1>15, <2>1, <2>2 DEF Vault!Claimants
    <2>4. n = Vault!Cardinality(who)
      BY <1>5, <2>3
    <2>5. Vault!Cardinality(who) = Cardinality(who)
      BY DEF Vault!Cardinality, Cardinality
    <2>6. QED
      BY <1>10, <2>4, <2>5
  <1>17. IsFiniteSet(who) /\ who \subseteq Accounts /\ \A a \in who : Vault!Eligible(d, a)
    <2>1. who \subseteq Accounts /\ \A a \in who : Vault!Eligible(d, a)
      BY <1>15 DEF Vault!Claimants
    <2>2. QED
      BY <2>1, VaultBounds, FS_Subset
  <1>18. PICK q, p, w : q = Expected(d) /\ p = d.stake /\ w = Vault!Whole(d)
    OBVIOUS
  <1>19. SumFunctionOnSet(p, who) <= w
    BY <1>10, <1>15, <1>18, ClaimantsStaked
  <1>20. \A a \in who : p[a] \in Nat \ {0}
    BY <1>10, <1>17, <1>18 DEF Vault!Eligible, TopicHolds
  <1>21. SumFunctionOnSet(q, who) <= all
    <2>1. CASE who = {}
      BY <1>2, <2>1, SumEmpty
    <2>2. CASE who # {}
      <3>1. PICK b \in who : TRUE
        BY <2>2
      <3>2. p[b] <= SumFunctionOnSet(p, who) /\ SumFunctionOnSet(p, who) \in Nat
        BY <1>17, <1>20, TermAtMostSum, SumType
      <3>3. w \in Int
        BY <1>10, <1>18, WholeOf
      <3>4. w \in Nat \ {0}
        BY <1>19, <1>20, <3>2, <3>3
      <3>5. ASSUME NEW a \in who PROVE q[a] \in Nat /\ q[a] * w <= all * p[a] /\ p[a] \in Nat
        <4>1. q[a] = (all * p[a]) \div w
          BY <1>10, <1>15, <1>18, <3>5 DEF Expected, Vault!Share
        <4>2. PICK m : m = all * p[a]
          OBVIOUS
        <4>3. p[a] \in Nat
          BY <1>20
        <4>4. m \in Nat
          <5>1. \A u, v \in Nat : u * v \in Nat
            OBVIOUS
          <5>2. QED
            BY <1>2, <4>2, <4>3, <5>1
        <4>5. (m \div w) \in Nat /\ (m \div w) * w <= m
          BY <3>4, <4>4
        <4>6. QED
          BY <4>1, <4>2, <4>3, <4>5
      <3>6. QED
        BY <1>2, <1>17, <1>19, <3>4, <3>5, SumProRata
    <2>3. QED
      BY <2>1, <2>2
  <1>22. Vault!Sound(d)
    BY <1>10, <1>15, <1>16, <1>18, <1>21, SoundFrom
  <1>12. TopicHolds(d)
    <2>1. d.outcome \in Outcomes
      BY <1>10, <1>11
    <2>3. d.resolved \in BOOLEAN
      BY <1>10
    <2>4. d.pool \in Nat /\ d.left \in Int /\ d.claims \in Int
      BY <1>2, <1>6, <1>10
    <2>2. QED
      BY <1>10, <1>22, <2>1, <2>3, <2>4 DEF TopicHolds
  <1>13. Vault!Settled(c) = d
    BY <1>7, <1>8
  <1>14. QED
    BY <1>12, <1>13 DEF Kept

\* A step that leaves stakes and claims alone.
LEMMA TopicAlike ==
    ASSUME NEW c, TopicHolds(c), NEW d, TopicFields \subseteq DOMAIN d, d.price \in Int, d.resolved = c.resolved,
           d.outcome = c.outcome, d.pool = c.pool, d.left = c.left, d.claims = c.claims, d.claimed = c.claimed,
           d.stake = c.stake, d.side = c.side, d.fees = c.fees
    PROVE  TopicHolds(d) /\ Kept(c, d)
  <1>1. Vault!Sound(d)
    BY SoundAlike DEF TopicHolds
  <1>2. TopicHolds(d)
    BY <1>1 DEF TopicHolds
  <1>3. Kept(c, d)
    BY DEF TopicHolds, Kept
  <1>4. QED
    BY <1>2, <1>3

LEMMA PerformedHolds ==
    ASSUME TopicHolds(chain), HandlerHolds(run), NEW call, Vault!Performed(call),
           call = "stake" => run.amount \in Nat
    PROVE  TopicHolds(chain') /\ Kept(chain, chain')
  <1>c. TopicFields \subseteq DOMAIN chain
    BY DEF TopicHolds
  <1>r. run.by \in Accounts /\ run.side \in Vault!Sides
    BY DEF HandlerHolds
  <1>alike. ASSUME TopicFields \subseteq DOMAIN chain', chain'.resolved = chain.resolved, chain'.outcome = chain.outcome,
                   chain'.pool = chain.pool, chain'.left = chain.left, chain'.claims = chain.claims,
                   chain'.price = chain.price, chain'.stake = chain.stake, chain'.side = chain.side,
                   chain'.fees = chain.fees, chain'.claimed = chain.claimed
            PROVE  TopicHolds(chain') /\ Kept(chain, chain')
    <2>1. chain'.price \in Int
      BY <1>alike DEF TopicHolds
    <2>2. QED
      BY <1>alike, <2>1, TopicAlike
  <1>1. CASE chain' = chain
    BY <1>1, <1>c, <1>alike
  <1>2. CASE chain' = [chain EXCEPT !.forVault[run.by] = run.amount]
    <2>1. PICK f : chain' = [chain EXCEPT !.forVault = f]
      BY <1>2
    <2>2. QED
      BY <1>c, <1>alike, <2>1 DEF TopicFields
  <1>3. CASE chain' = [chain EXCEPT !.forMarket[run.by] = run.limit]
    <2>1. PICK f : chain' = [chain EXCEPT !.forMarket = f]
      BY <1>3
    <2>2. QED
      BY <1>c, <1>alike, <2>1 DEF TopicFields
  <1>4. CASE /\ call = "stake" /\ ~chain.resolved
             /\ chain' = [chain EXCEPT !.stake[run.by] = @ + run.amount, !.side[run.by] = run.side,
                                       !.forVault[run.by] = @ - run.amount]
    <2>1. PICK u, v, w : /\ u = [chain.stake EXCEPT ![run.by] = @ + run.amount]
                         /\ v = [chain.side EXCEPT ![run.by] = run.side]
                         /\ w = [chain.forVault EXCEPT ![run.by] = @ - run.amount]
      OBVIOUS
    <2>2. chain' = [chain EXCEPT !.stake = u, !.side = v, !.forVault = w]
      BY <1>4, <1>c, <2>1 DEF TopicFields
    <2>3. u \in [Accounts -> Nat] /\ v \in [Accounts -> Vault!Sides]
      BY <1>4, <1>r, <2>1 DEF TopicHolds
    <2>4. /\ TopicFields \subseteq DOMAIN chain' /\ chain'.resolved = chain.resolved
          /\ chain'.outcome = chain.outcome /\ chain'.pool = chain.pool /\ chain'.left = chain.left
          /\ chain'.claims = chain.claims /\ chain'.price = chain.price /\ chain'.stake = u
          /\ chain'.side = v /\ chain'.fees = chain.fees /\ chain'.claimed = chain.claimed
      BY <1>c, <2>2 DEF TopicFields
    <2>5. Vault!Sound(chain')
      BY <1>4, <2>4 DEF TopicHolds, Vault!Sound
    <2>6. TopicHolds(chain')
      BY <2>3, <2>4, <2>5 DEF TopicHolds
    <2>7. QED
      BY <1>4, <2>6 DEF Kept
  <1>10. PICK cost : cost = IF run.amount \in Nat THEN run.amount * chain.price ELSE 0
    OBVIOUS
  <1>5. CASE chain' = [chain EXCEPT !.shares[run.by][run.side] = @ + run.amount, !.forMarket[run.by] = @ - cost]
    <2>1. PICK f, g : chain' = [chain EXCEPT !.shares = f, !.forMarket = g]
      BY <1>5, <1>c DEF TopicFields
    <2>2. QED
      BY <1>c, <1>alike, <2>1 DEF TopicFields
  <1>6. CASE chain' = [chain EXCEPT !.shares[run.by][run.side] = @ - run.amount]
    <2>1. PICK f : chain' = [chain EXCEPT !.shares = f]
      BY <1>6
    <2>2. QED
      BY <1>c, <1>alike, <2>1 DEF TopicFields
  <1>7. CASE Vault!CanLeave(chain, run.by) /\ chain' = Vault!Left(chain, run.by)
    BY <1>7, <1>r, LeftHolds
  <1>8. CASE ~chain.resolved /\ chain' = Vault!Settled(chain)
    BY <1>8, SettledHolds
  <1>9. CASE chain' = [chain EXCEPT !.shares[run.by] = [t \in {"YES", "NO"} |-> 0]]
    <2>1. PICK f : chain' = [chain EXCEPT !.shares = f]
      BY <1>9
    <2>2. QED
      BY <1>c, <1>alike, <2>1 DEF TopicFields
  <1>11. \/ chain' = chain \/ chain' = [chain EXCEPT !.forVault[run.by] = run.amount]
         \/ chain' = [chain EXCEPT !.forMarket[run.by] = run.limit]
         \/ /\ call = "stake" /\ ~chain.resolved
            /\ chain' = [chain EXCEPT !.stake[run.by] = @ + run.amount, !.side[run.by] = run.side,
                                      !.forVault[run.by] = @ - run.amount]
         \/ chain' = [chain EXCEPT !.shares[run.by][run.side] = @ + run.amount, !.forMarket[run.by] = @ - cost]
         \/ chain' = [chain EXCEPT !.shares[run.by][run.side] = @ - run.amount]
         \/ Vault!CanLeave(chain, run.by) /\ chain' = Vault!Left(chain, run.by)
         \/ ~chain.resolved /\ chain' = Vault!Settled(chain)
         \/ chain' = [chain EXCEPT !.shares[run.by] = [t \in {"YES", "NO"} |-> 0]]
    BY <1>10, ZenonT(60) DEF Vault!Performed
  <1>12. QED
    BY <1>1, <1>2, <1>3, <1>4, <1>5, <1>6, <1>7, <1>8, <1>9, <1>11

LEMMA PayoutStep == PayoutHolds /\ QuoteHolds /\ QuoteHolds' /\ [Vault!Next]_(Vault!vars) => PayoutHolds'
  <1> SUFFICES ASSUME PayoutHolds, QuoteHolds, QuoteHolds', [Vault!Next]_(Vault!vars) PROVE PayoutHolds'
    OBVIOUS
  <1>c. TopicHolds(chain) /\ wallet \in Accounts \cup {Nobody} /\ VaultRunHolds /\ ReadsHold /\ DetailHolds
    BY DEF PayoutHolds
  <1>f. PageFields \subseteq DOMAIN page /\ PageFields \subseteq DOMAIN page'
    BY <1>c DEF DetailHolds, QuoteHolds
  <1>k. Kept(chain, chain)
    BY <1>c DEF Kept, TopicHolds
  <1>n. Figures(chain, Vault!NoDetail)
    BY DEF Figures, Vault!NoDetail
  \* The parts, kept.
  <1>kc. ASSUME chain' = chain PROVE TopicHolds(chain') /\ Kept(chain, chain')
    BY <1>c, <1>k, <1>kc
  <1>kt. ASSUME TopicHolds(chain') PROVE TopicHolds(chain)'
    BY <1>kt DEF TopicHolds, TopicFields, Outcomes, Vault!Sides, Vault!Sound, Vault!Claimants, Vault!Eligible,
                Vault!Share, Vault!Whole, Vault!AllStaked, Vault!Staked
  <1>kr. ASSUME run' = run \/ run' = Vault!Idle \/ HandlerHolds(run') PROVE VaultRunHolds'
    BY <1>c, <1>kr DEF VaultRunHolds, HandlerHolds, Vault!Idle, VaultCalls, Vault!Sides
  <1>detail. ASSUME PageFields \subseteq DOMAIN page', Figures(chain', page'.detail), UserHolds(chain', page'.detail)
             PROVE  DetailHolds'
    BY <1>detail DEF DetailHolds, Figures, UserHolds, Vault!AllStaked, Vault!Staked, Vault!Sides, PageFields
  <1>kd. ASSUME Kept(chain, chain'), page'.detail = page.detail PROVE DetailHolds'
    <2>1. Figures(chain', page.detail)
      BY <1>c, <1>kd, FiguresKept DEF DetailHolds
    <2>2. UserHolds(chain', page.detail)
      BY <1>c, <1>kd, UserKept DEF DetailHolds
    <2>3. QED
      BY <1>f, <1>kd, <2>1, <2>2, <1>detail
  <1>ks. ASSUME Kept(chain, chain'), reads' \in Seq(VaultReads),
                \A i \in 1..Len(reads') : reads'[i].got = Vault!NoDetail
                     \/ \E j \in 1..Len(reads) : reads'[i].got = reads[j].got
         PROVE  ReadsHold'
    <2>1. ASSUME NEW i \in 1..Len(reads') PROVE Figures(chain', reads'[i].got)
      <3>1. CASE reads'[i].got = Vault!NoDetail
        BY <1>n, <1>ks, <3>1, FiguresKept
      <3>2. ASSUME NEW j \in 1..Len(reads), reads'[i].got = reads[j].got
            PROVE  Figures(chain', reads'[i].got)
        <4>1. Figures(chain, reads[j].got)
          BY <1>c DEF ReadsHold
        <4>2. QED
          BY <1>ks, <3>2, <4>1, FiguresKept
      <3>3. QED
        BY <1>ks, <3>1, <3>2
    <2>2. QED
      BY <1>ks, <2>1 DEF ReadsHold, VaultReads, VaultDetails, Outcomes, Vault!NoDetail, Vault!Sides, Figures, Vault!AllStaked, Vault!Staked
  <1>kw. ASSUME wallet' \in Accounts \cup {Nobody}, TopicHolds(chain'), VaultRunHolds', ReadsHold', DetailHolds'
         PROVE  PayoutHolds'
    BY <1>kt, <1>kw DEF PayoutHolds
  <1>krs. ASSUME Kept(chain, chain'), reads' = reads PROVE ReadsHold'
    BY <1>c, <1>krs, <1>ks DEF ReadsHold
  \* A read that begins.
  <1>begins. ASSUME Kept(chain, chain'), NEW a \in Accounts \cup {Nobody}, NEW own \in BOOLEAN,
                    reads' = Append(reads, Vault!NewRead(a, own))
             PROVE  ReadsHold'
    <2>1. PICK r : r = Vault!NewRead(a, own)
      OBVIOUS
    <2>2. r \in VaultReads /\ r.got = Vault!NoDetail
      BY <2>1 DEF Vault!NewRead, VaultReads, VaultDetails
    <2>3. reads \in Seq(VaultReads)
      BY <1>c DEF ReadsHold
    <2>4. /\ reads' \in Seq(VaultReads) /\ Len(reads') = Len(reads) + 1 /\ Len(reads) \in Nat
          /\ \A i \in 1..Len(reads) : reads'[i] = reads[i]
          /\ reads'[Len(reads) + 1] = r
      BY <1>begins, <2>1, <2>2, <2>3, AppendProperties, LenProperties
    <2>5. ASSUME NEW i \in 1..Len(reads')
          PROVE  reads'[i].got = Vault!NoDetail \/ \E j \in 1..Len(reads) : reads'[i].got = reads[j].got
      <3>1. i \in 1..Len(reads) \/ i = Len(reads) + 1
        BY <2>4
      <3>2. QED
        BY <2>2, <2>4, <3>1
    <2>6. QED
      BY <1>begins, <1>ks, <2>4, <2>5
  \* A read that ends.
  <1>ends. ASSUME NEW i \in DOMAIN reads, Kept(chain, chain'), reads' = Vault!Without(i) PROVE ReadsHold'
    <2>1. reads \in Seq(VaultReads)
      BY <1>c DEF ReadsHold
    <2>2. PICK n : n = Len(reads)
      OBVIOUS
    <2>3. n \in Nat /\ DOMAIN reads = 1..n /\ reads \in [1..n -> VaultReads]
      BY <2>1, <2>2, LenProperties
    <2>4. n - 1 \in Nat /\ i \in 1..n
      BY <2>3, <1>ends
    <2>5. reads' = [j \in 1..(n - 1) |-> reads[IF j < i THEN j ELSE j + 1]]
      BY <1>ends, <2>2 DEF Vault!Without
    <2>6. ASSUME NEW j \in 1..(n - 1) PROVE (IF j < i THEN j ELSE j + 1) \in 1..n
      BY <2>3, <2>4
    <2>7. reads' \in [1..(n - 1) -> VaultReads]
      BY <2>3, <2>5, <2>6
    <2>8. reads' \in Seq(VaultReads)
      BY <2>4, <2>7, SeqDef
    <2>9. Len(reads') = n - 1
      <3>1. DOMAIN reads' = 1..(n - 1) /\ DOMAIN reads' = 1..Len(reads') /\ Len(reads') \in Nat
        BY <2>7, <2>8, LenProperties
      <3>2. PICK m : m = Len(reads')
        OBVIOUS
      <3>3. m \in Nat /\ 1..m = 1..(n - 1)
        BY <3>1, <3>2
      <3>4. m = n - 1
        BY <2>4, <3>3
      <3>5. QED
        BY <3>2, <3>4
    <2>10. \A j \in 1..Len(reads') : \E k \in 1..Len(reads) : reads'[j].got = reads[k].got
      BY <2>2, <2>5, <2>6, <2>9
    <2>11. QED
      BY <1>ends, <1>ks, <2>8, <2>10
  <1>after. ASSUME NEW i, run' = Vault!HandlerAfter(i) PROVE VaultRunHolds'
    BY <1>after, <1>kr DEF Vault!HandlerAfter
  <1>1. ASSUME NEW i \in DOMAIN reads, Vault!ReadTopic(i) PROVE PayoutHolds'
    <2>1. reads \in Seq(VaultReads)
      BY <1>c DEF ReadsHold
    <2>2. i \in 1..Len(reads) /\ Len(reads) \in Nat /\ DOMAIN reads = 1..Len(reads) /\ reads[i] \in VaultReads
      BY <1>1, <2>1, LenProperties, ElementOfSeq
    <2>3. PICK of, st, all : /\ of = reads[i].of /\ st = [s \in Vault!Sides |-> Vault!Staked(chain, s)]
                             /\ all = Vault!AllStaked(chain)
      OBVIOUS
    <2>4. PICK g : g = [of |-> of, resolved |-> chain.resolved, outcome |-> chain.outcome, total |-> all, staked |-> st,
                        pool |-> chain.pool, remaining |-> chain.left, claims |-> chain.claims, price |-> chain.price]
      OBVIOUS
    <2>5. PICK r : r = [reads[i] EXCEPT !.got = g]
      OBVIOUS
    <2>6. reads' = [reads EXCEPT ![i] = r]
      <3>1. reads' = [reads EXCEPT ![i].got = g]
        BY <1>1, <2>3, <2>4 DEF Vault!ReadTopic
      <3>2. QED
        BY <2>5, <3>1
    <2>7. of \in Accounts \cup {Nobody}
      BY <2>2, <2>3 DEF VaultReads
    <2>8. st \in [Vault!Sides -> Int] /\ all \in Int
      BY <1>c, <2>3, StakedIs DEF Vault!AllStaked
    <2>9. g \in VaultDetails
      <3>1. /\ chain.resolved \in BOOLEAN /\ chain.outcome \in Outcomes /\ chain.pool \in Int /\ chain.left \in Int
            /\ chain.claims \in Int /\ chain.price \in Int
        BY <1>c DEF TopicHolds
      <3>2. QED
        BY <2>4, <2>7, <2>8, <3>1 DEF VaultDetails
    <2>10. Figures(chain, g)
      <3>1. /\ g.of = of /\ g.resolved = chain.resolved /\ g.outcome = chain.outcome /\ g.total = all /\ g.staked = st
            /\ g.pool = chain.pool /\ g.remaining = chain.left /\ g.claims = chain.claims /\ chain.claims \in Int
        BY <1>c, <2>4 DEF TopicHolds
      <3>2. QED
        BY <2>3, <2>7, <3>1 DEF Figures
    <2>11. r \in VaultReads /\ r.got = g
      BY <2>2, <2>5, <2>9 DEF VaultReads
    <2>12. chain' = chain /\ wallet' = wallet /\ run' = run /\ page' = [page EXCEPT !.late = chain.late]
      BY <1>1 DEF Vault!ReadTopic
    <2>13. /\ reads' \in Seq(VaultReads) /\ Len(reads') = Len(reads)
           /\ \A j \in 1..Len(reads) : reads'[j] = IF j = i THEN r ELSE reads[j]
      BY <2>1, <2>2, <2>6, <2>11, ExceptSeq
    <2>14. \A j \in 1..Len(reads') : Figures(chain, reads'[j].got)
      BY <1>c, <2>10, <2>11, <2>13 DEF ReadsHold
    <2>15. ReadsHold'
      BY <2>12, <2>13, <2>14 DEF ReadsHold, VaultReads, VaultDetails, Outcomes, Vault!NoDetail, Vault!Sides, Figures, Vault!AllStaked, Vault!Staked
    <2>16. page'.detail = page.detail
      BY <1>f, <2>12 DEF PageFields
    <2>17. QED
      BY <1>c, <1>kc, <1>kd, <1>kr, <1>kw, <2>12, <2>15, <2>16
  <1>2. ASSUME NEW i \in DOMAIN reads, Vault!Publish(i) PROVE PayoutHolds'
    <2>1. PICK g : g = reads[i].got
      OBVIOUS
    <2>0. PICK told \in BOOLEAN : page' = Vault!Requoted(Vault!Ended([page EXCEPT !.detail =
                     [of |-> g.of, resolved |-> g.resolved, outcome |-> g.outcome, total |-> g.total, staked |-> g.staked,
                      pool |-> g.pool, remaining |-> g.remaining, claims |-> g.claims, price |-> g.price,
                      user |-> Vault!UserFigures(g, told)]], i))
      BY <1>2, <2>1 DEF Vault!Publish
    <2>11. PICK u : u = Vault!UserFigures(g, told)
      OBVIOUS
    <2>2. page' = Vault!Requoted(Vault!Ended([page EXCEPT !.detail =
                     [of |-> g.of, resolved |-> g.resolved, outcome |-> g.outcome, total |-> g.total, staked |-> g.staked,
                      pool |-> g.pool, remaining |-> g.remaining, claims |-> g.claims, price |-> g.price, user |-> u]], i))
      BY <2>0, <2>11
    <2>3. /\ reads' = Vault!Without(i) /\ run' = Vault!HandlerAfter(i) /\ chain' = chain /\ wallet' = wallet
      BY <1>2 DEF Vault!Publish
    <2>4. PICK d : d = [of |-> g.of, resolved |-> g.resolved, outcome |-> g.outcome, total |-> g.total, staked |-> g.staked,
                        pool |-> g.pool, remaining |-> g.remaining, claims |-> g.claims, price |-> g.price, user |-> u]
      OBVIOUS
    <2>5. page'.detail = d
      <3>1. PICK p : p = Vault!Ended([page EXCEPT !.detail = d], i)
        OBVIOUS
      <3>2. p.detail = d
        BY <1>f, <3>1 DEF Vault!Ended, PageFields
      <3>3. page' = Vault!Requoted(p)
        BY <2>2, <2>4, <3>1
      <3>4. QED
        BY <3>2, <3>3 DEF Vault!Requoted
    <2>6. Figures(chain, g)
      <3>1. i \in 1..Len(reads)
        BY <1>c, <1>2, LenProperties DEF ReadsHold
      <3>2. QED
        BY <1>c, <2>1, <3>1 DEF ReadsHold
    <2>7. Figures(chain, d)
      <3>1. /\ d.of = g.of /\ d.resolved = g.resolved /\ d.outcome = g.outcome /\ d.total = g.total /\ d.staked = g.staked
            /\ d.pool = g.pool /\ d.remaining = g.remaining /\ d.claims = g.claims
        BY <2>4
      <3>2. QED
        BY <2>6, <3>1 DEF Figures
    <2>10. UserHolds(chain, d)
      <3>1. ASSUME d.resolved, d.of # Nobody
            PROVE  u.stake = chain.stake[d.of] /\ u.side = chain.side[d.of] /\ u.fees = chain.fees[d.of]
        <4>1. g.of = d.of /\ g.resolved
          BY <2>4, <3>1
        <4>2. QED
          BY <2>11, <3>1, <4>1 DEF Vault!UserFigures
      <3>2. d.user = u
        BY <2>4
      <3>3. QED
        BY <3>1, <3>2 DEF UserHolds
    <2>8. DetailHolds'
      BY <1>f, <1>detail, <2>3, <2>5, <2>7, <2>10
    <2>9. QED
      BY <1>c, <1>2, <1>after, <1>ends, <1>kc, <1>kw, <2>3, <2>8
  <1>3. ASSUME NEW i \in DOMAIN reads, Vault!ReadFails(i) PROVE PayoutHolds'
    <2>1. /\ reads' = Vault!Without(i) /\ run' = Vault!HandlerAfter(i) /\ chain' = chain /\ wallet' = wallet
          /\ page' = Vault!Ended([page EXCEPT !.loadFailed = TRUE], i)
      BY <1>3 DEF Vault!ReadFails
    <2>2. page'.detail = page.detail
      BY <1>f, <2>1 DEF Vault!Ended, PageFields
    <2>3. QED
      BY <1>c, <1>3, <1>after, <1>ends, <1>kc, <1>kd, <1>kw, <2>1, <2>2
  <1>4. CASE Vault!Reload
    <2>1. /\ reads' = Append(reads, Vault!NewRead(wallet, FALSE)) /\ page' = Vault!ReadBegun(page)
          /\ chain' = chain /\ wallet' = wallet /\ run' = run
      BY <1>4 DEF Vault!Reload
    <2>2. page'.detail = page.detail
      BY <1>f, <2>1 DEF Vault!ReadBegun, PageFields
    <2>3. ReadsHold'
      BY <1>c, <1>begins, <1>kc, <2>1
    <2>4. QED
      BY <1>c, <1>kc, <1>kd, <1>kr, <1>kw, <2>1, <2>2, <2>3
  \* The page alone.
  <1>page. ASSUME page'.detail = page.detail, UNCHANGED <<chain, wallet, reads, run>> PROVE PayoutHolds'
    BY <1>c, <1>kc, <1>kd, <1>kr, <1>krs, <1>kw, <1>page
  <1>5. CASE Vault!QuoteTimer
    <2>1. page'.detail = page.detail
      BY <1>f, <1>5 DEF Vault!QuoteTimer, PageFields
    <2>2. QED
      BY <1>5, <1>page, <2>1 DEF Vault!QuoteTimer
  <1>6. CASE Vault!QuoteAnswer
    <2>1. page'.detail = page.detail
      BY <1>f, <1>6 DEF Vault!QuoteAnswer, PageFields
    <2>2. QED
      BY <1>6, <1>page, <2>1 DEF Vault!QuoteAnswer
  <1>7. CASE Vault!ClockRuns
    <2>1. page'.detail = page.detail
      BY <1>f, <1>7 DEF Vault!ClockRuns, PageFields
    <2>2. QED
      BY <1>7, <1>page, <2>1 DEF Vault!ClockRuns
  <1>8. ASSUME NEW a \in Typed, Vault!TypeAmount(a) PROVE PayoutHolds'
    <2>1. page'.detail = page.detail
      BY <1>f, <1>8 DEF Vault!TypeAmount, Vault!Requoted, PageFields
    <2>2. QED
      BY <1>8, <1>page, <2>1 DEF Vault!TypeAmount
  <1>9. ASSUME NEW m \in {"BUY", "SELL"}, Vault!ChooseMode(m) PROVE PayoutHolds'
    <2>1. page'.detail = page.detail
      BY <1>f, <1>9 DEF Vault!ChooseMode, Vault!Requoted, PageFields
    <2>2. QED
      BY <1>9, <1>page, <2>1 DEF Vault!ChooseMode
  <1>10. ASSUME NEW t \in {"PROTOCOL", "MARKET"}, Vault!ChooseTab(t) PROVE PayoutHolds'
    <2>1. page'.detail = page.detail
      BY <1>f, <1>10 DEF Vault!ChooseTab, PageFields
    <2>2. QED
      BY <1>10, <1>page, <2>1 DEF Vault!ChooseTab
  <1>11. ASSUME NEW a \in Accounts \cup {Nobody}, Vault!SwitchWallet(a) PROVE PayoutHolds'
    <2>1. /\ page' = Vault!ReadBegun(Vault!Requoted([page EXCEPT !.amount = Blank, !.quote = Vault!NoQuote, !.failed = FALSE]))
          /\ reads' = Append(reads, Vault!NewRead(a, FALSE)) /\ chain' = chain /\ wallet' = a /\ run' = run
      BY <1>11 DEF Vault!SwitchWallet
    <2>2. page'.detail = page.detail
      BY <1>f, <2>1 DEF Vault!ReadBegun, Vault!Requoted, PageFields
    <2>3. ReadsHold'
      BY <1>begins, <1>kc, <2>1
    <2>4. QED
      BY <1>kc, <1>kd, <1>kr, <1>kw, <2>1, <2>2, <2>3
  \* A click.
  <1>12. ASSUME NEW op, NEW s \in Vault!Sides, NEW calls \in Seq(VaultCalls), Vault!Begin(op, s, calls), wallet # Nobody,
                (\E k \in 1..Len(calls) : calls[k] = "stake") => page.amount \in Nat
         PROVE  PayoutHolds'
    <2>1. /\ run' = [op |-> op, side |-> s, by |-> wallet, amount |-> page.amount, limit |-> 0, calls |-> calls]
          /\ page' = [page EXCEPT !.busy = TRUE, !.failed = FALSE] /\ UNCHANGED <<chain, wallet, reads>>
      BY <1>12 DEF Vault!Begin
    <2>2. HandlerHolds(run')
      <3>1. wallet \in Accounts
        BY <1>c, <1>12
      <3>2. PICK r : r = [op |-> op, side |-> s, by |-> wallet, amount |-> page.amount, limit |-> 0, calls |-> calls]
        OBVIOUS
      <3>3. /\ {"op", "side", "by", "amount", "limit", "calls"} \subseteq DOMAIN r /\ r.side = s /\ r.by = wallet
            /\ r.amount = page.amount /\ r.calls = calls
        BY <3>2
      <3>4. HandlerHolds(r)
        BY <1>12, <3>1, <3>3 DEF HandlerHolds
      <3>5. QED
        BY <2>1, <3>2, <3>4
    <2>3. page'.detail = page.detail
      BY <1>f, <2>1 DEF PageFields
    <2>4. QED
      BY <1>c, <1>kc, <1>kd, <1>kr, <1>krs, <1>kw, <2>1, <2>2, <2>3
  \* The scripts.
  <1>scripts. /\ Vault!StakeCalls \in Seq(VaultCalls) /\ Vault!FaucetCalls \in Seq(VaultCalls) /\ Vault!BuyCalls \in Seq(VaultCalls)
              /\ Vault!SellCalls \in Seq(VaultCalls) /\ Vault!WithdrawCalls \in Seq(VaultCalls)
              /\ Vault!FinalizeCalls \in Seq(VaultCalls) /\ Vault!RedeemCalls \in Seq(VaultCalls)
    BY DEF Vault!StakeCalls, Vault!FaucetCalls, Vault!BuyCalls, Vault!SellCalls, Vault!WithdrawCalls, Vault!FinalizeCalls,
           Vault!RedeemCalls, VaultCalls
  <1>nostake. \A calls \in {Vault!FaucetCalls, Vault!BuyCalls, Vault!SellCalls, Vault!WithdrawCalls, Vault!FinalizeCalls,
                            Vault!RedeemCalls} : ~ \E k \in 1..Len(calls) : calls[k] = "stake"
    BY DEF Vault!FaucetCalls, Vault!BuyCalls, Vault!SellCalls, Vault!WithdrawCalls, Vault!FinalizeCalls, Vault!RedeemCalls
  <1>13. ASSUME NEW s \in Vault!Sides, Vault!ClickStake(s) PROVE PayoutHolds'
    <2>1. Vault!Begin("stake", s, Vault!StakeCalls) /\ wallet # Nobody /\ page.amount # Blank
      BY <1>13 DEF Vault!ClickStake, Vault!StakeOffered
    <2>2. page.amount \in Nat
      BY <2>1, VaultBounds DEF QuoteHolds
    <2>3. QED
      BY <1>12, <1>13, <1>scripts, <2>1, <2>2
  <1>14. ASSUME NEW s \in Vault!Sides, Vault!ClickTrade(s) PROVE PayoutHolds'
    <2>1. PICK calls \in {Vault!BuyCalls, Vault!SellCalls} : Vault!Begin("trade", s, calls)
      BY <1>14 DEF Vault!ClickTrade
    <2>2. wallet # Nobody
      BY <1>14 DEF Vault!ClickTrade
    <2>3. calls \in Seq(VaultCalls) /\ ~ \E k \in 1..Len(calls) : calls[k] = "stake"
      BY <1>scripts, <1>nostake, <2>1
    <2>4. QED
      BY <1>12, <1>14, <2>1, <2>2, <2>3
  <1>15. CASE Vault!ClickFaucet \/ Vault!ClickWithdraw \/ Vault!ClickFinalize \/ Vault!ClickRedeem
    <2>1. PICK op \in {"faucet", "withdraw", "finalize", "redeem"}, calls \in {Vault!FaucetCalls, Vault!WithdrawCalls, Vault!FinalizeCalls, Vault!RedeemCalls} :
            Vault!Begin(op, "YES", calls)
      BY <1>15 DEF Vault!ClickFaucet, Vault!ClickWithdraw, Vault!ClickFinalize, Vault!ClickRedeem
    <2>2. wallet # Nobody
      BY <1>15 DEF Vault!ClickFaucet, Vault!ClickWithdraw, Vault!ClickFinalize, Vault!ClickRedeem, Vault!FaucetOffered,
                   Vault!WithdrawOffered, Vault!FinalizeOffered, Vault!RedeemOffered, Vault!RedeemOfferedToo
    <2>3. calls \in Seq(VaultCalls) /\ ~ \E k \in 1..Len(calls) : calls[k] = "stake"
      BY <1>scripts, <1>nostake, <2>1
    <2>4. "YES" \in Vault!Sides
      BY VaultBounds
    <2>5. QED
      BY <1>12, <2>1, <2>2, <2>3, <2>4
  \* A handler that runs.
  <1>runs. ASSUME run # Vault!Idle, run.calls # <<>>
           PROVE  /\ HandlerHolds(run) /\ Head(run.calls) = run.calls[1] /\ 1 \in 1..Len(run.calls)
                  /\ Head(run.calls) = "stake" => run.amount \in Nat
    <2>1. HandlerHolds(run) /\ run.calls \in Seq(VaultCalls)
      BY <1>c, <1>runs DEF VaultRunHolds, HandlerHolds
    <2>2. Head(run.calls) = run.calls[1] /\ 1 \in 1..Len(run.calls)
      BY <1>runs, <2>1, EmptySeq
    <2>3. QED
      BY <2>1, <2>2 DEF HandlerHolds
  <1>16. CASE Vault!Call
    <2>1. run # Vault!Idle /\ run.calls # <<>> /\ Vault!Performed(Head(run.calls)) /\ UNCHANGED <<wallet, page, reads>>
      BY <1>16 DEF Vault!Call
    <2>2. HandlerHolds(run) /\ (Head(run.calls) = "stake" => run.amount \in Nat)
      BY <1>runs, <2>1
    <2>3. TopicHolds(chain') /\ Kept(chain, chain')
      BY <1>c, <2>1, <2>2, PerformedHolds
    <2>4. PICK limit : run' = [run EXCEPT !.calls = Tail(@), !.limit = limit]
      BY <1>16 DEF Vault!Call
    <2>5. HandlerHolds(run')
      <3>1. PICK calls, rest : calls = run.calls /\ rest = Tail(calls)
        OBVIOUS
      <3>2. calls \in Seq(VaultCalls) /\ calls # <<>>
        BY <2>1, <2>2, <3>1 DEF HandlerHolds
      <3>3. rest \in Seq(VaultCalls) /\ Len(rest) = Len(calls) - 1 /\ \A k \in 1..Len(rest) : rest[k] = calls[k + 1]
        BY <3>1, <3>2, HeadTailProperties
      <3>4. PICK r : r = [run EXCEPT !.calls = rest]
        OBVIOUS
      <3>5. run' = [r EXCEPT !.limit = limit]
        BY <2>2, <2>4, <3>1, <3>4 DEF HandlerHolds
      <3>6. /\ {"op", "side", "by", "amount", "limit", "calls"} \subseteq DOMAIN r /\ r.side = run.side
            /\ r.by = run.by /\ r.amount = run.amount /\ r.calls = rest
        BY <2>2, <3>4 DEF HandlerHolds
      <3>7. /\ {"op", "side", "by", "amount", "limit", "calls"} \subseteq DOMAIN run' /\ run'.side = run.side
            /\ run'.by = run.by /\ run'.amount = run.amount /\ run'.calls = rest
        BY <3>5, <3>6
      <3>8. ASSUME NEW k \in 1..Len(rest), rest[k] = "stake" PROVE run.amount \in Nat
        <4>1. PICK n : n = Len(calls)
          OBVIOUS
        <4>2. n \in Nat
          BY <3>2, <4>1, LenProperties
        <4>3. k \in 1..(n - 1)
          BY <3>3, <4>1
        <4>4. k + 1 \in 1..n
          BY <4>2, <4>3
        <4>5. calls[k + 1] = "stake" /\ k + 1 \in 1..Len(calls)
          BY <3>3, <3>8, <4>1, <4>4
        <4>6. QED
          BY <2>2, <3>1, <4>5 DEF HandlerHolds
      <3>9. run.side \in Vault!Sides /\ run.by \in Accounts
        BY <2>2 DEF HandlerHolds
      <3>10. QED
        BY <3>3, <3>7, <3>8, <3>9 DEF HandlerHolds
    <2>6. QED
      BY <1>c, <1>kd, <1>kr, <1>krs, <1>kw, <2>1, <2>3, <2>5
  <1>17. CASE Vault!CallFails
    <2>1. page' = [page EXCEPT !.failed = TRUE, !.busy = FALSE] /\ run' = Vault!Idle /\ UNCHANGED <<chain, wallet, reads>>
      BY <1>17 DEF Vault!CallFails
    <2>2. page'.detail = page.detail
      BY <1>f, <2>1 DEF PageFields
    <2>3. QED
      BY <1>c, <1>kc, <1>kd, <1>kr, <1>krs, <1>kw, <2>1, <2>2
  <1>18. CASE Vault!Refresh
    <2>1. /\ run # Vault!Idle /\ run.calls # <<>> /\ run' = [run EXCEPT !.calls = <<>>]
          /\ reads' = Append(reads, Vault!NewRead(run.by, TRUE)) /\ UNCHANGED <<chain, wallet>>
      BY <1>18 DEF Vault!Refresh
    <2>2. HandlerHolds(run)
      BY <1>runs, <2>1
    <2>3. page'.detail = page.detail
      BY <1>f, <1>18 DEF Vault!Refresh, Vault!ReadBegun, Vault!Requoted, PageFields
    <2>4. HandlerHolds(run')
      <3>1. PICK none : none = <<>>
        OBVIOUS
      <3>2. none \in Seq(VaultCalls) /\ Len(none) = 0
        BY <3>1
      <3>3. run' = [run EXCEPT !.calls = none]
        BY <2>1, <3>1
      <3>4. /\ {"op", "side", "by", "amount", "limit", "calls"} \subseteq DOMAIN run' /\ run'.side = run.side
            /\ run'.by = run.by /\ run'.amount = run.amount /\ run'.calls = none
        BY <2>2, <3>3 DEF HandlerHolds
      <3>5. QED
        BY <2>2, <3>2, <3>4 DEF HandlerHolds
    <2>5. run.by \in Accounts \cup {Nobody}
      BY <2>2 DEF HandlerHolds
    <2>6. ReadsHold'
      BY <1>begins, <1>kc, <2>1, <2>5
    <2>7. QED
      BY <1>c, <1>kc, <1>kd, <1>kr, <1>kw, <2>1, <2>3, <2>4, <2>6
  \* The chain alone.
  <1>chain. ASSUME TopicHolds(chain'), Kept(chain, chain'), UNCHANGED <<wallet, page, reads, run>> PROVE PayoutHolds'
    BY <1>c, <1>chain, <1>kd, <1>kr, <1>krs, <1>kw
  <1>19. CASE Vault!DeadlinePasses
    <2>1. chain' = [chain EXCEPT !.late = TRUE] /\ UNCHANGED <<wallet, page, reads, run>>
      BY <1>19 DEF Vault!DeadlinePasses
    <2>4. /\ TopicFields \subseteq DOMAIN chain' /\ chain'.resolved = chain.resolved
          /\ chain'.outcome = chain.outcome /\ chain'.pool = chain.pool /\ chain'.left = chain.left
          /\ chain'.claims = chain.claims /\ chain'.claimed = chain.claimed /\ chain'.price = chain.price
          /\ chain'.stake = chain.stake /\ chain'.side = chain.side /\ chain'.fees = chain.fees /\ chain.price \in Int
      BY <1>c, <2>1 DEF TopicHolds, TopicFields
    <2>2. TopicHolds(chain') /\ Kept(chain, chain')
      BY <1>c, <2>4, TopicAlike
    <2>3. QED
      BY <1>chain, <2>1, <2>2
  <1>20. CASE Vault!PriceMoves
    <2>1. PICK p \in Prices : chain' = [chain EXCEPT !.price = p]
      BY <1>20 DEF Vault!PriceMoves
    <2>2. p \in Int
      BY VaultBounds
    <2>5. /\ TopicFields \subseteq DOMAIN chain' /\ chain'.resolved = chain.resolved
          /\ chain'.outcome = chain.outcome /\ chain'.pool = chain.pool /\ chain'.left = chain.left
          /\ chain'.claims = chain.claims /\ chain'.claimed = chain.claimed /\ chain'.price = p
          /\ chain'.stake = chain.stake /\ chain'.side = chain.side /\ chain'.fees = chain.fees
      BY <1>c, <2>1 DEF TopicHolds, TopicFields
    <2>3. TopicHolds(chain') /\ Kept(chain, chain')
      BY <1>c, <2>2, <2>5, TopicAlike
    <2>4. QED
      BY <1>20, <1>chain, <2>3 DEF Vault!PriceMoves
  <1>21. CASE Vault!SomebodyResolves
    <2>1. ~chain.resolved /\ chain' = Vault!Settled(chain) /\ UNCHANGED <<wallet, page, reads, run>>
      BY <1>21 DEF Vault!SomebodyResolves
    <2>2. TopicHolds(chain') /\ Kept(chain, chain')
      BY <1>c, <2>1, SettledHolds
    <2>3. QED
      BY <1>chain, <2>1, <2>2
  <1>22. ASSUME NEW a \in Accounts, Vault!SomebodyLeaves(a) PROVE PayoutHolds'
    <2>1. Vault!CanLeave(chain, a) /\ chain' = Vault!Left(chain, a) /\ UNCHANGED <<wallet, page, reads, run>>
      BY <1>22 DEF Vault!SomebodyLeaves
    <2>2. TopicHolds(chain') /\ Kept(chain, chain')
      BY <1>c, <2>1, LeftHolds
    <2>3. QED
      BY <1>chain, <2>1, <2>2
  <1>23. CASE UNCHANGED Vault!vars
    <2>1. UNCHANGED <<chain, wallet, page, reads, run>>
      BY <1>23 DEF Vault!vars
    <2>2. QED
      BY <1>page, <2>1
  <1>24. QED
    BY <1>1, <1>2, <1>3, <1>4, <1>5, <1>6, <1>7, <1>8, <1>9, <1>10, <1>11, <1>13, <1>14, <1>15, <1>16, <1>17, <1>18,
       <1>19, <1>20, <1>21, <1>22, <1>23 DEF Vault!Next

------------------------------------------------------------------------------
(* GenesisPanel: arithmetic of the curve. *)

\* The quotient is what its defining inequalities say.
LEMMA Quotient ==
    ASSUME NEW a \in Nat, NEW d \in Nat \ {0}, NEW q, q = a \div d
    PROVE  q \in Nat /\ d * q <= a /\ a < d * q + d
  OBVIOUS
LEMMA QuotientIs ==
    ASSUME NEW a \in Nat, NEW d \in Nat \ {0}, NEW q \in Nat, d * q <= a
    PROVE  q <= a \div d
  OBVIOUS
LEMMA ProductGrows ==
    ASSUME NEW a \in Nat, NEW b \in Nat, a <= b, NEW c \in Nat
    PROVE  a * c <= b * c /\ c * a <= c * b
  OBVIOUS
LEMMA ProductReflects ==
    ASSUME NEW a \in Nat, NEW b \in Nat, NEW c \in Nat \ {0}, c * a <= c * b
    PROVE  a <= b
  OBVIOUS

\* T * C / (V + C) grows with C, and stays below T.
LEMMA OutputGrows ==
    ASSUME NEW T \in Nat, NEW V \in Nat \ {0}, NEW C \in Nat, NEW D \in Nat, C <= D
    PROVE  (T * C) \div (V + C) <= (T * D) \div (V + D)
  <1>1. PICK q : q = (T * C) \div (V + C)
    OBVIOUS
  <1>2. PICK p : p = T * C
    OBVIOUS
  <1>3. p \in Nat /\ V + C \in Nat \ {0} /\ V + D \in Nat \ {0} /\ T * D \in Nat
    BY <1>2
  <1>4. q \in Nat /\ (V + C) * q <= p
    BY <1>1, <1>2, <1>3, Quotient
  <1>5. q <= T
    <2>1. p <= (V + C) * T
      BY <1>2
    <2>2. (V + C) * q <= (V + C) * T
      BY <1>3, <1>4, <2>1
    <2>3. QED
      BY <1>3, <1>4, <2>2, ProductReflects
  <1>6. (D - C) * q <= (D - C) * T
    BY <1>4, <1>5, ProductGrows
  <1>7. (V + D) * q = (V + C) * q + (D - C) * q
    BY <1>4
  <1>8. T * D = p + (D - C) * T
    BY <1>2
  <1>9. (V + D) * q <= T * D
    BY <1>3, <1>4, <1>6, <1>7, <1>8
  <1>10. QED
    BY <1>1, <1>3, <1>4, <1>9, QuotientIs

LEMMA OutputIsLess ==
    ASSUME NEW T \in Nat \ {0}, NEW V \in Nat \ {0}, NEW C \in Nat
    PROVE  (T * C) \div (V + C) \in Nat /\ (T * C) \div (V + C) < T
  <1>1. PICK q : q = (T * C) \div (V + C)
    OBVIOUS
  <1>2. T * C \in Nat /\ V + C \in Nat \ {0}
    OBVIOUS
  <1>3. q \in Nat /\ (V + C) * q <= T * C
    BY <1>1, <1>2, Quotient
  <1>4. q < T
    <2>1. SUFFICES ASSUME T <= q PROVE FALSE
      BY <1>3
    <2>2. (V + C) * T <= (V + C) * q
      BY <1>2, <1>3, <2>1, ProductGrows
    <2>3. (V + C) * T = V * T + T * C /\ V * T > 0
      OBVIOUS
    <2>4. QED
      BY <1>2, <1>3, <2>2, <2>3
  <1>5. QED
    BY <1>1, <1>3, <1>4

\* What is locked when so much has been retained.
Locks(x) == (x * CapitalBps) \div 9900

LEMMA LocksGrow ==
    ASSUME NEW x \in Nat, NEW d \in Nat
    PROVE  Locks(x) \in Nat /\ Locks(x + d) - Locks(x) \in 0..d
  <1>0. CapitalBps \in 0..9899
    BY SiteAssumption DEF Genesis!GenesisPanelAssumption
  <1>1. PICK p, e : p = x * CapitalBps /\ e = d * CapitalBps
    OBVIOUS
  <1>2. p \in Nat /\ e \in Nat /\ e <= 9899 * d /\ (x + d) * CapitalBps = p + e
    BY <1>0, <1>1
  <1>3. PICK a, b : a = p \div 9900 /\ b = (p + e) \div 9900
    OBVIOUS
  <1>4. /\ a \in Nat /\ 9900 * a <= p /\ p < 9900 * a + 9900
        /\ b \in Nat /\ 9900 * b <= p + e /\ p + e < 9900 * b + 9900
    BY <1>2, <1>3
  <1>5. b - a \in 0..d
    BY <1>2, <1>4
  <1>6. Locks(x) = a /\ Locks(x + d) = b
    BY <1>1, <1>2, <1>3 DEF Locks
  <1>7. QED
    BY <1>4, <1>5, <1>6

(* The bisection of budgetForGenesisShares: the least of 1..C with a property that *)
(* those above it share.  ok is the set of those that have it.                     *)
Middle(r) == (r[1] + r[2]) \div 2
Bisect(ok, f, r) ==
    IF r[1] >= r[2] THEN r[1]
    ELSE IF Middle(r) \in ok THEN f[<<r[1], Middle(r)>>]
    ELSE f[<<Middle(r) + 1, r[2]>>]
Bisected(ok, C, f) == f = [r \in (1..C) \X (1..C) |-> Bisect(ok, f, r)]

LEMMA BisectionExists ==
    ASSUME NEW C \in Nat, NEW ok \in SUBSET (1..C), NEW L \in ok,
           \A b \in 1..C : b \in ok <=> L <= b
    PROVE  \E f : Bisected(ok, C, f)
  <1> DEFINE v(r) == IF r[1] >= r[2] \/ L <= r[1] THEN r[1] ELSE IF L >= r[2] THEN r[2] ELSE L
             f == [r \in (1..C) \X (1..C) |-> v(r)]
  <1>1. ASSUME NEW r \in (1..C) \X (1..C) PROVE v(r) = Bisect(ok, f, r)
    <2>1. PICK low, high : low = r[1] /\ high = r[2] /\ low \in 1..C /\ high \in 1..C
      OBVIOUS
    <2>2. CASE low >= high
      BY <2>1, <2>2 DEF Bisect
    <2>3. CASE low < high
      <3>1. PICK m : m = Middle(r)
        OBVIOUS
      <3>2. m \in 1..C /\ m + 1 \in 1..C /\ low <= m /\ m < high
        BY <2>1, <2>3, <3>1 DEF Middle
      <3>3. m \in ok <=> L <= m
        BY <3>2
      <3>4. f[<<low, m>>] = IF low >= m \/ L <= low THEN low ELSE IF L >= m THEN m ELSE L
        <4>1. <<low, m>> \in (1..C) \X (1..C)
          BY <2>1, <3>2
        <4>2. QED
          BY <4>1
      <3>5. f[<<m + 1, high>>] = IF m + 1 >= high \/ L <= m + 1 THEN m + 1 ELSE IF L >= high THEN high ELSE L
        <4>1. <<m + 1, high>> \in (1..C) \X (1..C)
          BY <2>1, <3>2
        <4>2. QED
          BY <4>1
      <3>6. v(r) = IF low >= high \/ L <= low THEN low ELSE IF L >= high THEN high ELSE L
        BY <2>1
      <3>7. L \in 1..C
        OBVIOUS
      <3>8. Bisect(ok, f, r) = IF m \in ok THEN f[<<low, m>>] ELSE f[<<m + 1, high>>]
        BY <2>1, <2>3, <3>1 DEF Bisect
      <3> HIDE DEF f, v
      <3>9. QED
        BY <2>1, <2>3, <3>2, <3>3, <3>4, <3>5, <3>6, <3>7, <3>8
    <2>4. QED
      BY <2>1, <2>2, <2>3
  <1>2. f = [r \in (1..C) \X (1..C) |-> Bisect(ok, f, r)]
    <2> HIDE DEF v
    <2>1. QED
      BY <1>1
  <1>3. QED
    BY <1>2 DEF Bisected

LEMMA BisectionFinds ==
    ASSUME NEW C \in Nat, NEW ok \in SUBSET (1..C), NEW L \in ok,
           \A b \in 1..C : b \in ok <=> L <= b, NEW f, Bisected(ok, C, f)
    PROVE  f[<<1, C>>] = L
  <1>0. L \in 1..C
    OBVIOUS
  <1>1. ASSUME NEW low \in 1..C, NEW high \in 1..C, NEW m, m = (low + high) \div 2
        PROVE  f[<<low, high>>] = IF low >= high THEN low
                                  ELSE IF m \in ok THEN f[<<low, m>>] ELSE f[<<m + 1, high>>]
    <2>1. <<low, high>> \in (1..C) \X (1..C)
      OBVIOUS
    <2>2. f[<<low, high>>] = Bisect(ok, f, <<low, high>>)
      BY <2>1 DEF Bisected
    <2>3. QED
      BY <1>1, <2>2 DEF Bisect, Middle
  <1>1a. ASSUME NEW low \in 1..C, NEW high \in 1..C, low >= high PROVE f[<<low, high>>] = low
    <2>1. <<low, high>> \in (1..C) \X (1..C)
      OBVIOUS
    <2>2. f[<<low, high>>] = Bisect(ok, f, <<low, high>>)
      BY <2>1 DEF Bisected
    <2>3. QED
      BY <1>1a, <2>2 DEF Bisect
  <1> DEFINE Q == {n \in Nat : \A low, high \in 1..C :
                      low <= L /\ L <= high /\ high - low <= n => f[<<low, high>>] = L}
  <1>2. 0 \in Q
    <2> SUFFICES ASSUME NEW low \in 1..C, NEW high \in 1..C, low <= L, L <= high, high - low <= 0
                 PROVE  f[<<low, high>>] = L
      OBVIOUS
    <2>1. low = L /\ high = L
      BY <1>0
    <2>2. f[<<low, high>>] = low
      BY <1>1a, <2>1
    <2>3. QED
      BY <2>1, <2>2
  <1>3. ASSUME NEW n \in Nat, n \in Q PROVE n + 1 \in Q
    <2> SUFFICES ASSUME NEW low \in 1..C, NEW high \in 1..C, low <= L, L <= high, high - low <= n + 1
                 PROVE  f[<<low, high>>] = L
      OBVIOUS
    <2>0. PICK m : m = (low + high) \div 2
      OBVIOUS
    <2>1. CASE low >= high
      <3>1. low = L
        BY <1>0, <2>1
      <3>2. f[<<low, high>>] = low
        BY <1>1a, <2>1
      <3>3. QED
        BY <3>1, <3>2
    <2>2. CASE low < high
      <3>2. m \in 1..C /\ m + 1 \in 1..C /\ low <= m /\ m < high
        BY <2>2, <2>0
      <3>3. f[<<low, high>>] = IF m \in ok THEN f[<<low, m>>] ELSE f[<<m + 1, high>>]
        BY <1>1, <2>2, <2>0
      <3>4. CASE m \in ok
        <4>1. L <= m /\ m - low <= n
          BY <3>2, <3>4
        <4>2. f[<<low, m>>] = L
          BY <1>3, <3>2, <4>1
        <4>3. QED
          BY <3>3, <3>4, <4>2
      <3>5. CASE m \notin ok
        <4>1. m + 1 <= L /\ high - (m + 1) <= n
          BY <1>0, <3>2, <3>5
        <4>2. f[<<m + 1, high>>] = L
          BY <1>3, <3>2, <4>1
        <4>3. QED
          BY <3>3, <3>5, <4>2
      <3>6. QED
        BY <3>4, <3>5
    <2>3. QED
      BY <2>1, <2>2
  <1> HIDE DEF Q
  <1>4. \A n \in Nat : n \in Q
    BY <1>2, <1>3, Induction
  <1>5. C \in Q /\ 1 \in 1..C /\ C \in 1..C /\ C - 1 <= C
    BY <1>0, <1>4
  <1>6. QED
    BY <1>0, <1>5 DEF Q

(* GenesisPanel: a budget that is quoted.                                          *)
CurveHolds(g) ==
    /\ g.reserve \in Int /\ g.locked \in Int /\ g.cumulative \in Nat /\ g.sold \in Int
    /\ g.locked = Locks(g.cumulative)
    /\ VirtualQuote + g.reserve > 0 /\ VirtualSupply - g.sold > 0
    /\ Threshold - (g.reserve + g.locked) >= 0

LEMMA GenesisBounds ==
    /\ Threshold \in Nat \ {0} /\ VirtualQuote \in Nat \ {0} /\ VirtualSupply \in Nat \ {0}
    /\ CapitalBps \in 0..9899 /\ Wanted \subseteq Nat \ {0} /\ Bids \subseteq Nat \ {0} /\ Nobody \notin Accounts
  BY SiteAssumption DEF Genesis!GenesisPanelAssumption

LEMMA BoughtIs ==
    ASSUME NEW g, CurveHolds(g), NEW b \in Nat
    PROVE  /\ Genesis!Retained(g, b) \in Nat /\ Genesis!Retained(g, b) <= Genesis!Gap(g) /\ Genesis!Gap(g) \in Nat
           /\ Genesis!Capital(g, b) \in Nat /\ Genesis!Curve(g, b) \in Nat
           /\ Genesis!Retained(g, b) = Genesis!Capital(g, b) + Genesis!Curve(g, b)
           /\ Genesis!Capital(g, b) = Locks(g.cumulative + Genesis!Retained(g, b)) - g.locked
           /\ Genesis!Output(g, b) \in Nat /\ Genesis!Output(g, b) < VirtualSupply - g.sold
           /\ Genesis!Output(g, b) = ((VirtualSupply - g.sold) * Genesis!Curve(g, b))
                                       \div (VirtualQuote + g.reserve + Genesis!Curve(g, b))
  <1>1. PICK r : r = Genesis!Retained(g, b)
    OBVIOUS
  <1>2. Genesis!Gap(g) \in Nat
    BY GenesisBounds DEF Genesis!Gap, CurveHolds
  <1>3. r \in Nat /\ r <= Genesis!Gap(g)
    BY <1>1, <1>2 DEF Genesis!Retained
  <1>4. PICK k : k = Genesis!Capital(g, b)
    OBVIOUS
  <1>5. k = Locks(g.cumulative + r) - g.locked /\ k \in 0..r
    <2>1. k = Locks(g.cumulative + r) - g.locked
      BY <1>1, <1>4 DEF Genesis!Capital, Locks
    <2>2. g.cumulative \in Nat /\ g.locked = Locks(g.cumulative)
      BY DEF CurveHolds
    <2>3. Locks(g.cumulative + r) - Locks(g.cumulative) \in 0..r
      BY <1>3, <2>2, LocksGrow
    <2>4. QED
      BY <2>1, <2>2, <2>3
  <1>6. PICK c : c = Genesis!Curve(g, b)
    OBVIOUS
  <1>7. c = r - k /\ c \in Nat
    <2>1. c = r - k
      BY <1>1, <1>4, <1>6 DEF Genesis!Curve
    <2>2. r \in Nat /\ k \in 0..r
      BY <1>3, <1>5
    <2>3. QED
      BY <2>1, <2>2
  <1>8. PICK t, v : t = VirtualSupply - g.sold /\ v = VirtualQuote + g.reserve
    OBVIOUS
  <1>9. t \in Nat \ {0} /\ v \in Nat \ {0}
    BY <1>8, GenesisBounds DEF CurveHolds
  <1>10. Genesis!Output(g, b) = IF c <= 0 THEN 0 ELSE (t * c) \div (v + c)
    BY <1>6, <1>8 DEF Genesis!Output, Genesis!TokenReserve
  <1>11. (t * c) \div (v + c) \in Nat /\ (t * c) \div (v + c) < t
    BY <1>7, <1>9, OutputIsLess
  <1>12. c = 0 => (t * c) \div (v + c) = 0
    BY <1>9
  <1>13. Genesis!Output(g, b) = (t * c) \div (v + c)
    BY <1>7, <1>10, <1>12
  <1>14. QED
    BY <1>1, <1>2, <1>3, <1>4, <1>5, <1>6, <1>7, <1>8, <1>11, <1>13

LEMMA MoreBuysMore ==
    ASSUME NEW g, CurveHolds(g), NEW a \in Nat, NEW b \in Nat, a <= b
    PROVE  Genesis!Output(g, a) <= Genesis!Output(g, b)
  <1>1. PICK r, s : r = Genesis!Retained(g, a) /\ s = Genesis!Retained(g, b)
    OBVIOUS
  <1>2. PICK c, d : c = Genesis!Curve(g, a) /\ d = Genesis!Curve(g, b)
    OBVIOUS
  <1>3. r \in Nat /\ s \in Nat /\ c \in Nat /\ d \in Nat
    BY <1>1, <1>2, BoughtIs
  <1>4. r <= s
    <2>1. PICK x, y : x = (a * 9900) \div 10000 /\ y = (b * 9900) \div 10000
      OBVIOUS
    <2>2. x \in Nat /\ y \in Nat /\ x <= y
      BY <2>1
    <2>3. Genesis!Gap(g) \in Nat
      BY BoughtIs
    <2>4. QED
      BY <1>1, <2>1, <2>2, <2>3 DEF Genesis!Retained
  <1>5. c <= d
    <2>1. PICK k, l : k = Genesis!Capital(g, a) /\ l = Genesis!Capital(g, b)
      OBVIOUS
    <2>2. /\ r = k + c /\ s = l + d /\ k \in Nat /\ l \in Nat
          /\ k = Locks(g.cumulative + r) - g.locked
          /\ l = Locks(g.cumulative + s) - g.locked
      BY <1>1, <1>2, <2>1, BoughtIs
    <2>3. PICK u, w : u = g.cumulative + r /\ w = s - r
      OBVIOUS
    <2>4. u \in Nat /\ w \in Nat /\ g.cumulative + s = u + w
      BY <1>3, <1>4, <2>3 DEF CurveHolds
    <2>5. Locks(u) \in Nat /\ Locks(u + w) - Locks(u) \in 0..w
      BY <2>4, LocksGrow
    <2>6. g.locked \in Int
      BY DEF CurveHolds
    <2>7. PICK x, y : x = Locks(u) /\ y = Locks(u + w)
      OBVIOUS
    <2>8. k = x - g.locked /\ l = y - g.locked
      BY <2>2, <2>3, <2>4, <2>7
    <2>9. x \in Nat /\ y - x \in 0..w /\ y \in Int
      <3>1. w \in Nat /\ u \in Nat
        BY <2>4
      <3>2. y = Locks(u + w) /\ u + w \in Nat
        BY <2>7, <3>1
      <3>3. Locks(u + w) \in Nat
        <4>1. 0 \in Nat
          OBVIOUS
        <4>2. QED
          BY <3>2, <4>1, LocksGrow
      <3>4. QED
        BY <2>5, <2>7, <3>3
    <2>10. l - k <= w
      BY <2>4, <2>6, <2>8, <2>9
    <2>11. c = r - k /\ d = s - l
      BY <1>3, <2>2
    <2>12. l - k <= s - r
      BY <2>3, <2>10
    <2>13. r \in Int /\ s \in Int /\ k \in Int /\ l \in Int
      BY <1>3, <2>2
    <2>14. r - k <= s - l
      BY <2>12, <2>13
    <2>15. QED
      BY <2>11, <2>14
  <1>6. PICK t, v : t = VirtualSupply - g.sold /\ v = VirtualQuote + g.reserve
    OBVIOUS
  <1>7. t \in Nat /\ v \in Nat \ {0}
    BY <1>6, GenesisBounds DEF CurveHolds
  <1>8. (t * c) \div (v + c) <= (t * d) \div (v + d)
    BY <1>3, <1>5, <1>7, OutputGrows
  <1>9. QED
    BY <1>2, <1>6, <1>8, BoughtIs

\* The search of budgetForGenesisShares, as the panel writes it.
Quoted(g, n, f) ==
    f = [r \in (1..Genesis!Cap(g)) \X (1..Genesis!Cap(g)) |->
           IF r[1] >= r[2] THEN r[1]
           ELSE IF Genesis!Output(g, Middle(r)) >= n THEN f[<<r[1], Middle(r)>>]
           ELSE f[<<Middle(r) + 1, r[2]>>]]

LEMMA BudgetIsSearched ==
    \A g, n : Genesis!Budget(g, n) = IF n > Genesis!Output(g, Genesis!Cap(g)) THEN 0
                                     ELSE (CHOOSE f : Quoted(g, n, f))[<<1, Genesis!Cap(g)>>]
  BY DEF Genesis!Budget, Quoted, Middle

LEMMA CapIs == ASSUME NEW g, CurveHolds(g) PROVE Genesis!Cap(g) \in Nat
  <1>1. PICK x : x = Genesis!Gap(g)
    OBVIOUS
  <1>2. x \in Nat
    BY <1>1, BoughtIs
  <1>3. Genesis!Cap(g) = (x * 10000 + 9900 - 1) \div 9900
    BY <1>1 DEF Genesis!Cap, Genesis!CeilDiv
  <1>4. QED
    BY <1>2, <1>3

LEMMA BudgetIs ==
    ASSUME NEW g, CurveHolds(g), NEW n \in Nat \ {0}, NEW budget, budget = Genesis!Budget(g, n)
    PROVE  /\ budget \in Nat
           /\ IF budget = 0 THEN \A b \in 1..Genesis!Cap(g) : Genesis!Output(g, b) < n
              ELSE Genesis!Output(g, budget) >= n /\ \A b \in 1..(budget - 1) : Genesis!Output(g, b) < n
  <1>1. PICK C : C = Genesis!Cap(g)
    OBVIOUS
  <1>2. C \in Nat
    BY <1>1, CapIs
  <1>3. \A b \in Nat : Genesis!Output(g, b) \in Nat
    BY BoughtIs
  <1>4. CASE n > Genesis!Output(g, C)
    <2>1. budget = 0
      BY <1>1, <1>4, BudgetIsSearched
    <2>2. ASSUME NEW b \in 1..C PROVE Genesis!Output(g, b) < n
      <3>1. b \in Nat /\ b <= C
        BY <1>2
      <3>2. Genesis!Output(g, b) <= Genesis!Output(g, C)
        BY <1>2, <3>1, MoreBuysMore
      <3>3. Genesis!Output(g, b) \in Nat /\ Genesis!Output(g, C) \in Nat
        BY <1>2, <1>3, <3>1
      <3>4. QED
        BY <1>4, <3>2, <3>3
    <2>3. QED
      BY <1>1, <2>1, <2>2
  <1>5. CASE ~(n > Genesis!Output(g, C))
    <2>1. C # 0
      <3>1. CASE C = 0
        <4>1. Genesis!Retained(g, 0) = 0
          <5>1. Genesis!Gap(g) \in Nat
            BY BoughtIs
          <5>2. QED
            BY <5>1 DEF Genesis!Retained
        <4>2. 0 \in Nat
          OBVIOUS
        <4>3. Genesis!Capital(g, 0) \in Nat /\ Genesis!Curve(g, 0) \in Nat /\ 0 = Genesis!Capital(g, 0) + Genesis!Curve(g, 0)
          BY <4>1, <4>2, BoughtIs
        <4>4. Genesis!Curve(g, 0) = 0
          BY <4>3
        <4>5. Genesis!Output(g, C) = 0
          BY <3>1, <4>4 DEF Genesis!Output
        <4>6. QED
          BY <1>5, <4>5
      <3>2. QED
        BY <3>1
    <2> DEFINE ok == {b \in 1..C : Genesis!Output(g, b) >= n}
    <2>2. C \in ok
      <3>1. C \in 1..C /\ Genesis!Output(g, C) \in Nat
        BY <1>2, <1>3, <2>1
      <3>2. QED
        BY <1>5, <3>1
    <2>3. PICK L \in ok : \A b \in ok : L <= b
      <3>1. ok \in SUBSET Nat /\ ok # {}
        BY <1>2, <2>2
      <3> HIDE DEF ok
      <3>2. QED
        BY <3>1, LeastExists
    <2>4. L \in 1..C /\ L \in Nat /\ Genesis!Output(g, L) >= n
      BY <1>2, <2>3
    <2>5. ASSUME NEW b \in 1..C PROVE b \in ok <=> L <= b
      <3>1. ASSUME L <= b PROVE b \in ok
        <4>1. b \in Nat
          BY <1>2
        <4>2. Genesis!Output(g, L) <= Genesis!Output(g, b)
          BY <2>4, <3>1, <4>1, MoreBuysMore
        <4>3. Genesis!Output(g, b) \in Nat /\ Genesis!Output(g, L) \in Nat
          BY <1>3, <2>4, <4>1
        <4>4. QED
          BY <2>4, <4>2, <4>3
      <3>2. QED
        BY <2>3, <3>1
    <2>6. ASSUME NEW f PROVE Quoted(g, n, f) <=> Bisected(ok, C, f)
      <3>1. ASSUME NEW r \in (1..C) \X (1..C)
            PROVE  Bisect(ok, f, r) = IF r[1] >= r[2] THEN r[1]
                                      ELSE IF Genesis!Output(g, Middle(r)) >= n THEN f[<<r[1], Middle(r)>>]
                                      ELSE f[<<Middle(r) + 1, r[2]>>]
        <4>1. CASE r[1] >= r[2]
          BY <4>1 DEF Bisect
        <4>2. CASE r[1] < r[2]
          <5>1. Middle(r) \in 1..C
            BY <1>2, <4>2 DEF Middle
          <5>2. Middle(r) \in ok <=> Genesis!Output(g, Middle(r)) >= n
            BY <5>1
          <5> HIDE DEF ok
          <5>3. QED
            BY <4>2, <5>2 DEF Bisect
        <4>3. QED
          BY <1>2, <4>1, <4>2
      <3>2. [r \in (1..C) \X (1..C) |-> Bisect(ok, f, r)] =
            [r \in (1..C) \X (1..C) |->
               IF r[1] >= r[2] THEN r[1]
               ELSE IF Genesis!Output(g, Middle(r)) >= n THEN f[<<r[1], Middle(r)>>]
               ELSE f[<<Middle(r) + 1, r[2]>>]]
        <4> HIDE DEF ok
        <4>1. QED
          BY <3>1
      <3> HIDE DEF ok
      <3>3. QED
        BY <1>1, <3>2 DEF Quoted, Bisected
    <2>7. ok \in SUBSET (1..C)
      OBVIOUS
    <2> HIDE DEF ok
    <2>8. \E f : Bisected(ok, C, f)
      BY <1>2, <2>3, <2>5, <2>7, BisectionExists
    <2>9. PICK f : f = CHOOSE h : Quoted(g, n, h)
      OBVIOUS
    <2>10. Bisected(ok, C, f)
      BY <2>6, <2>8, <2>9
    <2>11. f[<<1, C>>] = L
      BY <1>2, <2>3, <2>5, <2>7, <2>10, BisectionFinds
    <2>12. budget = L
      BY <1>1, <1>5, <2>9, <2>11, BudgetIsSearched
    <2>13. ASSUME NEW b \in 1..(L - 1) PROVE Genesis!Output(g, b) < n
      <3>1. b \in 1..C /\ b \in Nat /\ ~(L <= b)
        BY <1>2, <2>4
      <3>2. b \notin ok
        BY <2>5, <3>1
      <3>3. Genesis!Output(g, b) \in Nat
        BY <1>3, <3>1
      <3>4. QED
        BY <3>1, <3>2, <3>3 DEF ok
    <2>14. QED
      BY <2>4, <2>12, <2>13
  <1>6. QED
    BY <1>4, <1>5

(* GenesisPanel: the curve after every trade, the form and the transaction.        *)
Geneses ==
    [phase : {"genesis", "graduated", "failed"}, expired : BOOLEAN, settled : BOOLEAN, reserve : Int,
     sold : Int, cumulative : Nat, locked : Int, held : [Accounts -> Nat], claimed : SUBSET Accounts]
GenesisHolds == genesis \in Geneses /\ CurveHolds(genesis)
PanelHolds ==
    /\ {"account", "amount"} \subseteq DOMAIN page
    /\ page.account \in Accounts \cup {Nobody} /\ page.amount \in Wanted
GenesisRuns ==
    [at : {"check", "approve", "send", "refresh"}, kind : Genesis!Kinds, by : Accounts, amount : Wanted,
     budget : Nat, least : Int]
\* A purchase that has been quoted asks for the shares of the form.
PurchaseHolds(r) == r.kind = "buy" /\ r.at \in {"approve", "send"} => r.least = r.amount
GenesisRunHolds == run = Genesis!NoRun \/ (run \in GenesisRuns /\ PurchaseHolds(run))
GenesisInv == GenesisHolds /\ PanelHolds /\ GenesisRunHolds

LEMMA BoughtHolds ==
    ASSUME NEW g \in Geneses, CurveHolds(g), NEW a \in Accounts, NEW b \in Nat
    PROVE  /\ Genesis!Bought(g, a, b) \in Geneses /\ CurveHolds(Genesis!Bought(g, a, b))
           /\ Genesis!Bought(g, a, b).held[a] = g.held[a] + Genesis!Output(g, b)
  <1>1. PICK r, k, c, o : /\ r = Genesis!Retained(g, b) /\ k = Genesis!Capital(g, b)
                          /\ c = Genesis!Curve(g, b) /\ o = Genesis!Output(g, b)
    OBVIOUS
  <1>2. /\ r \in Nat /\ r <= Genesis!Gap(g) /\ k \in Nat /\ c \in Nat /\ r = k + c
        /\ k = Locks(g.cumulative + r) - g.locked /\ o \in Nat /\ o < VirtualSupply - g.sold
    BY <1>1, BoughtIs
  <1>3. PICK g1 : g1 = [g EXCEPT !.reserve = @ + c]
    OBVIOUS
  <1>4. PICK g2 : g2 = [g1 EXCEPT !.locked = @ + k]
    OBVIOUS
  <1>5. PICK g3 : g3 = [g2 EXCEPT !.cumulative = @ + r]
    OBVIOUS
  <1>6. PICK g4 : g4 = [g3 EXCEPT !.sold = @ + o]
    OBVIOUS
  <1>7. PICK g5 : g5 = [g4 EXCEPT !.held[a] = @ + o]
    OBVIOUS
  <1>8. PICK ph : ph = IF Genesis!Gap(g5) = 0 THEN "graduated" ELSE g5.phase
    OBVIOUS
  <1>9. Genesis!Bought(g, a, b) = [g5 EXCEPT !.phase = ph]
    BY <1>1, <1>3, <1>4, <1>5, <1>6, <1>7, <1>8 DEF Genesis!Bought
  <1>10. PICK g6 : g6 = [g5 EXCEPT !.phase = ph]
    OBVIOUS
  <1>11. g1 \in Geneses /\ g1.reserve = g.reserve + c /\ g1.locked = g.locked /\ g1.cumulative = g.cumulative
         /\ g1.sold = g.sold /\ g1.held = g.held
    BY <1>2, <1>3 DEF Geneses
  <1>12. g2 \in Geneses /\ g2.reserve = g1.reserve /\ g2.locked = g.locked + k /\ g2.cumulative = g.cumulative
         /\ g2.sold = g.sold /\ g2.held = g.held
    BY <1>2, <1>4, <1>11 DEF Geneses
  <1>13. g3 \in Geneses /\ g3.reserve = g2.reserve /\ g3.locked = g2.locked /\ g3.cumulative = g.cumulative + r
         /\ g3.sold = g.sold /\ g3.held = g.held
    <2>1. PICK x : x = g2.cumulative + r
      OBVIOUS
    <2>2. x \in Nat /\ x = g.cumulative + r
      <3>1. g2.cumulative = g.cumulative
        BY <1>12
      <3>2. g.cumulative \in Nat
        BY DEF Geneses
      <3>3. r \in Nat
        BY <1>2
      <3>4. QED
        BY <2>1, <3>1, <3>2, <3>3
    <2>3. g3 = [g2 EXCEPT !.cumulative = x]
      BY <1>5, <2>1
    <2>4. QED
      BY <1>12, <2>2, <2>3 DEF Geneses
  <1>14. g4 \in Geneses /\ g4.reserve = g3.reserve /\ g4.locked = g3.locked /\ g4.cumulative = g3.cumulative
         /\ g4.sold = g.sold + o /\ g4.held = g.held
    <2>1. PICK x : x = g3.sold + o
      OBVIOUS
    <2>2. x \in Int /\ x = g.sold + o
      BY <1>2, <1>13, <2>1 DEF Geneses
    <2>3. g4 = [g3 EXCEPT !.sold = x]
      BY <1>6, <2>1
    <2>4. QED
      BY <1>13, <2>2, <2>3 DEF Geneses
  <1>15. g5 \in Geneses /\ g5.reserve = g4.reserve /\ g5.locked = g4.locked /\ g5.cumulative = g4.cumulative
         /\ g5.sold = g4.sold /\ g5.held[a] = g.held[a] + o
    <2>1. PICK h : h = [g.held EXCEPT ![a] = @ + o]
      OBVIOUS
    <2>2. h \in [Accounts -> Nat] /\ h[a] = g.held[a] + o
      BY <1>2, <2>1 DEF Geneses
    <2>3. g5 = [g4 EXCEPT !.held = h]
      BY <1>7, <1>14, <2>1 DEF Geneses
    <2>4. QED
      BY <1>14, <2>2, <2>3 DEF Geneses
  <1>16. ph \in {"genesis", "graduated", "failed"}
    BY <1>8, <1>15 DEF Geneses
  <1>17. g6 \in Geneses /\ g6.reserve = g5.reserve /\ g6.locked = g5.locked /\ g6.cumulative = g5.cumulative
         /\ g6.sold = g5.sold /\ g6.held = g5.held
    BY <1>10, <1>15, <1>16 DEF Geneses
  <1>18. /\ g6.reserve = g.reserve + c /\ g6.locked = g.locked + k /\ g6.cumulative = g.cumulative + r
         /\ g6.sold = g.sold + o
    BY <1>11, <1>12, <1>13, <1>14, <1>15, <1>17
  <1>19. CurveHolds(g6)
    <2>1. g6.locked = Locks(g6.cumulative)
      <3>1. PICK w : w = Locks(g.cumulative + r)
        OBVIOUS
      <3>2. k \in Nat /\ k = w - g.locked /\ g.locked = Locks(g.cumulative)
        BY <1>2, <3>1 DEF CurveHolds
      <3>3. w \in Int
        <4>1. g.cumulative + r \in Nat /\ 0 \in Nat
          BY <1>2 DEF Geneses
        <4>2. QED
          BY <3>1, <4>1, LocksGrow
      <3>4. g.locked + k = w
        BY <3>2, <3>3 DEF Geneses
      <3>5. QED
        BY <1>18, <3>1, <3>4
    <2>2. Threshold - (g6.reserve + g6.locked) >= 0
      BY <1>2, <1>18, GenesisBounds DEF Genesis!Gap, CurveHolds
    <2>3. VirtualQuote + g6.reserve > 0 /\ VirtualSupply - g6.sold > 0
      BY <1>2, <1>18, GenesisBounds DEF CurveHolds
    <2>4. g6.reserve \in Int /\ g6.locked \in Int /\ g6.cumulative \in Nat /\ g6.sold \in Int
      BY <1>17 DEF Geneses
    <2>5. QED
      BY <2>1, <2>2, <2>3, <2>4 DEF CurveHolds
  <1>20. g6.held[a] = g.held[a] + o
    BY <1>15, <1>17
  <1>21. QED
    BY <1>1, <1>9, <1>10, <1>17, <1>19, <1>20

LEMMA RefundIs ==
    ASSUME NEW g, CurveHolds(g), NEW n \in Nat
    PROVE  Genesis!Refund(g, n) \in Nat /\ Genesis!Refund(g, n) < VirtualQuote + g.reserve
  <1>1. PICK v, t : v = VirtualQuote + g.reserve /\ t = VirtualSupply - g.sold
    OBVIOUS
  <1>2. v \in Nat \ {0} /\ t \in Nat \ {0}
    BY <1>1, GenesisBounds DEF CurveHolds
  <1>3. (v * n) \div (t + n) \in Nat /\ (v * n) \div (t + n) < v
    BY <1>2, OutputIsLess
  <1>4. Genesis!Refund(g, n) = (v * n) \div (t + n)
    BY <1>1 DEF Genesis!Refund, Genesis!TokenReserve
  <1>5. QED
    BY <1>1, <1>3, <1>4

LEMMA SoldHolds ==
    ASSUME NEW g \in Geneses, CurveHolds(g), NEW a \in Accounts, NEW n \in Nat, n <= g.held[a]
    PROVE  Genesis!Sold(g, a, n) \in Geneses /\ CurveHolds(Genesis!Sold(g, a, n))
  <1>1. PICK r : r = Genesis!Refund(g, n)
    OBVIOUS
  <1>2. r \in Nat /\ r < VirtualQuote + g.reserve
    BY <1>1, RefundIs
  <1>3. PICK g1 : g1 = [g EXCEPT !.reserve = @ - r]
    OBVIOUS
  <1>4. PICK g2 : g2 = [g1 EXCEPT !.sold = @ - n]
    OBVIOUS
  <1>5. PICK g3 : g3 = [g2 EXCEPT !.held[a] = @ - n]
    OBVIOUS
  <1>6. Genesis!Sold(g, a, n) = g3
    BY <1>1, <1>3, <1>4, <1>5 DEF Genesis!Sold
  <1>7. g1 \in Geneses /\ g1.reserve = g.reserve - r /\ g1.locked = g.locked /\ g1.cumulative = g.cumulative
        /\ g1.sold = g.sold /\ g1.held = g.held
    BY <1>2, <1>3 DEF Geneses
  <1>8. g2 \in Geneses /\ g2.reserve = g1.reserve /\ g2.locked = g.locked /\ g2.cumulative = g.cumulative
        /\ g2.sold = g.sold - n /\ g2.held = g.held
    BY <1>4, <1>7 DEF Geneses
  <1>9. g3 \in Geneses /\ g3.reserve = g2.reserve /\ g3.locked = g.locked /\ g3.cumulative = g.cumulative
        /\ g3.sold = g2.sold
    <2>1. PICK h : h = [g.held EXCEPT ![a] = @ - n]
      OBVIOUS
    <2>2. h \in [Accounts -> Nat]
      BY <2>1 DEF Geneses
    <2>3. g3 = [g2 EXCEPT !.held = h]
      BY <1>5, <1>8, <2>1 DEF Geneses
    <2>4. QED
      BY <1>8, <2>2, <2>3 DEF Geneses
  <1>10. g3.reserve = g.reserve - r /\ g3.sold = g.sold - n
    BY <1>7, <1>8, <1>9
  <1>11. CurveHolds(g3)
    BY <1>2, <1>9, <1>10, GenesisBounds DEF CurveHolds
  <1>12. QED
    BY <1>6, <1>9, <1>11

\* A change that leaves the curve alone.
LEMMA FlagsHold ==
    ASSUME NEW g \in Geneses, CurveHolds(g)
    PROVE  /\ \A p \in {"genesis", "graduated", "failed"} :
                 [g EXCEPT !.phase = p] \in Geneses /\ CurveHolds([g EXCEPT !.phase = p])
           /\ [g EXCEPT !.expired = TRUE] \in Geneses /\ CurveHolds([g EXCEPT !.expired = TRUE])
           /\ [g EXCEPT !.settled = TRUE] \in Geneses /\ CurveHolds([g EXCEPT !.settled = TRUE])
           /\ \A a \in Accounts : [g EXCEPT !.claimed = @ \cup {a}] \in Geneses
                                  /\ CurveHolds([g EXCEPT !.claimed = @ \cup {a}])
  <1>1. ASSUME NEW h \in Geneses, h.reserve = g.reserve, h.locked = g.locked, h.cumulative = g.cumulative,
               h.sold = g.sold
        PROVE  CurveHolds(h)
    BY <1>1 DEF CurveHolds
  <1>2. ASSUME NEW p \in {"genesis", "graduated", "failed"}
        PROVE  [g EXCEPT !.phase = p] \in Geneses /\ CurveHolds([g EXCEPT !.phase = p])
    <2>1. PICK h : h = [g EXCEPT !.phase = p]
      OBVIOUS
    <2>2. h \in Geneses /\ h.reserve = g.reserve /\ h.locked = g.locked /\ h.cumulative = g.cumulative /\ h.sold = g.sold
      BY <2>1 DEF Geneses
    <2>3. QED
      BY <1>1, <2>1, <2>2
  <1>3. [g EXCEPT !.expired = TRUE] \in Geneses /\ CurveHolds([g EXCEPT !.expired = TRUE])
    <2>1. PICK h : h = [g EXCEPT !.expired = TRUE]
      OBVIOUS
    <2>2. h \in Geneses /\ h.reserve = g.reserve /\ h.locked = g.locked /\ h.cumulative = g.cumulative /\ h.sold = g.sold
      BY <2>1 DEF Geneses
    <2>3. QED
      BY <1>1, <2>1, <2>2
  <1>4. [g EXCEPT !.settled = TRUE] \in Geneses /\ CurveHolds([g EXCEPT !.settled = TRUE])
    <2>1. PICK h : h = [g EXCEPT !.settled = TRUE]
      OBVIOUS
    <2>2. h \in Geneses /\ h.reserve = g.reserve /\ h.locked = g.locked /\ h.cumulative = g.cumulative /\ h.sold = g.sold
      BY <2>1 DEF Geneses
    <2>3. QED
      BY <1>1, <2>1, <2>2
  <1>5. ASSUME NEW a \in Accounts
        PROVE  [g EXCEPT !.claimed = @ \cup {a}] \in Geneses /\ CurveHolds([g EXCEPT !.claimed = @ \cup {a}])
    <2>1. PICK c : c = g.claimed \cup {a}
      OBVIOUS
    <2>2. c \in SUBSET Accounts
      BY <2>1 DEF Geneses
    <2>3. PICK h : h = [g EXCEPT !.claimed = c]
      OBVIOUS
    <2>4. h \in Geneses /\ h.reserve = g.reserve /\ h.locked = g.locked /\ h.cumulative = g.cumulative /\ h.sold = g.sold
      BY <2>2, <2>3 DEF Geneses
    <2>5. [g EXCEPT !.claimed = @ \cup {a}] = h
      BY <2>1, <2>3
    <2>6. QED
      BY <1>1, <2>4, <2>5
  <1>6. QED
    BY <1>2, <1>3, <1>4, <1>5

LEMMA GenesisInit == Genesis!Init => GenesisInv
  <1> SUFFICES ASSUME Genesis!Init PROVE GenesisInv
    OBVIOUS
  <1>1. Genesis!Fresh \in Geneses /\ CurveHolds(Genesis!Fresh)
    <2>1. PICK g : g = Genesis!Fresh
      OBVIOUS
    <2>2. g = [phase |-> "genesis", expired |-> FALSE, settled |-> FALSE, reserve |-> 0, sold |-> 0,
               cumulative |-> 0, locked |-> 0, held |-> [a \in Accounts |-> 0], claimed |-> {}]
      BY <2>1 DEF Genesis!Fresh
    <2>3. g \in Geneses
      BY <2>2 DEF Geneses
    <2>4. Locks(0) = 0
      BY GenesisBounds DEF Locks
    <2>5. CurveHolds(g)
      BY <2>2, <2>4, GenesisBounds DEF CurveHolds
    <2>6. QED
      BY <2>1, <2>3, <2>5
  <1> DEFINE traded == {Genesis!Fresh} \cup {Genesis!Bought(Genesis!Fresh, a, bid) : a \in Accounts, bid \in Bids}
             late == {[g EXCEPT !.expired = TRUE] : g \in traded}
  <1>2. ASSUME NEW a \in Accounts, NEW bid \in Bids
        PROVE  Genesis!Bought(Genesis!Fresh, a, bid) \in Geneses /\ CurveHolds(Genesis!Bought(Genesis!Fresh, a, bid))
    <2>1. bid \in Nat
      BY GenesisBounds
    <2>2. QED
      BY <1>1, <2>1, BoughtHolds
  <1>3. \A g \in traded : g \in Geneses /\ CurveHolds(g)
    BY <1>1, <1>2
  <1>5. \A g \in late : g \in Geneses /\ CurveHolds(g)
    <2> HIDE DEF traded
    <2>1. QED
      BY <1>3, FlagsHold
  <1>6. genesis \in traded \cup late \cup {[g EXCEPT !.phase = "failed"] : g \in {l \in late : l.phase = "genesis"}}
    BY DEF Genesis!Init, Genesis!Opened
  <1> HIDE DEF traded, late
  <1>7. GenesisHolds
    BY <1>3, <1>5, <1>6, FlagsHold DEF GenesisHolds
  <1>8. PanelHolds
    BY DEF Genesis!Init, PanelHolds
  <1>9. QED
    BY <1>7, <1>8 DEF Genesis!Init, GenesisInv, GenesisRunHolds

LEMMA GenesisStep == GenesisInv /\ [Genesis!Next]_(Genesis!vars) => GenesisInv'
  <1> SUFFICES ASSUME GenesisInv, [Genesis!Next]_(Genesis!vars) PROVE GenesisInv'
    OBVIOUS
  <1>g. genesis \in Geneses /\ CurveHolds(genesis)
    BY DEF GenesisInv, GenesisHolds
  <1>p. PanelHolds
    BY DEF GenesisInv
  <1>r. run = Genesis!NoRun \/ (run \in GenesisRuns /\ PurchaseHolds(run))
    BY DEF GenesisInv, GenesisRunHolds
  <1>n. Genesis!NoRun.at = "none"
    BY DEF Genesis!NoRun
  <1>sameG. ASSUME genesis' = genesis PROVE GenesisHolds'
    BY <1>g, <1>sameG DEF GenesisHolds, CurveHolds
  <1>newG. ASSUME genesis' \in Geneses, CurveHolds(genesis') PROVE GenesisHolds'
    BY <1>newG DEF GenesisHolds, CurveHolds
  <1>sameP. ASSUME page' = page PROVE PanelHolds'
    BY <1>p, <1>sameP DEF PanelHolds
  <1>sameR. ASSUME run' = run PROVE GenesisRunHolds'
    BY <1>r, <1>sameR DEF GenesisRunHolds, PurchaseHolds, Genesis!NoRun
  <1>noR. ASSUME run' = Genesis!NoRun PROVE GenesisRunHolds'
    BY <1>noR DEF GenesisRunHolds, Genesis!NoRun
  <1>newR. ASSUME run' \in GenesisRuns, PurchaseHolds(run') PROVE GenesisRunHolds'
    BY <1>newR DEF GenesisRunHolds, PurchaseHolds
  <1>requoted. ASSUME NEW p, {"account", "amount"} \subseteq DOMAIN p,
                      p.account \in Accounts \cup {Nobody}, p.amount \in Wanted, page' = Genesis!Requoted(p)
               PROVE  PanelHolds'
    <2>1. page' = p \/ page' = [p EXCEPT !.quote = "none"]
      BY <1>requoted DEF Genesis!Requoted
    <2>2. QED
      BY <1>requoted, <2>1 DEF PanelHolds
  <1>1. CASE Genesis!Others
    <2>1. UNCHANGED <<page, run>>
      BY <1>1 DEF Genesis!Others
    <2>2. ASSUME NEW a \in Accounts, NEW bid \in Bids, genesis' = Genesis!Bought(genesis, a, bid)
          PROVE  genesis' \in Geneses /\ CurveHolds(genesis')
      <3>1. bid \in Nat
        BY GenesisBounds
      <3>2. QED
        BY <1>g, <2>2, <3>1, BoughtHolds
    <2>3. ASSUME NEW a \in Accounts, genesis' = Genesis!Sold(genesis, a, genesis.held[a])
          PROVE  genesis' \in Geneses /\ CurveHolds(genesis')
      <3>1. genesis.held[a] \in Nat /\ genesis.held[a] <= genesis.held[a]
        BY <1>g DEF Geneses
      <3>2. QED
        BY <1>g, <2>3, <3>1, SoldHolds
    <2>4. genesis' \in Geneses /\ CurveHolds(genesis')
      BY <1>1, <2>2, <2>3 DEF Genesis!Others
    <2>5. QED
      BY <2>1, <2>4, <1>newG, <1>sameP, <1>sameR DEF GenesisInv
  <1>2. CASE Genesis!Expires
    <2>1. genesis' = [genesis EXCEPT !.expired = TRUE] /\ UNCHANGED <<page, run>>
      BY <1>2 DEF Genesis!Expires
    <2>2. QED
      BY <1>g, <2>1, FlagsHold, <1>newG, <1>sameP, <1>sameR DEF GenesisInv
  <1>3. CASE Genesis!Settles
    <2>1. genesis' = [genesis EXCEPT !.settled = TRUE] /\ UNCHANGED <<page, run>>
      BY <1>3 DEF Genesis!Settles
    <2>2. QED
      BY <1>g, <2>1, FlagsHold, <1>newG, <1>sameP, <1>sameR DEF GenesisInv
  <1>4. CASE Genesis!Refresh
    BY <1>4, <1>sameG, <1>sameP, <1>sameR DEF Genesis!Refresh, GenesisInv
  <1>5. CASE Genesis!QuoteAnswers
    <2>1. PICK answer : page' = [page EXCEPT !.quote = answer]
      BY <1>5 DEF Genesis!QuoteAnswers
    <2>2. PanelHolds'
      BY <1>p, <2>1 DEF PanelHolds
    <2>3. UNCHANGED <<genesis, run>>
      BY <1>5 DEF Genesis!QuoteAnswers
    <2>4. QED
      BY <2>2, <2>3, <1>sameG, <1>sameR DEF GenesisInv
  <1>6. CASE Genesis!Edit
    <2>1. PICK n \in Wanted, m \in {"buy", "sell"} :
            page' = Genesis!Requoted([page EXCEPT !.amount = n, !.mode = m])
      BY <1>6 DEF Genesis!Edit
    <2>2. PICK p : p = [page EXCEPT !.amount = n, !.mode = m]
      OBVIOUS
    <2>3. {"account", "amount"} \subseteq DOMAIN p /\ p.account \in Accounts \cup {Nobody} /\ p.amount \in Wanted
      BY <1>p, <2>2 DEF PanelHolds
    <2>4. PanelHolds'
      BY <2>1, <2>2, <2>3, <1>requoted
    <2>5. UNCHANGED <<genesis, run>>
      BY <1>6 DEF Genesis!Edit
    <2>6. QED
      BY <2>4, <2>5, <1>sameG, <1>sameR DEF GenesisInv
  <1>7. ASSUME NEW s \in reads, Genesis!RefreshAnswers(s) PROVE GenesisInv'
    <2>1. page' = Genesis!Requoted([page EXCEPT !.snapshot = s]) /\ UNCHANGED <<genesis, run>>
      BY <1>7 DEF Genesis!RefreshAnswers
    <2>2. PICK p : p = [page EXCEPT !.snapshot = s]
      OBVIOUS
    <2>3. {"account", "amount"} \subseteq DOMAIN p /\ p.account \in Accounts \cup {Nobody} /\ p.amount \in Wanted
      BY <1>p, <2>2 DEF PanelHolds
    <2>4. PanelHolds'
      BY <2>1, <2>2, <2>3, <1>requoted
    <2>5. QED
      BY <2>1, <2>4, <1>sameG, <1>sameR DEF GenesisInv
  <1>8. ASSUME NEW s \in reads, Genesis!RefreshFails(s) PROVE GenesisInv'
    BY <1>8, <1>sameG, <1>sameP, <1>sameR DEF Genesis!RefreshFails, GenesisInv
  <1>9. ASSUME NEW a \in Accounts \cup {Nobody}, Genesis!SwitchWallet(a) PROVE GenesisInv'
    <2>1. page' = [page EXCEPT !.account = a] /\ UNCHANGED <<genesis, run>>
      BY <1>9 DEF Genesis!SwitchWallet
    <2>2. PanelHolds'
      BY <1>p, <2>1 DEF PanelHolds
    <2>3. QED
      BY <2>1, <2>2, <1>sameG, <1>sameR DEF GenesisInv
  <1>10. ASSUME NEW kind \in Genesis!Kinds, Genesis!Click(kind) PROVE GenesisInv'
    <2>1. /\ run' = [at |-> "check", kind |-> kind, by |-> page.account, amount |-> page.amount,
                     budget |-> 0, least |-> 0]
          /\ page.account # Nobody /\ UNCHANGED <<genesis, page>>
      BY <1>10 DEF Genesis!Click
    <2>2. page.account \in Accounts /\ page.amount \in Wanted
      BY <1>p, <2>1 DEF PanelHolds
    <2>3. run' \in GenesisRuns /\ PurchaseHolds(run')
      BY <2>1, <2>2 DEF GenesisRuns, PurchaseHolds
    <2>4. QED
      BY <2>1, <2>3, <1>sameG, <1>sameP, <1>newR DEF GenesisInv
  <1>goes. ASSUME NEW next, Genesis!Goes(next) PROVE run' = next /\ UNCHANGED <<genesis, page>>
    BY <1>goes DEF Genesis!Goes
  <1>11. CASE Genesis!QuotedBuy
    <2>1. PICK b : b = Genesis!Budget(genesis, run.amount)
      OBVIOUS
    <2>2. /\ run.at = "check" /\ run.kind = "buy"
          /\ Genesis!Goes([run EXCEPT !.at = "approve", !.budget = b, !.least = run.amount])
      BY <1>11, <2>1 DEF Genesis!QuotedBuy
    <2>3. run \in GenesisRuns /\ run.amount \in Nat \ {0}
      BY <1>n, <1>r, <2>2, GenesisBounds DEF GenesisRuns
    <2>4. b \in Nat
      BY <1>g, <2>1, <2>3, BudgetIs
    <2>5. PICK r1 : r1 = [run EXCEPT !.at = "approve"]
      OBVIOUS
    <2>6. PICK r2 : r2 = [r1 EXCEPT !.budget = b]
      OBVIOUS
    <2>7. PICK am : am = run.amount
      OBVIOUS
    <2>8. PICK r3 : r3 = [r2 EXCEPT !.least = am]
      OBVIOUS
    <2>9. run' = r3 /\ UNCHANGED <<genesis, page>>
      BY <1>goes, <2>2, <2>5, <2>6, <2>7, <2>8
    <2>10. r1 \in GenesisRuns /\ r1.amount = am
      BY <2>3, <2>5, <2>7 DEF GenesisRuns
    <2>11. r2 \in GenesisRuns /\ r2.amount = am
      BY <2>4, <2>6, <2>10 DEF GenesisRuns
    <2>12. r3 \in GenesisRuns /\ r3.least = r3.amount
      BY <2>3, <2>7, <2>8, <2>11 DEF GenesisRuns
    <2>13. PurchaseHolds(run')
      BY <2>9, <2>12 DEF PurchaseHolds
    <2>14. QED
      BY <2>9, <2>12, <2>13, <1>newR, <1>sameG, <1>sameP DEF GenesisInv
  <1>12. CASE Genesis!QuotedSell
    <2>1. PICK least : least = (Genesis!Refund(genesis, run.amount) * 99) \div 100
      OBVIOUS
    <2>2. /\ run.at = "check" /\ run.kind = "sell"
          /\ Genesis!Goes([run EXCEPT !.at = "send", !.least = least])
      BY <1>12, <2>1 DEF Genesis!QuotedSell
    <2>3. run \in GenesisRuns /\ run.amount \in Nat
      BY <1>n, <1>r, <2>2, GenesisBounds DEF GenesisRuns
    <2>4. least \in Int
      <3>1. Genesis!Refund(genesis, run.amount) \in Nat
        BY <1>g, <2>3, RefundIs
      <3>2. QED
        BY <2>1, <3>1
    <2>5. PICK r1 : r1 = [run EXCEPT !.at = "send"]
      OBVIOUS
    <2>6. PICK r2 : r2 = [r1 EXCEPT !.least = least]
      OBVIOUS
    <2>7. run' = r2 /\ UNCHANGED <<genesis, page>>
      BY <1>goes, <2>2, <2>5, <2>6
    <2>8. r1 \in GenesisRuns /\ r1.kind = "sell"
      BY <2>2, <2>3, <2>5 DEF GenesisRuns
    <2>9. r2 \in GenesisRuns /\ r2.kind = "sell"
      BY <2>4, <2>6, <2>8 DEF GenesisRuns
    <2>10. QED
      BY <2>7, <2>9, <1>newR, <1>sameG, <1>sameP DEF GenesisInv, PurchaseHolds
  <1>13. CASE Genesis!Checked
    <2>1. run.at = "check" /\ run.kind # "buy" /\ Genesis!Goes([run EXCEPT !.at = "send"])
      BY <1>13 DEF Genesis!Checked
    <2>2. run' = [run EXCEPT !.at = "send"] /\ UNCHANGED <<genesis, page>>
      BY <1>goes, <2>1
    <2>3. run' \in GenesisRuns /\ run'.kind # "buy"
      BY <1>n, <1>r, <2>1, <2>2 DEF GenesisRuns
    <2>4. QED
      BY <2>2, <2>3, <1>newR, <1>sameG, <1>sameP DEF GenesisInv, PurchaseHolds
  <1>14. CASE Genesis!Approved
    <2>1. run.at = "approve" /\ Genesis!Goes([run EXCEPT !.at = "send"])
      BY <1>14 DEF Genesis!Approved
    <2>2. run' = [run EXCEPT !.at = "send"] /\ UNCHANGED <<genesis, page>>
      BY <1>goes, <2>1
    <2>3. run \in GenesisRuns /\ PurchaseHolds(run)
      BY <1>n, <1>r, <2>1
    <2>4. run' \in GenesisRuns /\ run'.kind = run.kind /\ run'.least = run.least /\ run'.amount = run.amount
      BY <2>2, <2>3 DEF GenesisRuns
    <2>5. PurchaseHolds(run')
      BY <2>1, <2>3, <2>4 DEF PurchaseHolds
    <2>6. QED
      BY <2>2, <2>4, <2>5, <1>newR, <1>sameG, <1>sameP DEF GenesisInv
  <1>15. CASE Genesis!Mined
    <2>1. /\ run.at = "send" /\ Genesis!Accepts /\ genesis' = Genesis!Applied
          /\ run' = [run EXCEPT !.at = "refresh"] /\ page' = [page EXCEPT !.quote = "none"]
      BY <1>15 DEF Genesis!Mined
    <2>2. run \in GenesisRuns
      BY <1>n, <1>r, <2>1
    <2>3. run' \in GenesisRuns /\ run'.at = "refresh"
      BY <2>1, <2>2 DEF GenesisRuns
    <2>4. PanelHolds'
      BY <1>p, <2>1 DEF PanelHolds
    <2>5. run.by \in Accounts /\ run.budget \in Nat /\ run.amount \in Nat /\ run.kind \in Genesis!Kinds
      <3>1. run.by \in Accounts /\ run.budget \in Nat /\ run.amount \in Wanted /\ run.kind \in Genesis!Kinds
        BY <2>2 DEF GenesisRuns
      <3>2. Wanted \subseteq Nat
        BY GenesisBounds
      <3>3. QED
        BY <3>1, <3>2
    <2>6. CASE run.kind = "buy"
      <3>1. genesis' = Genesis!Bought(genesis, run.by, run.budget)
        BY <2>1, <2>6 DEF Genesis!Applied
      <3>2. QED
        BY <1>g, <2>5, <3>1, BoughtHolds, <1>newG, <1>newR, <2>3, <2>4 DEF GenesisInv, PurchaseHolds
    <2>7. CASE run.kind = "sell"
      <3>1. genesis' = Genesis!Sold(genesis, run.by, run.amount) /\ run.amount <= genesis.held[run.by]
        BY <2>1, <2>7 DEF Genesis!Applied, Genesis!Accepts
      <3>2. QED
        BY <1>g, <2>5, <3>1, SoldHolds, <1>newG, <1>newR, <2>3, <2>4 DEF GenesisInv, PurchaseHolds
    <2>8. CASE run.kind \in {"cancel", "fail"}
      <3>1. genesis' = [genesis EXCEPT !.phase = "failed"]
        BY <2>1, <2>8 DEF Genesis!Applied
      <3>2. QED
        BY <1>g, <3>1, FlagsHold, <1>newG, <1>newR, <2>3, <2>4 DEF GenesisInv, PurchaseHolds
    <2>9. CASE run.kind \in {"claimCash", "migrate", "refund"}
      <3>1. genesis' = [genesis EXCEPT !.claimed = @ \cup {run.by}]
        BY <2>1, <2>9 DEF Genesis!Applied
      <3>2. QED
        BY <1>g, <2>5, <3>1, FlagsHold, <1>newG, <1>newR, <2>3, <2>4 DEF GenesisInv, PurchaseHolds
    <2>10. CASE run.kind = "claimPayout"
      <3>1. genesis' = [genesis EXCEPT !.settled = TRUE]
        BY <2>1, <2>10 DEF Genesis!Applied
      <3>2. QED
        BY <1>g, <3>1, FlagsHold, <1>newG, <1>newR, <2>3, <2>4 DEF GenesisInv, PurchaseHolds
    <2>11. QED
      BY <2>5, <2>6, <2>7, <2>8, <2>9, <2>10 DEF Genesis!Kinds
  <1>16. CASE Genesis!Refreshed
    <2>1. /\ run' = Genesis!NoRun /\ genesis' = genesis
          /\ page' = Genesis!Requoted([page EXCEPT !.snapshot = Genesis!Snapshot(run.by)])
      BY <1>16 DEF Genesis!Refreshed
    <2>2. PICK p : p = [page EXCEPT !.snapshot = Genesis!Snapshot(run.by)]
      OBVIOUS
    <2>3. {"account", "amount"} \subseteq DOMAIN p /\ p.account \in Accounts \cup {Nobody} /\ p.amount \in Wanted
      BY <1>p, <2>2 DEF PanelHolds
    <2>4. PanelHolds'
      BY <2>1, <2>2, <2>3, <1>requoted
    <2>5. QED
      BY <2>1, <2>4, <1>sameG, <1>noR DEF GenesisInv
  <1>17. CASE Genesis!Ends
    BY <1>17, <1>goes, <1>sameG, <1>sameP, <1>noR DEF Genesis!Ends, GenesisInv
  <1>18. CASE UNCHANGED Genesis!vars
    BY <1>18, <1>sameG, <1>sameP, <1>sameR DEF Genesis!vars, GenesisInv
  <1>19. QED
    BY <1>1, <1>2, <1>3, <1>4, <1>5, <1>6, <1>7, <1>8, <1>9, <1>10, <1>11, <1>12, <1>13, <1>14, <1>15, <1>16, <1>17, <1>18
       DEF Genesis!Next

LEMMA GenesisQuotes == GenesisInv => Genesis!BudgetIsLeast
  <1> SUFFICES ASSUME GenesisInv PROVE Genesis!BudgetIsLeast
    OBVIOUS
  <1>1. CurveHolds(genesis) /\ Wanted \subseteq Nat \ {0}
    BY GenesisBounds DEF GenesisInv, GenesisHolds
  <1>2. ASSUME NEW n \in Wanted
        PROVE  LET budget == Genesis!Budget(genesis, n)
               IN IF budget = 0 THEN \A b \in 1..Genesis!Cap(genesis) : Genesis!Output(genesis, b) < n
                  ELSE Genesis!Output(genesis, budget) >= n
                       /\ \A b \in 1..(budget - 1) : Genesis!Output(genesis, b) < n
    <2>1. PICK budget : budget = Genesis!Budget(genesis, n)
      OBVIOUS
    <2>2. n \in Nat \ {0}
      BY <1>1
    <2>3. QED
      BY <1>1, <2>1, <2>2, BudgetIs
  <1>3. QED
    BY <1>2 DEF Genesis!BudgetIsLeast

LEMMA GenesisGives == GenesisInv /\ [Genesis!Next]_(Genesis!vars) => Genesis!GivesAsAsked
  <1> SUFFICES ASSUME GenesisInv, [Genesis!Next]_(Genesis!vars),
                      run.at = "send", run'.at = "refresh", run.kind = "buy"
               PROVE  genesis'.held[run.by] >= genesis.held[run.by] + run.amount
    BY DEF Genesis!GivesAsAsked
  <1>1. run \in GenesisRuns /\ PurchaseHolds(run) /\ genesis \in Geneses /\ CurveHolds(genesis)
    BY DEF GenesisInv, GenesisHolds, GenesisRunHolds, Genesis!NoRun
  <1>2. ASSUME run' = run PROVE FALSE
    BY <1>2
  <1>3. ASSUME run' = Genesis!NoRun PROVE FALSE
    BY <1>3 DEF Genesis!NoRun
  <1>4. CASE Genesis!Mined
    <2>1. genesis' = Genesis!Bought(genesis, run.by, run.budget)
      BY <1>4 DEF Genesis!Mined, Genesis!Applied
    <2>2. Genesis!Output(genesis, run.budget) >= run.least
      BY <1>4 DEF Genesis!Mined, Genesis!Accepts
    <2>3. run.least = run.amount /\ run.by \in Accounts /\ run.budget \in Nat /\ run.amount \in Nat
      BY <1>1, GenesisBounds DEF PurchaseHolds, GenesisRuns
    <2>4. genesis'.held[run.by] = genesis.held[run.by] + Genesis!Output(genesis, run.budget)
      BY <1>1, <2>1, <2>3, BoughtHolds
    <2>5. Genesis!Output(genesis, run.budget) \in Nat /\ genesis.held[run.by] \in Nat
      BY SMTT(20), <1>1, <2>3, BoughtIs DEF Geneses
    <2>6. QED
      BY <2>2, <2>3, <2>4, <2>5
  <1>5. ASSUME Genesis!Others \/ Genesis!Expires \/ Genesis!Settles \/ Genesis!Refresh \/ Genesis!QuoteAnswers
               \/ Genesis!Edit \/ (\E s \in reads : Genesis!RefreshAnswers(s) \/ Genesis!RefreshFails(s))
               \/ (\E a \in Accounts \cup {Nobody} : Genesis!SwitchWallet(a)) \/ UNCHANGED Genesis!vars
        PROVE  run' = run
    BY <1>5 DEF Genesis!Others, Genesis!Expires, Genesis!Settles, Genesis!Refresh, Genesis!QuoteAnswers,
                Genesis!Edit, Genesis!RefreshAnswers, Genesis!RefreshFails, Genesis!SwitchWallet, Genesis!vars
  <1>6. CASE \E kind \in Genesis!Kinds : Genesis!Click(kind)
    <2>1. run = Genesis!NoRun
      BY <1>6 DEF Genesis!Click, Genesis!Busy
    <2>2. QED
      BY <2>1 DEF Genesis!NoRun
  <1>7. CASE Genesis!QuotedBuy \/ Genesis!QuotedSell \/ Genesis!Checked \/ Genesis!Approved \/ Genesis!Refreshed
    BY <1>7 DEF Genesis!QuotedBuy, Genesis!QuotedSell, Genesis!Checked, Genesis!Approved, Genesis!Refreshed
  <1>8. CASE Genesis!Ends
    BY <1>3, <1>8 DEF Genesis!Ends, Genesis!Goes
  <1>9. QED
    BY <1>2, <1>4, <1>5, <1>6, <1>7, <1>8 DEF Genesis!Next

------------------------------------------------------------------------------
(* ExploreList.  What has been read of a vault, in a fetch or on the page,   *)
(* is true of it: a deadline never moves, and an outcome stays.              *)
CardIsTrue(item) ==
    /\ item.vault \in Vaults /\ chain[item.vault].created
    /\ item.outcome \in {NoOutcome, chain[item.vault].outcome}
    /\ item.end \in {0, chain[item.vault].end}
    /\ item.read => item.end = chain[item.vault].end
ListedVaults == [created : {TRUE}, end : Nat, outcome : {NoOutcome} \cup 1..3, market : BOOLEAN]
ExploreTypes ==
    /\ time \in Nat
    /\ chain \in [Vaults -> {Explore!Absent} \cup ListedVaults]
    /\ fetches = [n \in 1..Fetches |-> fetches[n]]
ReadsAreTrue ==
    /\ \A item \in page.items : CardIsTrue(item)
    /\ \A n \in 1..Fetches :
         /\ \A item \in fetches[n].items : CardIsTrue(item)
         /\ fetches[n].at = "not yet" => fetches[n] = Explore!NotYet
         /\ fetches[n].at = "vaults" =>
              /\ fetches[n] = [at |-> "vaults", list |-> fetches[n].list, items |-> fetches[n].items]
              /\ \A v \in fetches[n].list : v \in Vaults /\ chain[v].created
ExploreInv == ExploreTypes /\ ReadsAreTrue

LEMMA ExploreInit == Explore!Init => ExploreInv
  <1> SUFFICES ASSUME Explore!Init PROVE ExploreInv
    OBVIOUS
  <1>1. \A n \in 1..Fetches : fetches[n].at = "not yet" /\ fetches[n].items = {} /\ fetches[n] = Explore!NotYet
    BY DEF Explore!Init, Explore!NotYet
  <1>2. ReadsAreTrue
    BY <1>1 DEF Explore!Init, ReadsAreTrue
  <1>3. ExploreTypes
    BY DEF Explore!Init, ExploreTypes
  <1>4. QED
    BY <1>2, <1>3 DEF ExploreInv

LEMMA ExploreShows == ExploreInv => Explore!CardsAreTrue
  <1> SUFFICES ASSUME ExploreInv, NEW item \in page.items
               PROVE  /\ item.vault \in Explore!Created
                      /\ Explore!Phase(item) = "finalized" => item.outcome = chain[item.vault].outcome
                      /\ Explore!Phase(item) = "staking" => time < chain[item.vault].end
                      /\ item.read => item.end = chain[item.vault].end
    BY DEF Explore!CardsAreTrue
  <1>1. CardIsTrue(item) /\ time \in Nat
    BY DEF ExploreInv, ReadsAreTrue, ExploreTypes
  <1>2. QED
    BY <1>1 DEF CardIsTrue, Explore!Created, Explore!Phase

\* What a vault's reads give is true of it.
LEMMA ReadIsTrue ==
    ASSUME ExploreTypes, NEW v \in Vaults, chain[v].created,
           NEW vaultRead \in BOOLEAN, NEW marketRead \in BOOLEAN
    PROVE  CardIsTrue(Explore!Read(v, vaultRead, marketRead))
  <1>1. chain[v] \in ListedVaults
    BY DEF ExploreTypes, Explore!Absent
  <1>2. QED
    BY <1>1 DEF CardIsTrue, ListedVaults, Explore!Read, Explore!VaultFigures, Explore!WithMarket, Explore!Default

\* Vaults stay, with their deadlines and with an outcome they have.
VaultsStay ==
    \A v \in Vaults : chain[v].created =>
        /\ chain'[v].created /\ chain'[v].end = chain[v].end
        /\ chain[v].outcome \in {NoOutcome, chain'[v].outcome}
LEMMA CardsStayTrue ==
    ASSUME VaultsStay, NEW item, CardIsTrue(item)
    PROVE  CardIsTrue(item)'
  BY DEF VaultsStay, CardIsTrue

LEMMA ExploreStep == ExploreInv /\ [Explore!Next]_(Explore!vars) => ExploreInv'
  <1> SUFFICES ASSUME ExploreInv, [Explore!Next]_(Explore!vars) PROVE ExploreInv'
    OBVIOUS
  <1> USE SiteAssumption DEF Explore!ExploreListAssumption
  <1>t. ExploreTypes /\ ReadsAreTrue
    BY DEF ExploreInv
  <1>1. ASSUME VaultsStay, ExploreTypes', UNCHANGED <<fetches, page>> PROVE ExploreInv'
    BY <1>1, <1>t, CardsStayTrue DEF ExploreInv, ReadsAreTrue, VaultsStay, Explore!NotYet
  <1>2. CASE Explore!Tick
    BY <1>1, <1>2, <1>t DEF Explore!Tick, VaultsStay, ExploreTypes, Explore!Absent
  <1>3. ASSUME NEW v \in Vaults, Explore!Create(v) PROVE ExploreInv'
    <2>1. PICK end \in 1..MaxTime, m \in BOOLEAN :
            chain' = [chain EXCEPT ![v] = [created |-> TRUE, end |-> end, outcome |-> NoOutcome, market |-> m]]
      BY <1>3 DEF Explore!Create
    <2>2. ~chain[v].created /\ UNCHANGED <<time, fetches, page>>
      BY <1>3 DEF Explore!Create
    <2>3. ExploreTypes'
      <3>1. [created |-> TRUE, end |-> end, outcome |-> NoOutcome, market |-> m] \in ListedVaults
        BY DEF ListedVaults
      <3>2. chain' \in [Vaults -> {Explore!Absent} \cup ListedVaults]
        BY <1>t, <2>1, <3>1 DEF ExploreTypes
      <3>3. QED
        BY <1>t, <2>2, <3>2 DEF ExploreTypes
    <2>4. VaultsStay
      BY <1>t, <2>1, <2>2 DEF ExploreTypes, VaultsStay
    <2>5. QED
      BY <1>1, <2>2, <2>3, <2>4
  <1>4. ASSUME NEW v \in Vaults, Explore!Resolve(v) PROVE ExploreInv'
    <2>1. PICK o \in 1..3 : chain' = [chain EXCEPT ![v].outcome = o]
      BY <1>4 DEF Explore!Resolve
    <2>2. chain[v].created /\ chain[v].outcome = NoOutcome /\ UNCHANGED <<time, fetches, page>>
      BY <1>4 DEF Explore!Resolve
    <2>3. chain[v] \in ListedVaults
      BY <1>t, <2>2 DEF ExploreTypes, Explore!Absent
    <2>4. ExploreTypes'
      BY <1>t, <2>1, <2>2, <2>3 DEF ExploreTypes, ListedVaults, Explore!Absent
    <2>5. VaultsStay
      BY <1>t, <2>1, <2>2, <2>3 DEF ExploreTypes, VaultsStay, ListedVaults
    <2>6. QED
      BY <1>1, <2>2, <2>4, <2>5
  <1>5. ASSUME NEW n \in 1..Fetches, NEW f,
               fetches' = [fetches EXCEPT ![n] = f], f.at # "not yet", UNCHANGED <<time, chain, page>>,
               \A item \in f.items : CardIsTrue(item),
               f.at = "vaults" =>
                 /\ f = [at |-> "vaults", list |-> f.list, items |-> f.items]
                 /\ \A v \in f.list : v \in Vaults /\ chain[v].created
        PROVE  ExploreInv'
    <2>1. ExploreTypes'
      BY <1>5, <1>t DEF ExploreTypes, Explore!Absent
    <2>2. ASSUME NEW item, CardIsTrue(item) PROVE CardIsTrue(item)'
      BY <1>5, <2>2 DEF CardIsTrue
    <2>3. \A item \in page'.items : CardIsTrue(item)'
      BY <1>5, <1>t, <2>2 DEF ReadsAreTrue
    <2>4. fetches'[n] = f /\ \A i \in 1..Fetches : i # n => fetches'[i] = fetches[i]
      BY <1>5, <1>t DEF ExploreTypes
    <2>5. ASSUME NEW i \in 1..Fetches
          PROVE  /\ \A item \in fetches'[i].items : CardIsTrue(item)'
                 /\ fetches'[i].at = "not yet" => fetches'[i] = Explore!NotYet
                 /\ fetches'[i].at = "vaults" =>
                      /\ fetches'[i] = [at |-> "vaults", list |-> fetches'[i].list, items |-> fetches'[i].items]
                      /\ \A v \in fetches'[i].list : v \in Vaults /\ chain'[v].created
      <3>1. CASE i = n
        BY <1>5, <2>2, <2>4, <3>1
      <3>2. CASE i # n
        BY <1>5, <1>t, <2>2, <2>4, <3>2 DEF ReadsAreTrue
      <3>3. QED
        BY <3>1, <3>2
    <2>6. ReadsAreTrue'
      BY <2>3, <2>5 DEF ReadsAreTrue, Explore!NotYet
    <2>7. QED
      BY <2>1, <2>6 DEF ExploreInv
  <1>6. ASSUME NEW n \in 1..Fetches, Explore!Fetch(n) PROVE ExploreInv'
    <2>1. PICK f : f = [fetches[n] EXCEPT !.at = "list"]
      OBVIOUS
    <2>2. fetches' = [fetches EXCEPT ![n] = f] /\ UNCHANGED <<time, chain, page>>
      BY <1>6, <2>1 DEF Explore!Fetch
    <2>3. fetches[n] = Explore!NotYet
      BY <1>6, <1>t DEF Explore!Fetch, ReadsAreTrue
    <2>4. f.items = {} /\ f.at = "list"
      <3>1. f = [Explore!NotYet EXCEPT !.at = "list"]
        BY <2>1, <2>3
      <3>2. QED
        BY <3>1 DEF Explore!NotYet
    <2>5. QED
      BY <1>5, <2>2, <2>4
  <1>7. ASSUME NEW n \in 1..Fetches, Explore!ReadList(n) PROVE ExploreInv'
    <2>1. PICK list \in {Explore!Created, {}} :
            fetches' = [fetches EXCEPT ![n] = [at |-> "vaults", list |-> list, items |-> {}]]
      BY <1>7 DEF Explore!ReadList
    <2>2. UNCHANGED <<time, chain, page>>
      BY <1>7 DEF Explore!ReadList
    <2>3. \A v \in list : v \in Vaults /\ chain[v].created
      BY DEF Explore!Created
    <2>4. PICK f : f = [at |-> "vaults", list |-> list, items |-> {}]
      OBVIOUS
    <2>5. f.items = {} /\ f.list = list /\ fetches' = [fetches EXCEPT ![n] = f]
      BY <2>1, <2>4
    <2>6. QED
      BY <1>5, <2>2, <2>3, <2>4, <2>5
  <1>8. ASSUME NEW n \in 1..Fetches, NEW v \in Vaults, Explore!ReadVault(n, v) PROVE ExploreInv'
    <2>1. PICK vaultRead \in BOOLEAN, marketRead \in BOOLEAN :
            fetches' = [fetches EXCEPT ![n] =
                [at |-> "vaults", list |-> fetches[n].list \ {v},
                 items |-> fetches[n].items \cup {Explore!Read(v, vaultRead, marketRead)}]]
      BY <1>8 DEF Explore!ReadVault
    <2>2. fetches[n].at = "vaults" /\ v \in fetches[n].list /\ UNCHANGED <<time, chain, page>>
      BY <1>8 DEF Explore!ReadVault
    <2>3. /\ fetches[n] = [at |-> "vaults", list |-> fetches[n].list, items |-> fetches[n].items]
          /\ \A w \in fetches[n].list : w \in Vaults /\ chain[w].created
          /\ \A item \in fetches[n].items : CardIsTrue(item)
      BY <1>t, <2>2 DEF ReadsAreTrue
    <2>4. CardIsTrue(Explore!Read(v, vaultRead, marketRead))
      BY <1>t, <2>2, <2>3, ReadIsTrue
    <2>5. PICK f : f = [at |-> "vaults", list |-> fetches[n].list \ {v},
                        items |-> fetches[n].items \cup {Explore!Read(v, vaultRead, marketRead)}]
      OBVIOUS
    <2>6. fetches' = [fetches EXCEPT ![n] = f]
      BY <2>1, <2>5
    <2>7. f = [at |-> "vaults", list |-> f.list, items |-> f.items]
          /\ \A w \in f.list : w \in Vaults /\ chain[w].created
      BY <2>3, <2>5
    <2>8. \A item \in f.items : CardIsTrue(item)
      BY <2>3, <2>4, <2>5
    <2>9. QED
      BY <1>5, <2>2, <2>6, <2>7, <2>8
  <1>9. ASSUME NEW n \in 1..Fetches, Explore!Show(n) PROVE ExploreInv'
    <2>1. /\ fetches' = [fetches EXCEPT ![n] = [at |-> "done", items |-> {}]]
          /\ page' = [loading |-> FALSE, items |-> fetches[n].items]
          /\ UNCHANGED <<time, chain>>
      BY <1>9 DEF Explore!Show
    <2>2. ExploreTypes'
      BY <1>t, <2>1 DEF ExploreTypes, Explore!Absent
    <2>3. ReadsAreTrue'
      <3>1. ASSUME NEW item, CardIsTrue(item) PROVE CardIsTrue(item)'
        BY <2>1, <3>1 DEF CardIsTrue
      <3>2. \A item \in page'.items : CardIsTrue(item)'
        BY <1>t, <2>1, <3>1 DEF ReadsAreTrue
      <3>3. /\ fetches'[n].at = "done" /\ fetches'[n].items = {}
            /\ \A i \in 1..Fetches : i # n => fetches'[i] = fetches[i]
        BY <1>t, <2>1 DEF ExploreTypes
      <3>4. ASSUME NEW i \in 1..Fetches
            PROVE  /\ \A item \in fetches'[i].items : CardIsTrue(item)'
                   /\ fetches'[i].at = "not yet" => fetches'[i] = Explore!NotYet
                   /\ fetches'[i].at = "vaults" =>
                        /\ fetches'[i] = [at |-> "vaults", list |-> fetches'[i].list, items |-> fetches'[i].items]
                        /\ \A v \in fetches'[i].list : v \in Vaults /\ chain'[v].created
        BY <1>t, <2>1, <3>1, <3>3 DEF ReadsAreTrue
      <3>5. QED
        BY <3>2, <3>4 DEF ReadsAreTrue, Explore!NotYet
    <2>4. QED
      BY <2>2, <2>3 DEF ExploreInv
  <1>10. CASE UNCHANGED Explore!vars
    BY <1>10, <1>t DEF Explore!vars, ExploreInv, ExploreTypes, ReadsAreTrue, CardIsTrue, Explore!Absent, Explore!NotYet
  <1>11. QED
    BY <1>2, <1>3, <1>4, <1>6, <1>7, <1>8, <1>9, <1>10 DEF Explore!Next

------------------------------------------------------------------------------
(* WalletHook.  A signer that is not the wallet's is still to be replaced by a     *)
(* handler under way, and so is a network that the wallet has left.                *)
HookShapes ==
    /\ wallet = [account |-> wallet.account, network |-> wallet.network]
    /\ page = [signer |-> page.signer, network |-> page.network]
    /\ run \in [Handlers -> {"none", "network", "signer", "accounts", "chain", "request", "switch", "add"}]
SignerIsCurrent ==
    \/ page.signer = Nobody
    \/ wallet = [account |-> page.signer, network |-> Target]
    \/ \E r \in Handlers : run[r] \in {"network", "signer"}
NetworkIsCurrent ==
    \/ page.network \in {Nobody, wallet.network}
    \/ \E r \in Handlers : run[r] = "network"
HookInv == HookShapes /\ SignerIsCurrent /\ NetworkIsCurrent

LEMMA HookInit == Hook!Init => HookInv
  BY DEF Hook!Init, HookInv, HookShapes, SignerIsCurrent, NetworkIsCurrent

LEMMA HookHolds == HookInv => Hook!AtRestItIsTheWallets
  BY DEF HookInv, HookShapes, SignerIsCurrent, NetworkIsCurrent, Hook!AtRestItIsTheWallets

\* Wherever a handler stands, another one that begins to look is under way.
LEMMA HookBegins ==
  ASSUME HookShapes, NEW at \in {"network", "request"}, Hook!Begins(at)
  PROVE  /\ run' \in [Handlers -> {"none", "network", "signer", "accounts", "chain", "request", "switch", "add"}]
         /\ \E r \in Handlers : run'[r] = at
         /\ \A r \in Handlers : run[r] # "none" => run'[r] = run[r]
  BY DEF HookShapes, Hook!Begins, Hook!Waits

LEMMA HookStep == HookInv /\ [Hook!Next]_(Hook!vars) => HookInv'
  <1> SUFFICES ASSUME HookInv, [Hook!Next]_(Hook!vars) PROVE HookInv'
    OBVIOUS
  <1> USE DEF HookInv, HookShapes, SignerIsCurrent, NetworkIsCurrent
  <1>1. CASE Hook!SwitchAccount
    <2>1. CASE wallet'.account = Nobody
      BY <1>1, <2>1 DEF Hook!SwitchAccount, Hook!AccountsChanged, Hook!Disconnected
    <2>2. CASE wallet'.account # Nobody
      BY <1>1, <2>2, HookBegins DEF Hook!SwitchAccount, Hook!AccountsChanged
    <2>3. QED
      BY <2>1, <2>2
  <1>2. CASE Hook!SwitchNetwork
    BY <1>2, HookBegins DEF Hook!SwitchNetwork, Hook!ChainChanged
  <1>3. CASE Hook!Connect
    BY <1>3, HookBegins DEF Hook!Connect
  <1>4. CASE Hook!Disconnect
    BY <1>4 DEF Hook!Disconnect, Hook!Disconnected
  <1>5. ASSUME NEW r \in Handlers, Hook!ReadNetwork(r) PROVE HookInv'
    BY <1>5 DEF Hook!ReadNetwork, Hook!Waits, Hook!Ends
  <1>6. ASSUME NEW r \in Handlers, Hook!ReadSigner(r) PROVE HookInv'
    BY <1>6 DEF Hook!ReadSigner, Hook!Waits, Hook!Ends, Hook!Signs
  <1>7. ASSUME NEW r \in Handlers, Hook!ReadAccounts(r) PROVE HookInv'
    BY <1>7 DEF Hook!ReadAccounts, Hook!Waits
  <1>8. ASSUME NEW r \in Handlers, Hook!ReadChain(r) PROVE HookInv'
    BY <1>8 DEF Hook!ReadChain, Hook!Waits, Hook!Ends
  <1>9. ASSUME NEW r \in Handlers, Hook!Requested(r) PROVE HookInv'
    BY <1>9 DEF Hook!Requested, Hook!Waits
  <1>10. ASSUME NEW r \in Handlers, Hook!Authorised(r) PROVE HookInv'
    BY <1>10 DEF Hook!Authorised
  <1>11. ASSUME NEW r \in Handlers, Hook!SwitchAnswered(r) PROVE HookInv'
    BY <1>11 DEF Hook!SwitchAnswered, Hook!Waits
  <1>12. ASSUME NEW r \in Handlers, Hook!AddAnswered(r) PROVE HookInv'
    BY <1>12 DEF Hook!AddAnswered, Hook!Waits
  <1>13. ASSUME NEW r \in Handlers, Hook!Brought(r) PROVE HookInv'
    BY <1>13 DEF Hook!Brought
  <1>14. ASSUME NEW r \in Handlers, Hook!Fails(r) PROVE HookInv'
    BY <1>14 DEF Hook!Fails, Hook!Waits, Hook!Ends, Hook!Disconnected
  <1>15. CASE UNCHANGED Hook!vars
    BY <1>15 DEF Hook!vars
  <1>16. QED
    BY <1>1, <1>2, <1>3, <1>4, <1>5, <1>6, <1>7, <1>8, <1>9, <1>10, <1>11, <1>12, <1>13, <1>14, <1>15
       DEF Hook!Next
=============================================================================
