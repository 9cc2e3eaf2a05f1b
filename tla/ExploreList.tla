----------------------------- MODULE ExploreList -----------------------------
(***************************************************************************)
(* The list of the vaults of the factory                                   *)
(* (src/frontend/components/ExploreView.tsx, for the configuration with    *)
(* the market).                                                            *)
(*                                                                         *)
(* A fetch reads the list and then all vaults at once; what fails is       *)
(* replaced by a default, vault by vault.  The button starts fetches that  *)
(* overlap: whichever answers last is shown.                               *)
(*                                                                         *)
(* Abstracted: amounts are left out; the three reads of a vault answer in  *)
(* one step, each by itself; a read's own calls see one state.             *)
(***************************************************************************)
EXTENDS Integers

CONSTANTS Vaults, NoOutcome,
          Fetches,     \* bound: fetches, each known by its number
          MaxTime      \* bound: the clock

ExploreListAssumption == NoOutcome \notin 1..3 /\ {Fetches, MaxTime} \subseteq Nat

VARIABLES
    time,
    chain,     \* chain[v]: the vault, once the factory has it
    fetches,   \* fetches[n]: what fetch n waits for, and what it has
    page       \* the state of the component: items, loading

vars == <<time, chain, fetches, page>>

Absent == [created |-> FALSE]
Created == {v \in Vaults : chain[v].created}
NotYet == [at |-> "not yet", items |-> {}]

-----------------------------------------------------------------------------
\* The factory, its vaults and the clock (external).
Create(v) ==
    /\ ~chain[v].created
    /\ \E end \in 1..MaxTime, m \in BOOLEAN :
          chain' = [chain EXCEPT ![v] = [created |-> TRUE, end |-> end, outcome |-> NoOutcome, market |-> m]]
    /\ UNCHANGED <<time, fetches, page>>
Resolve(v) ==
    /\ chain[v].created /\ chain[v].outcome = NoOutcome /\ time >= chain[v].end
    /\ \E o \in 1..3 : chain' = [chain EXCEPT ![v].outcome = o]
    /\ UNCHANGED <<time, fetches, page>>
Tick == time < MaxTime /\ time' = time + 1 /\ UNCHANGED <<chain, fetches, page>>

-----------------------------------------------------------------------------
\* What one vault's reads give: figures with their own default each.

Default == [end |-> 0, outcome |-> NoOutcome, market |-> FALSE]
VaultFigures(v) == [Default EXCEPT !.end = chain[v].end, !.outcome = chain[v].outcome]
\* Mistake: the market's figures are put over the default, not over the vault's.
WithMarket_OverDefault(v, figures) ==
    IF chain[v].market THEN [Default EXCEPT !.market = TRUE] ELSE figures
WithMarket(v, figures) ==
    IF chain[v].market THEN [figures EXCEPT !.market = TRUE] ELSE figures

Read(v, vaultRead, marketRead) ==
    LET figures == IF vaultRead THEN VaultFigures(v) ELSE Default
        shown == IF marketRead THEN WithMarket(v, figures) ELSE figures
    IN  [vault |-> v, read |-> vaultRead, end |-> shown.end, outcome |-> shown.outcome, market |-> shown.market]

\* fetchMarkets, at the start and by the button.
Fetch(n) ==
    /\ fetches[n].at = "not yet" /\ \A m \in 1..(n - 1) : fetches[m].at # "not yet"
    /\ fetches' = [fetches EXCEPT ![n].at = "list"] /\ UNCHANGED <<time, chain, page>>

\* getVaults; a failure gives an empty list as the answer.
ReadList(n) ==
    /\ fetches[n].at = "list"
    /\ \E list \in {Created, {}} :
          fetches' = [fetches EXCEPT ![n] = [at |-> "vaults", list |-> list, items |-> {}]]
    /\ UNCHANGED <<time, chain, page>>
ReadVault(n, v) ==
    /\ fetches[n].at = "vaults" /\ v \in fetches[n].list
    /\ \E vaultRead, marketRead \in BOOLEAN :
          fetches' = [fetches EXCEPT ![n] =
              [at |-> "vaults", list |-> fetches[n].list \ {v},
               items |-> fetches[n].items \cup {Read(v, vaultRead, marketRead)}]]
    /\ UNCHANGED <<time, chain, page>>

\* All have answered.
Show(n) ==
    /\ fetches[n].at = "vaults" /\ fetches[n].list = {}
    /\ fetches' = [fetches EXCEPT ![n] = [at |-> "done", items |-> {}]]
    /\ page' = [loading |-> FALSE, items |-> fetches[n].items]
    /\ UNCHANGED <<time, chain>>

-----------------------------------------------------------------------------
\* The cards.
Phase(item) ==
    IF item.outcome # NoOutcome THEN "finalized" ELSE IF time < item.end THEN "staking" ELSE "ready"
Screen ==
    IF page.loading THEN "loading" ELSE IF page.items = {} THEN "empty" ELSE "cards"

Init ==
    /\ time = 0 /\ chain = [v \in Vaults |-> Absent]
    /\ fetches = [n \in 1..Fetches |-> NotYet] /\ page = [loading |-> TRUE, items |-> {}]

Next ==
    \/ Tick
    \/ \E v \in Vaults : Create(v) \/ Resolve(v)
    \/ \E n \in 1..Fetches : Fetch(n) \/ ReadList(n) \/ Show(n)
    \/ \E n \in 1..Fetches, v \in Vaults : ReadVault(n, v)

Spec == Init /\ [][Next]_vars

-----------------------------------------------------------------------------
\* However old the answer that is shown, and whatever of it failed: a card is of a
\* vault of the factory, it calls final only what is, and staking only what is open
\* by the vault's own deadline; a vault that was read keeps its figures when its
\* market was not, or was.
CardsAreTrue ==
    Screen = "cards" =>
        \A item \in page.items :
            /\ item.vault \in Created
            /\ Phase(item) = "finalized" => item.outcome = chain[item.vault].outcome
            /\ Phase(item) = "staking" => time < chain[item.vault].end
            /\ item.read => item.end = chain[item.vault].end
=============================================================================
