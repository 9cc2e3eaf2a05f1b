------------------------------ MODULE WalletHook ------------------------------
(***************************************************************************)
(* The wallet as the pages see it (src/frontend/useWallet.ts): which       *)
(* signer and which network the hook offers, while the user switches       *)
(* accounts and networks in the wallet, and connects and disconnects here. *)
(*                                                                         *)
(* Handlers overlap: each is a run of requests to the wallet, and writes   *)
(* what it has read last.  The wallet's answers and events reach the page  *)
(* in the order in which the wallet sent them; a read is thus of the       *)
(* wallet as the page's events have told it.  The two requests of          *)
(* getSigner go out together and count as one.                             *)
(*                                                                         *)
(* Abstracted: the address and the flag connected, which are set together  *)
(* with the signer; the unlocked accounts of a local test chain, which     *)
(* only exist in development; a browser without a wallet.                  *)
(***************************************************************************)
EXTENDS Naturals

CONSTANTS Accounts, None,
          Networks, Target,   \* config.chainId is the target
          Runs,               \* handlers that may run at once
          MaxActs             \* bound: acts of the user

WalletHookAssumption ==
    None \notin Accounts \cup Networks /\ Target \in Networks /\ Runs # {} /\ MaxActs \in Nat

VARIABLES acts,
          wallet,  \* the account it exposes to this site, and its network
          page,    \* the signer and the network of the hook
          run      \* what each handler waits for, or "none"

vars == <<acts, wallet, page, run>>

Signs(account) == page' = [page EXCEPT !.signer = account]
Disconnected == [page EXCEPT !.signer = None]
Waits(r, at) == run' = [run EXCEPT ![r] = at]
Ends(r) == Waits(r, "none")

\* A handler begins; the smallest free place is as good as any.
Begins(at) ==
    \E r \in Runs :
        /\ run[r] = "none" /\ \A q \in Runs : q < r => run[q] # "none"
        /\ Waits(r, at)

-----------------------------------------------------------------------------
\* syncFromProvider.

ReadNetwork(r) ==
    /\ run[r] = "network" /\ UNCHANGED <<acts, wallet>>
    /\ IF wallet.network = Target
       THEN page' = [page EXCEPT !.network = Target] /\ Waits(r, "signer")
       ELSE page' = [signer |-> None, network |-> wallet.network] /\ Ends(r)

\* The provider refuses a signer when the network is no longer the one it met first, and
\* asks for an account when it has none.
ReadSigner(r) ==
    /\ run[r] = "signer" /\ UNCHANGED <<acts, wallet>> /\ Ends(r)
    /\ Signs(IF wallet.network = Target THEN wallet.account ELSE None)

Fails(r) ==
    /\ UNCHANGED <<acts, wallet>> /\ Ends(r)
    /\ \/ run[r] = "network" /\ page' = [signer |-> None, network |-> None]
       \/ run[r] \in {"signer", "request", "add"} /\ page' = Disconnected
       \/ run[r] \in {"accounts", "chain"} /\ UNCHANGED page

-----------------------------------------------------------------------------
\* The page has loaded: an account that was authorised before is taken up.

ReadAccounts(r) ==
    /\ run[r] = "accounts" /\ UNCHANGED <<acts, wallet, page>>
    /\ Waits(r, IF wallet.account = None THEN "chain" ELSE "network")
ReadChain(r) ==
    /\ run[r] = "chain" /\ UNCHANGED <<acts, wallet>> /\ Ends(r)
    /\ page' = [page EXCEPT !.network = wallet.network]

-----------------------------------------------------------------------------
\* The wallet's events.

AccountsChanged ==
    IF wallet'.account = None THEN page' = Disconnected /\ UNCHANGED run
    ELSE Begins("network") /\ UNCHANGED page
ChainChanged == Begins("network") /\ UNCHANGED page

SwitchAccount ==
    /\ acts > 0 /\ acts' = acts - 1
    /\ \E a \in (Accounts \cup {None}) \ {wallet.account} : wallet' = [wallet EXCEPT !.account = a]
    /\ AccountsChanged
SwitchNetwork ==
    /\ acts > 0 /\ acts' = acts - 1
    /\ \E n \in Networks \ {wallet.network} : wallet' = [wallet EXCEPT !.network = n]
    /\ ChainChanged

-----------------------------------------------------------------------------
\* connectWallet: ask for the accounts, try to bring the wallet to the target network,
\* which it may have to learn of first, then look.

Connect == acts > 0 /\ acts' = acts - 1 /\ Begins("request") /\ UNCHANGED <<wallet, page>>

Requested(r) ==
    /\ run[r] = "request" /\ UNCHANGED <<acts, wallet, page>>
    /\ wallet.account # None /\ Waits(r, "switch")

\* The user grants what is asked for, and the wallet reports it as an event, too.
Authorised(r) ==
    /\ run[r] \in {"request", "signer"} /\ wallet.account = None /\ UNCHANGED <<acts, page>>
    /\ \E a \in Accounts : wallet' = [wallet EXCEPT !.account = a]
    /\ \E q \in Runs :
         /\ run[q] = "none"
         /\ run' = [run EXCEPT ![r] = IF @ = "request" THEN "switch" ELSE @, ![q] = "network"]

\* Switched, or refused, which is ignored; or the network is unknown.
SwitchAnswered(r) ==
    /\ run[r] = "switch" /\ UNCHANGED <<acts, wallet, page>>
    /\ \E at \in {"network", "add"} : Waits(r, at)
Brought(r) ==
    /\ run[r] \in {"switch", "add"} /\ wallet.network # Target /\ UNCHANGED <<acts, page>>
    /\ wallet' = [wallet EXCEPT !.network = Target]
    /\ \E q \in Runs : run[q] = "none" /\ run' = [run EXCEPT ![r] = "network", ![q] = "network"]
AddAnswered(r) ==
    /\ run[r] = "add" /\ Waits(r, "network") /\ UNCHANGED <<acts, wallet, page>>

Disconnect ==
    /\ acts > 0 /\ acts' = acts - 1 /\ page' = Disconnected /\ UNCHANGED <<wallet, run>>

-----------------------------------------------------------------------------
Init ==
    /\ acts = MaxActs
    /\ wallet \in [account : Accounts \cup {None}, network : Networks]
    /\ page = [signer |-> None, network |-> None]
    /\ \E first \in Runs : run = [r \in Runs |-> IF r = first THEN "accounts" ELSE "none"]

Next ==
    \/ SwitchAccount \/ SwitchNetwork \/ Connect \/ Disconnect
    \/ \E r \in Runs :
         \/ ReadNetwork(r) \/ ReadSigner(r) \/ ReadAccounts(r) \/ ReadChain(r)
         \/ Requested(r) \/ Authorised(r) \/ SwitchAnswered(r) \/ AddAnswered(r) \/ Brought(r)
         \/ Fails(r)

Spec == Init /\ [][Next]_vars

-----------------------------------------------------------------------------
\* When no handler is under way, a signer that is offered is the wallet's account on the
\* target network, and a network that is shown is the wallet's: whatever was switched
\* while handlers overlapped, and whichever of them failed.  (One that failed may have
\* wiped out the network beside another's signer.)
AtRestItIsTheWallets ==
    (\A r \in Runs : run[r] = "none") =>
        /\ page.signer # None => wallet = [account |-> page.signer, network |-> Target]
        /\ page.network \in {None, wallet.network}
=============================================================================
