------------------------------ MODULE CreatePage ------------------------------
(***************************************************************************)
(* The page that creates a Genesis topic with a credential about the       *)
(* creator's X account (src/frontend/permissionless.tsx).                  *)
(*                                                                         *)
(* verifyX binds what the form says, with the versions of the asset's and  *)
(* the price's configuration, to the wallet; create sends it.  Form and    *)
(* wallet may change under both.  The factory that checks the credential   *)
(* is not in this repository; it is modelled from the arguments it gets.   *)
(*                                                                         *)
(* Abstracted: what the form says is a value; the faucet and the clock of  *)
(* the local chain only show a notice; that ten minutes have passed is     *)
(* found out at any creation.                                               *)
(***************************************************************************)
EXTENDS Naturals, FiniteSets

CONSTANTS Accounts, None, Contents,
          MaxActs    \* bound: acts of the user, and changes of the configuration

CreatePageAssumption == None \notin Accounts \cup Contents /\ MaxActs \in Nat

VARIABLES
    acts,          \* how many acts are left
    epoch,         \* the factory's configuration, counted
    sent, topics,  \* creations sent, and topics created
    page,          \* the form, the wallet's account, verification, verifiedParamsHash
    run            \* verifyX or create, while busy

vars == <<acts, epoch, sent, topics, page, run>>

NoCredential == [creator |-> None, params |-> None, nonce |-> 0]
NoRun == [at |-> "none", account |-> None, params |-> None,
          credential |-> NoCredential, hash |-> None]
Acts == acts > 0 /\ acts' = acts - 1
Idle == run = NoRun
Ends == run' = NoRun
\* buildParams with genesisParamsHash: a hash stands for what it is of.
Params(content) == <<content, epoch>>
Nonce(a) == Cardinality({t \in topics : t.by = a})

-----------------------------------------------------------------------------
\* The form and the wallet; neither waits for what runs.

Edit(c) ==
    /\ Acts /\ c # page.form
    /\ page' = [page EXCEPT !.form = c, !.verification = NoCredential]
    /\ UNCHANGED <<epoch, sent, topics, run>>

SwitchWallet(a) ==
    /\ Acts /\ a # page.account
    /\ page' = [page EXCEPT !.account = a, !.verification = NoCredential, !.hash = None]
    /\ UNCHANGED <<epoch, sent, topics, run>>

Reconfigure ==
    /\ Acts /\ epoch' = epoch + 1 /\ UNCHANGED <<sent, topics, page, run>>

-----------------------------------------------------------------------------
\* verifyX, for the account and the form of the click.

VerifyX ==
    /\ Acts /\ Idle /\ page.account # None
    /\ run' = [NoRun EXCEPT !.at = "read", !.account = page.account, !.params = page.form]
    /\ UNCHANGED <<epoch, sent, topics, page>>

VerifyReads ==
    /\ run.at = "read"
    /\ run' = [run EXCEPT !.at = "attest", !.params = Params(@),
                          !.credential = [creator |-> run.account, params |-> Params(run.params),
                                          nonce |-> Nonce(run.account)]]
    /\ UNCHANGED <<acts, epoch, sent, topics, page>>

\* The wallet has signed and the service has answered, each in its time.
VerifyAnswers ==
    /\ run.at = "attest" /\ Ends
    /\ page' = [page EXCEPT !.verification = run.credential, !.hash = run.params]
    /\ UNCHANGED <<acts, epoch, sent, topics>>

\* Refused, out of time, failed; a creation that ends so keeps its credential.
Fails ==
    /\ ~Idle /\ Ends /\ UNCHANGED <<acts, epoch, sent, topics, page>>

-----------------------------------------------------------------------------
\* create, for the state of the click.

Create ==
    /\ Acts /\ Idle /\ page.account # None /\ page.verification # NoCredential
    /\ run' = [at |-> "create", account |-> page.account, params |-> page.form,
               credential |-> page.verification, hash |-> page.hash]
    /\ UNCHANGED <<epoch, sent, topics, page>>

\* The ten minutes have passed, by the chain's clock or as the factory says.
CreateExpired ==
    /\ run.at \in {"create", "wait"} /\ Ends
    /\ page' = [page EXCEPT !.verification = NoCredential, !.hash = None]
    /\ UNCHANGED <<acts, epoch, sent, topics>>

Creation == [by |-> run.account, params |-> Params(run.params), credential |-> run.credential]
\* Mistake: what was verified is not compared with what is sent.
CreateSends_Unchecked ==
    /\ run.at = "create" /\ sent' = sent \cup {Creation}
    /\ run' = [run EXCEPT !.at = "wait", !.params = Params(@)]
    /\ UNCHANGED <<acts, epoch, topics, page>>
CreateSends ==
    /\ run.at = "create" /\ Params(run.params) = run.hash
    /\ sent' = sent \cup {Creation}
    /\ run' = [run EXCEPT !.at = "wait", !.params = Params(@)]
    /\ UNCHANGED <<acts, epoch, topics, page>>

\* The factory creates what the credential says, for its creator, once.
Mined(t) ==
    /\ sent' = sent \ {t}
    /\ topics' = IF /\ t.credential.creator = t.by /\ t.credential.params = t.params
                    /\ t.credential.nonce = Nonce(t.by) /\ t.params[2] = epoch
                 THEN topics \cup {t} ELSE topics
    /\ UNCHANGED <<acts, epoch, page, run>>

\* The receipt within 60 seconds: the page goes on to the topic.
CreateConfirmed ==
    /\ run.at = "wait" /\ [by |-> run.account, params |-> run.params,
                           credential |-> run.credential] \in topics
    /\ Ends /\ acts' = 0
    /\ page' = [page EXCEPT !.verification = NoCredential, !.hash = None]
    /\ UNCHANGED <<epoch, sent, topics>>

-----------------------------------------------------------------------------
Init ==
    /\ acts = MaxActs /\ epoch = 0 /\ sent = {} /\ topics = {} /\ run = NoRun
    /\ \E c \in Contents :
          page = [form |-> c, account |-> None, verification |-> NoCredential, hash |-> None]

Next ==
    \/ \E c \in Contents : Edit(c)
    \/ \E a \in Accounts \cup {None} : SwitchWallet(a)
    \/ Reconfigure \/ VerifyX \/ VerifyReads \/ VerifyAnswers \/ Fails
    \/ Create \/ CreateExpired \/ CreateSends \/ CreateConfirmed
    \/ \E t \in sent : Mined(t)

Spec == Init /\ [][Next]_vars

-----------------------------------------------------------------------------
\* A creation carries exactly what its credential attests, although form, wallet
\* and configuration change under a verification or a creation.
SentAsAttested == \A t \in sent \cup topics : t.params = t.credential.params

\* The credential on the page is of the wallet on the page.
CredentialIsOfTheWallet ==
    page.verification # NoCredential => page.verification.creator = page.account
==============================================================================
