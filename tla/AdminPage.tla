------------------------------ MODULE AdminPage ------------------------------
(***************************************************************************)
(* The owner's page that creates a topic and its market in one transaction *)
(* on the main network (src/frontend/admin.tsx).  A creation cannot be     *)
(* taken back, so the page keeps a record of the one it has asked the      *)
(* wallet for, locks itself while the record exists, and finds out from    *)
(* two nodes what became of it.                                            *)
(*                                                                         *)
(* A tab has its React state and at most one handler; the record and the   *)
(* lock are the browser's.  The wallet may answer at any time, or never;   *)
(* the page may be reloaded between any two steps; nodes lag behind; blocks *)
(* that are not final may be taken back.                                   *)
(*                                                                         *)
(* Abstracted: calldata is the review it was made from; the checks of code *)
(* hashes, tokens, balances and fees are one answer, Sound or not; two      *)
(* confirmations are implied by finality.                                  *)
(***************************************************************************)
EXTENDS Integers, Sequences, FiniteSets

CONSTANTS Tabs, Nobody,
          Reviews, None, \* the calldata that may be prepared, a question and its deadline
          Question,      \* what each review asks
          MaxRequests,   \* bound: requests the wallet is sent
          MaxMined       \* bound: transactions of the owner on the chain

ASSUME AdminPageAssumption ==
    /\ None \notin Reviews /\ DOMAIN Question = Reviews
    /\ MaxRequests \in Nat /\ MaxMined \in Nat
    /\ Nobody \notin Tabs

VARIABLES
    asked,     \* the requests sent to the wallet
    mined,     \* the owner's transactions on the chain, in the order of nonces
    final,     \* how many of them are final
    record,    \* the pending intent in localStorage, or NoRecord
    lock,      \* the tab that holds the exclusive lock, or Nobody
    tab,       \* each tab's React state
    run,       \* each tab's running handler
    recovery   \* each tab's running recoverPending

vars == <<asked, mined, final, record, lock, tab, run, recovery>>

\* Stages of an intent: awaiting_signature, pending, reverted.
NoRecord   == [review |-> None, nonce |-> 0, stage |-> "none", tx |-> 0]
NoRun      == [op |-> "none", at |-> "", intent |-> NoRecord, request |-> 0]
NoRecovery == [at |-> "idle", intent |-> NoRecord, known |-> 0]
Fresh == [review |-> None, pending |-> record, result |-> 0,
          canClear |-> FALSE, canRetry |-> FALSE]

-----------------------------------------------------------------------------
\* The chain and the wallet.  A transaction is a request (its index), or made
\* elsewhere: Foreign transfers or cancels, ForeignCreate creates.

Foreign == -1
ForeignCreate == -2
Entry(tx, ok) == [tx |-> tx, ok |-> ok]
QuestionOf(i) == Question[asked[i].review]

\* A request is mined when its nonce is next; a creation may revert.
Mine(i) == \E ok \in BOOLEAN :
    /\ asked[i].state = "sent" /\ asked[i].nonce = Len(mined) + 1 /\ Len(mined) < MaxMined
    /\ mined' = Append(mined, Entry(i, ok))
    /\ UNCHANGED <<asked, final, record, lock, tab, run, recovery>>

\* The owner uses the same account elsewhere.
UsedElsewhere == \E tx \in {Foreign, ForeignCreate} :
    /\ Len(mined) < MaxMined
    /\ mined' = Append(mined, Entry(tx, TRUE))
    /\ UNCHANGED <<asked, final, record, lock, tab, run, recovery>>

Finalise ==
    /\ final < Len(mined) /\ final' = final + 1
    /\ UNCHANGED <<asked, mined, record, lock, tab, run, recovery>>

\* Blocks that are not final are taken back; what was sent may be mined again.
Reorg ==
    /\ final < Len(mined) /\ mined' = SubSeq(mined, 1, Len(mined) - 1)
    /\ UNCHANGED <<asked, final, record, lock, tab, run, recovery>>

\* The user signs a request, or rejects it, however late.
WalletAnswers(i) == \E s \in {"sent", "rejected"} :
    /\ asked[i].state = "open"
    /\ asked' = [asked EXCEPT ![i].state = s, ![i].by = IF s = "sent" THEN @ ELSE Nobody]
    /\ UNCHANGED <<mined, final, record, lock, tab, run, recovery>>

-----------------------------------------------------------------------------
\* What the nodes say.  A node may lag, so it may always report less than is
\* so; that both report a block as final is true.

\* All four counts equal the nonce: it is free, as far as both nodes know.
SaidFree(n) == n <= Len(mined) + 1
\* Some count is above it, or a node lags behind the transactions before it.
SaidTaken(n) == n <= Len(mined) \/ n > 1
                \/ \E i \in DOMAIN asked : asked[i].nonce = n /\ asked[i].state = "sent"
\* Assumption of time: a recovery takes seconds and finality a quarter of an hour,
\* so what becomes final during one recovery is noticed by the next.
\* Mistake: two confirmations are taken for finality.
SaidFinal_Confirmed(t, n) == n <= Len(mined)
SaidFinal(t, n) == n <= recovery[t].known
PlaceOf(i) == {n \in DOMAIN mined : mined[n].tx = i}
\* The wallet's provider counts its own transactions that wait to be mined.
WalletNonce ==
    LET waiting(k) == \E i \in DOMAIN asked : asked[i].nonce = k /\ asked[i].state = "sent"
    IN  CHOOSE n \in (Len(mined) + 1)..(Len(mined) + MaxRequests + 1) :
            /\ ~waiting(n) /\ \A k \in (Len(mined) + 1)..(n - 1) : waiting(k)
\* assertNoDuplicate reads the factory's list at the head.
\* Mistake: the newest vault is not compared.
Asked_NotTheLast(q) == \E n \in 1..(Len(mined) - 1) :
    mined[n].tx > 0 /\ mined[n].ok /\ QuestionOf(mined[n].tx) = q
Asked(q) == \E n \in DOMAIN mined :
    mined[n].tx > 0 /\ mined[n].ok /\ QuestionOf(mined[n].tx) = q

-----------------------------------------------------------------------------
\* The browser.

\* localStorage and the state of this tab; other tabs hear of it later.
Saved(t, r) ==
    /\ record' = r
    /\ tab' = [tab EXCEPT ![t].pending = r]
StorageEvent(t) ==
    /\ tab[t].pending # record
    /\ tab' = [tab EXCEPT ![t].pending = record]
    /\ UNCHANGED <<asked, mined, final, record, lock, run, recovery>>

\* The page is closed or reloaded in the middle of whatever it does.
Reload(t) ==
    /\ tab' = [tab EXCEPT ![t] = Fresh]
    /\ run' = [run EXCEPT ![t] = NoRun]
    /\ recovery' = [recovery EXCEPT ![t] = NoRecovery]
    /\ asked' = [i \in DOMAIN asked |-> [asked[i] EXCEPT !.by = IF @ = t THEN Nobody ELSE @]]
    /\ lock' = IF lock = t THEN Nobody ELSE lock
    /\ UNCHANGED <<mined, final, record>>

SameIntent(a, b) == a.nonce = b.nonce /\ a.review = b.review

\* The promise of a request that the tab made is fulfilled, if the tab still waits.
LateHash(t, i) ==
    /\ asked[i].by = t /\ asked[i].state = "sent"
    /\ asked' = [asked EXCEPT ![i].by = Nobody]
    /\ IF record # NoRecord /\ record.tx = 0 /\ SameIntent(record, asked[i])
       THEN Saved(t, [record EXCEPT !.stage = "pending", !.tx = i])
       ELSE UNCHANGED <<record, tab>>
    /\ UNCHANGED <<mined, final, lock, run, recovery>>

-----------------------------------------------------------------------------
\* The form.

FormShown(t) == tab[t].pending = NoRecord /\ tab[t].result = 0
Idle(t) == run[t] = NoRun

\* prepareReview; without the balance and the allowance there is a review that
\* cannot be submitted, which is as none.
PrepareReview(t) == \E v \in Reviews :
    /\ FormShown(t) /\ Idle(t) /\ v # tab[t].review /\ ~Asked(Question[v])
    /\ tab' = [tab EXCEPT ![t].review = v]
    /\ UNCHANGED <<asked, mined, final, record, lock, run, recovery>>

\* updateForm, even under a running handler, or approveSubsidy: the review must
\* be prepared again.
DropReview(t) ==
    /\ FormShown(t) /\ tab[t].review # None
    /\ tab' = [tab EXCEPT ![t].review = None]
    /\ UNCHANGED <<asked, mined, final, record, lock, run, recovery>>

CreateAnother(t) ==
    /\ tab[t].pending = NoRecord /\ tab[t].result # 0
    /\ tab' = [tab EXCEPT ![t].review = None, ![t].result = 0]
    /\ UNCHANGED <<asked, mined, final, record, lock, run, recovery>>

-----------------------------------------------------------------------------
\* Submission, under the lock of the browser.

At(t, step) == run[t].at = step
Goes(t, step) == run' = [run EXCEPT ![t].at = step]
Leaves(t) == run' = [run EXCEPT ![t] = NoRun] /\ lock' = IF lock = t THEN Nobody ELSE lock

\* A catch that keeps the record, when it is still the handler's, with the error.
KeepsRecord(t) ==
    IF record # NoRecord /\ SameIntent(record, run[t].intent)
    THEN Saved(t, record) ELSE UNCHANGED <<record, tab>>

Submit(t) ==
    /\ FormShown(t) /\ Idle(t) /\ tab[t].review # None /\ lock = Nobody
    /\ IF record # NoRecord
       THEN /\ tab' = [tab EXCEPT ![t].pending = record]
            /\ UNCHANGED <<lock, run>>
       ELSE /\ lock' = t /\ UNCHANGED tab
            /\ run' = [run EXCEPT ![t] = [op |-> "submit", at |-> "check",
                                          intent |-> [NoRecord EXCEPT !.review = tab[t].review],
                                          request |-> 0]]
    /\ UNCHANGED <<asked, mined, final, record, recovery>>

\* Anything that throws before the wallet is asked: a wrong account, five
\* minutes gone, too little money, a simulation that fails.
Refused(t) ==
    /\ run[t].at \in {"check", "nonce", "retry"}
    /\ KeepsRecord(t) /\ Leaves(t)
    /\ UNCHANGED <<asked, mined, final, recovery>>

CheckDuplicate(t) ==
    /\ At(t, "check") /\ ~Asked(Question[run[t].intent.review])
    /\ Goes(t, "nonce")
    /\ UNCHANGED <<asked, mined, final, record, lock, tab, recovery>>

Request(t, r) == [nonce |-> r.nonce, review |-> r.review, by |-> t, state |-> "open"]

\* The record is kept before the wallet is asked.
AskWallet(t) ==
    LET intent == [review |-> run[t].intent.review, nonce |-> WalletNonce,
                   stage |-> "awaiting_signature", tx |-> 0]
    IN  /\ At(t, "nonce") /\ Len(asked) < MaxRequests
        /\ Saved(t, intent)
        /\ asked' = Append(asked, Request(t, intent))
        /\ run' = [run EXCEPT ![t] = [op |-> "submit", at |-> "wallet", intent |-> intent,
                                      request |-> Len(asked) + 1]]
        /\ UNCHANGED <<mined, final, lock, recovery>>

\* Recovery starts unless one is running.  It runs for the intent it was given.
Recovering(t, r) ==
    recovery' = IF recovery[t] = NoRecovery
                THEN [recovery EXCEPT ![t] = [at |-> "nonces", intent |-> r,
                                                    known |-> final]] ELSE recovery
Cleared(s) == [s EXCEPT !.canClear = FALSE, !.canRetry = FALSE]

\* Sixty seconds are shorter than finality too.
InTime(t) == At(t, "wallet") /\ run[t].intent.nonce > final

\* The wallet has answered in time; the handler then waits for a recovery.
HashInTime(t) ==
    LET i == run[t].request
        with == [run[t].intent EXCEPT !.stage = "pending", !.tx = i]
        s == [tab[t] EXCEPT !.pending = with]
    IN  /\ InTime(t) /\ asked[i].state = "sent"
        /\ record' = with
        /\ tab' = [tab EXCEPT ![t] = IF recovery[t] = NoRecovery THEN Cleared(s)
                                     ELSE IF run[t].op = "retry" THEN [s EXCEPT !.canRetry = FALSE]
                                     ELSE s]
        /\ Recovering(t, with)
        /\ run' = [run EXCEPT ![t].at = "finish", ![t].intent = with]
        /\ UNCHANGED <<asked, mined, final, lock>>
HandlerEnds(t) ==
    /\ At(t, "finish") /\ recovery[t].intent # run[t].intent /\ Leaves(t)
    /\ UNCHANGED <<asked, mined, final, record, tab, recovery>>

\* Mistake: whatever is rejected drops the record.
RejectedInTime_AnyRequest(t) ==
    /\ InTime(t) /\ asked[run[t].request].state = "rejected"
    /\ Saved(t, NoRecord) /\ Leaves(t)
    /\ UNCHANGED <<asked, mined, final, recovery>>

\* The user said no: only the first request, and only if nothing is known to
\* have been sent, drops the record.  A retry never does.
RejectedInTime(t) ==
    /\ InTime(t) /\ asked[run[t].request].state = "rejected"
    /\ IF run[t].op = "submit" /\ record # NoRecord /\ SameIntent(record, run[t].intent)
          /\ record.tx = 0
       THEN Saved(t, NoRecord)
       ELSE KeepsRecord(t)
    /\ Leaves(t)
    /\ UNCHANGED <<asked, mined, final, recovery>>

\* Sixty seconds without an answer: the record stays.
WalletTimeout(t) ==
    /\ At(t, "wallet") /\ KeepsRecord(t) /\ Leaves(t)
    /\ UNCHANGED <<asked, mined, final, recovery>>

-----------------------------------------------------------------------------
\* A second try of the same intent with the same nonce.  It takes no lock.

Retry(t) ==
    /\ Idle(t) /\ tab[t].canRetry
    /\ tab[t].pending.tx = 0 /\ tab[t].pending.stage = "awaiting_signature"
    /\ run' = [run EXCEPT ![t] = [op |-> "retry", at |-> "retry",
                                  intent |-> tab[t].pending, request |-> 0]]
    /\ UNCHANGED <<asked, mined, final, record, lock, tab, recovery>>

AskAgain(t) ==
    LET r == run[t].intent IN
    /\ At(t, "retry") /\ Len(asked) < MaxRequests
    /\ ~Asked(Question[r.review]) /\ SaidFree(r.nonce)
    /\ Saved(t, r)
    /\ asked' = Append(asked, Request(t, r))
    /\ run' = [run EXCEPT ![t].at = "wallet", ![t].request = Len(asked) + 1]
    /\ UNCHANGED <<mined, final, lock, recovery>>

-----------------------------------------------------------------------------
\* recoverPending: what became of the intent.

RecoverStart(t) ==
    /\ tab[t].pending # NoRecord /\ recovery[t] = NoRecovery
    /\ tab' = [tab EXCEPT ![t] = Cleared(@)]
    /\ Recovering(t, tab[t].pending)
    /\ UNCHANGED <<asked, mined, final, record, lock, run>>

RecoverAt(t, step) == recovery[t].at = step
Search(t) == recovery' = [recovery EXCEPT ![t].at = "search"]
Done(t) == recovery' = [recovery EXCEPT ![t] = NoRecovery]

\* Nothing conclusive, or a node that does not answer: the page stays locked.
RecoverEndsLocked(t) ==
    /\ recovery[t] # NoRecovery /\ Done(t)
    /\ UNCHANGED <<asked, mined, final, record, lock, tab, run>>

\* Without a hash: is the nonce free for both nodes?
RecoverNonces(t) ==
    LET r == recovery[t].intent IN
    /\ RecoverAt(t, "nonces") /\ r.tx = 0
    /\ \/ /\ r.stage = "awaiting_signature" /\ SaidFree(r.nonce)
          /\ tab' = [tab EXCEPT ![t].canRetry = TRUE] /\ Done(t)
       \/ SaidTaken(r.nonce) /\ UNCHANGED tab /\ Search(t)
    /\ UNCHANGED <<asked, mined, final, record, lock, run>>

\* The transaction of this nonce, from the factory's events or the explorer:
\* the intent's own, which may still wait to be mined, is kept in the record.
RecoverFinds(t) == \E i \in DOMAIN asked :
    LET r == recovery[t].intent
        with == [r EXCEPT !.stage = "pending", !.tx = i]
    IN  /\ RecoverAt(t, "search")
        /\ asked[i].state = "sent" /\ SameIntent(asked[i], r)
        /\ r.nonce <= final => mined[r.nonce].tx = i
        /\ Saved(t, with)
        /\ recovery' = [recovery EXCEPT ![t].at = "nonces", ![t].intent = with]
        /\ UNCHANGED <<asked, mined, final, lock, run>>

\* Mistake: only a creation is recognised.
RecoverReplaced_ByCreation(t) ==
    /\ RecoverAt(t, "search") /\ SaidFinal(t, recovery[t].intent.nonce)
    /\ mined[recovery[t].intent.nonce].tx = ForeignCreate
    /\ record' = NoRecord
    /\ tab' = [tab EXCEPT ![t] = [Cleared(@) EXCEPT !.result = recovery[t].intent.nonce,
                                                    !.pending = NoRecord]]
    /\ Done(t)
    /\ UNCHANGED <<asked, mined, final, lock, run>>

\* Another one, final on both nodes: a creation is shown instead, anything else
\* proves the intent dead.
RecoverReplaced(t) ==
    LET r == recovery[t].intent
        e == mined[r.nonce]
        own == e.tx > 0 /\ SameIntent(asked[e.tx], r)
        create == e.ok /\ e.tx # Foreign
    IN  /\ RecoverAt(t, "search") /\ SaidFinal(t, r.nonce) /\ ~own
        /\ IF create
           THEN /\ record' = NoRecord
                /\ tab' = [tab EXCEPT ![t] = [Cleared(@) EXCEPT !.result = r.nonce,
                                                                !.pending = NoRecord]]
           ELSE /\ tab' = [tab EXCEPT ![t].canClear = TRUE]
                /\ UNCHANGED record
        /\ Done(t)
        /\ UNCHANGED <<asked, mined, final, lock, run>>

\* verifyReceipt: receipt, events, registries and balances of a creation that
\* succeeded all agree; while a node does not answer the page stays locked.
Verified(n) == mined[n].ok

\* With a hash: its receipt, final and canonical on both nodes.
RecoverReceipt(t) == \E n \in PlaceOf(recovery[t].intent.tx) :
    LET r == recovery[t].intent IN
    /\ RecoverAt(t, "nonces") /\ r.tx # 0 /\ SaidFinal(t, n)
    /\ IF Verified(n)
       THEN /\ record' = NoRecord
            /\ tab' = [tab EXCEPT ![t] = [Cleared(@) EXCEPT !.result = n, !.pending = NoRecord]]
       ELSE /\ record' = [r EXCEPT !.stage = "reverted"]
            /\ tab' = [tab EXCEPT ![t].pending = [r EXCEPT !.stage = "reverted"],
                                  ![t].canClear = TRUE]
    /\ Done(t)
    /\ UNCHANGED <<asked, mined, final, lock, run>>

\* The button that drops a record proved dead.
ClearRecord(t) ==
    /\ tab[t].pending # NoRecord /\ tab[t].canClear
    /\ record' = NoRecord
    /\ tab' = [tab EXCEPT ![t] = [Cleared(@) EXCEPT !.pending = NoRecord]]
    /\ UNCHANGED <<asked, mined, final, lock, run, recovery>>

-----------------------------------------------------------------------------
Init ==
    /\ asked = <<>> /\ mined = <<>> /\ final = 0
    /\ record = NoRecord /\ lock = Nobody
    /\ tab = [t \in Tabs |-> Fresh]
    /\ run = [t \in Tabs |-> NoRun]
    /\ recovery = [t \in Tabs |-> NoRecovery]

Recover(t) ==
    \/ RecoverNonces(t) \/ RecoverFinds(t) \/ RecoverReplaced(t) \/ RecoverReceipt(t)

\* What happens whether a page is open or not, and what happens in a tab.
Outside ==
    \/ \E i \in DOMAIN asked : Mine(i) \/ WalletAnswers(i)
    \/ UsedElsewhere \/ Finalise \/ Reorg
InTab(t) ==
    \/ StorageEvent(t) \/ Reload(t) \/ \E i \in DOMAIN asked : LateHash(t, i)
    \/ PrepareReview(t) \/ DropReview(t) \/ CreateAnother(t)
    \/ Submit(t) \/ Refused(t) \/ CheckDuplicate(t) \/ AskWallet(t)
    \/ HashInTime(t) \/ HandlerEnds(t) \/ RejectedInTime(t) \/ WalletTimeout(t)
    \/ Retry(t) \/ AskAgain(t)
    \/ RecoverStart(t) \/ RecoverEndsLocked(t) \/ Recover(t) \/ ClearRecord(t)

Next == Outside \/ \E t \in Tabs : InTab(t)

Spec == Init /\ [][Next]_vars

\* A tab whose rivals are never opened.
AloneSpec(t) == Init /\ [][Outside \/ InTab(t)]_vars

\* Recovery is tried every 15 seconds and its calls end; the nodes that are asked again and again
\* catch up, and then each stage of it gets its answer.
Fairness(t) ==
    /\ WF_vars(RecoverStart(t) \/ RecoverEndsLocked(t))
    /\ SF_vars(RecoverNonces(t) /\ Search(t))
    /\ SF_vars(RecoverFinds(t) \/ RecoverReplaced(t) \/ RecoverReceipt(t))
FairSpec == Spec /\ \A t \in Tabs : Fairness(t)

-----------------------------------------------------------------------------
\* The page is unlocked only when nothing it ever asked the wallet for can still
\* reach the chain, whatever is reloaded, reorganised or answered late.
UnlockedIsSafe ==
    record = NoRecord => \A i \in DOMAIN asked :
        asked[i].state = "rejected" \/ asked[i].nonce <= final

\* The same question is never created twice.
NoDuplicate == \A m, n \in DOMAIN mined :
    mined[m].tx > 0 /\ mined[n].tx > 0 /\ mined[m].ok /\ mined[n].ok
    /\ QuestionOf(mined[m].tx) = QuestionOf(mined[n].tx) => m = n

\* What is shown as created is on the final chain, and will stay there.
ResultIsFinal == \A t \in Tabs :
    tab[t].result # 0 => /\ tab[t].result <= final
                         /\ mined[tab[t].result].ok /\ mined[tab[t].result].tx # Foreign

\* The record's transaction has lost its nonce to another one for good.
HashLost == record.tx # 0 /\ record.nonce <= final /\ mined[record.nonce].tx # record.tx

\* Once the nonce is taken for good, the page finds out and unlocks or offers to.
Resolved == record = NoRecord \/ \E t \in Tabs : tab[t].canClear
RecordIsResolved ==
    (record # NoRecord /\ record.nonce <= final) ~> (Resolved \/ HashLost)
==============================================================================
