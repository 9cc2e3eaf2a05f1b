--------------------------- MODULE AdminPageProofs ---------------------------
(***************************************************************************)
(* Proofs about AdminPage, for any reviews, any number of requests to the  *)
(* wallet and of transactions.  For any tabs: what is shown as created is  *)
(* final.  For a tab whose rivals are never opened: the page unlocks only  *)
(* when nothing it asked for can still be mined, and no question is        *)
(* created twice.  With two tabs the latter are false (run admin_tabs).    *)
(*                                                                         *)
(* The argument.  A request is settled when it was rejected or its nonce   *)
(* is final.  What is not settled is of the record's intent, whatever the  *)
(* handler and the recovery are doing; and an intent that the recovery     *)
(* still follows is the record's, or none of its requests can be mined.    *)
(***************************************************************************)
EXTENDS AdminPage, SequenceTheorems, FiniteSetTheorems, WellFoundedInduction, TLAPS

Intents == [review : Reviews \cup {None}, nonce : Nat,
            stage : {"none", "awaiting_signature", "pending", "reverted"}, tx : Nat]
Requests == [nonce : Nat \ {0}, review : Reviews, by : Tabs \cup {Nobody},
             state : {"open", "sent", "rejected"}]
Entries == [tx : Int, ok : BOOLEAN]
TabStates == [review : Reviews \cup {None}, pending : Intents, result : Nat,
              canClear : BOOLEAN, canRetry : BOOLEAN]
Handlers == [op : {"none", "submit", "retry"},
             at : {"", "check", "nonce", "wallet", "finish", "retry"},
             intent : Intents, request : Nat]
Recoveries == [at : {"idle", "nonces", "search"}, intent : Intents, known : Nat]

TypeOK ==
    /\ asked \in Seq(Requests)
    /\ mined \in Seq(Entries)
    /\ final \in 0..Len(mined)
    /\ record \in Intents
    /\ lock \in Tabs \cup {Nobody}
    /\ tab \in [Tabs -> TabStates]
    /\ run \in [Tabs -> Handlers]
    /\ recovery \in [Tabs -> Recoveries]

(* An intent that is acted upon has a nonce and a review. *)
Real(r) == r.nonce > 0 /\ r.review \in Reviews

(* For any tabs: what a recovery takes for final is, and so is what is shown. *)
TabFacts(a) ==
    /\ a.pending # NoRecord => Real(a.pending)
    /\ a.result # 0 => a.result <= final /\ mined[a.result].ok /\ mined[a.result].tx # Foreign
RunFacts(h) ==
    /\ h.at \in {"check", "nonce"} => h.intent.review \in Reviews
    /\ h.at \in {"wallet", "finish", "retry"} => Real(h.intent)
RecoveryFacts(r) ==
    /\ r.at # "idle" => Real(r.intent)
    /\ r.known <= final
PageInv ==
    /\ TypeOK
    /\ record # NoRecord => Real(record)
    /\ \A t \in Tabs : TabFacts(tab[t]) /\ RunFacts(run[t]) /\ RecoveryFacts(recovery[t])

-----------------------------------------------------------------------------
(* Sequences. *)

LEMMA AskedIsASequence ==
    ASSUME TypeOK
    PROVE  /\ Len(asked) \in Nat /\ DOMAIN asked = 1..Len(asked)
           /\ \A i \in DOMAIN asked : asked[i] \in Requests
<1>. asked \in Seq(Requests)  BY DEF TypeOK
<1>. QED  BY ElementOfSeq, LenProperties

LEMMA MinedIsASequence ==
    ASSUME TypeOK
    PROVE  /\ Len(mined) \in Nat /\ DOMAIN mined = 1..Len(mined)
           /\ \A n \in DOMAIN mined : mined[n] \in Entries
<1>. mined \in Seq(Entries)  BY DEF TypeOK
<1>. QED  BY ElementOfSeq, LenProperties

(* A function on the domain of asked, with requests as its values, is a sequence. *)
LEMMA AskedAgain ==
    ASSUME TypeOK, NEW f, f = [i \in DOMAIN asked |-> f[i]],
           \A i \in DOMAIN asked : f[i] \in Requests
    PROVE  f \in Seq(Requests) /\ Len(f) = Len(asked) /\ DOMAIN f = DOMAIN asked
<1>1. Len(asked) \in Nat /\ DOMAIN asked = 1..Len(asked)  BY AskedIsASequence
<1>2. f \in [1..Len(asked) -> Requests]  BY <1>1
<1>3. f \in Seq(Requests)  BY <1>1, <1>2, SeqDef
<1>. QED  BY <1>1, <1>2, <1>3, LenProperties

(* The answer of the wallet changes the state of one request. *)
LEMMA AnswerIsTyped ==
    ASSUME TypeOK, NEW i \in DOMAIN asked, WalletAnswers(i)
    PROVE  /\ asked' \in Seq(Requests) /\ Len(asked') = Len(asked) /\ DOMAIN asked' = DOMAIN asked
           /\ \A j \in DOMAIN asked : /\ asked'[j].nonce = asked[j].nonce
                                      /\ asked'[j].review = asked[j].review
                                      /\ j # i => asked'[j] = asked[j]
           /\ asked[i].state = "open" /\ asked'[i].state \in {"sent", "rejected"}
<1>1. PICK s \in {"sent", "rejected"} :
        asked' = [asked EXCEPT ![i].state = s, ![i].by = IF s = "sent" THEN @ ELSE Nobody]
  BY DEF WalletAnswers
<1>. DEFINE e == [asked[i] EXCEPT !.state = s, !.by = IF s = "sent" THEN @ ELSE Nobody]
<1>2. asked[i] \in Requests /\ DOMAIN asked = 1..Len(asked) /\ Len(asked) \in Nat  BY AskedIsASequence
<1>3. e \in Requests /\ e.nonce = asked[i].nonce /\ e.review = asked[i].review /\ e.state = s
  BY <1>2 DEF Requests
<1>4. asked' = [asked EXCEPT ![i] = e]  BY <1>1
<1>. HIDE DEF e
<1>5. /\ asked' \in Seq(Requests) /\ Len(asked') = Len(asked)
      /\ \A j \in 1..Len(asked) : asked'[j] = IF j = i THEN e ELSE asked[j]
  BY <1>2, <1>3, <1>4, ExceptSeq DEF TypeOK
<1>6. DOMAIN asked' = DOMAIN asked  BY <1>4
<1>7. asked[i].state = "open"  BY DEF WalletAnswers
<1>. QED  BY <1>2, <1>3, <1>5, <1>6, <1>7

(* A reload and a late answer change who waits for a request, and nothing else of it. *)
LEMMA ForgottenIsTyped ==
    ASSUME TypeOK, NEW t \in Tabs, Reload(t)
    PROVE  /\ asked' \in Seq(Requests) /\ Len(asked') = Len(asked) /\ DOMAIN asked' = DOMAIN asked
           /\ \A j \in DOMAIN asked : /\ asked'[j].nonce = asked[j].nonce
                                      /\ asked'[j].review = asked[j].review
                                      /\ asked'[j].state = asked[j].state
<1>1. asked' = [i \in DOMAIN asked |-> [asked[i] EXCEPT !.by = IF @ = t THEN Nobody ELSE @]]  BY DEF Reload
<1>2. \A i \in DOMAIN asked : asked[i] \in Requests  BY AskedIsASequence
<1>3. \A i \in DOMAIN asked : asked'[i] = [asked[i] EXCEPT !.by = IF @ = t THEN Nobody ELSE @]  BY <1>1
<1>4. \A i \in DOMAIN asked :
        /\ asked'[i] \in Requests /\ asked'[i].nonce = asked[i].nonce
        /\ asked'[i].review = asked[i].review /\ asked'[i].state = asked[i].state
  BY ZenonT(40), <1>2, <1>3 DEF Requests
<1>5. asked' = [i \in DOMAIN asked |-> asked'[i]]  BY <1>1
<1>. QED  BY <1>4, <1>5, AskedAgain

LEMMA LateIsTyped ==
    ASSUME TypeOK, NEW t \in Tabs, NEW i \in DOMAIN asked, LateHash(t, i)
    PROVE  /\ asked' \in Seq(Requests) /\ Len(asked') = Len(asked) /\ DOMAIN asked' = DOMAIN asked
           /\ \A j \in DOMAIN asked : /\ asked'[j].nonce = asked[j].nonce
                                      /\ asked'[j].review = asked[j].review
                                      /\ asked'[j].state = asked[j].state
<1>. DEFINE e == [asked[i] EXCEPT !.by = Nobody]
<1>1. asked[i] \in Requests /\ DOMAIN asked = 1..Len(asked) /\ Len(asked) \in Nat  BY AskedIsASequence
<1>2. /\ e \in Requests /\ e.nonce = asked[i].nonce /\ e.review = asked[i].review
      /\ e.state = asked[i].state
  BY <1>1 DEF Requests
<1>3. asked' = [asked EXCEPT ![i] = e]  BY DEF LateHash
<1>. HIDE DEF e
<1>4. /\ asked' \in Seq(Requests) /\ Len(asked') = Len(asked)
      /\ \A j \in 1..Len(asked) : asked'[j] = IF j = i THEN e ELSE asked[j]
  BY <1>1, <1>2, <1>3, ExceptSeq DEF TypeOK
<1>5. DOMAIN asked' = DOMAIN asked  BY <1>3
<1>. QED  BY <1>1, <1>2, <1>4, <1>5

(* A request is the record's intent, and comes last. *)
LEMMA RequestIsTyped ==
    ASSUME TypeOK, NEW t \in Tabs, NEW r \in Intents, Real(r), asked' = Append(asked, Request(t, r))
    PROVE  /\ asked' \in Seq(Requests) /\ Len(asked') = Len(asked) + 1
           /\ DOMAIN asked' = DOMAIN asked \cup {Len(asked) + 1} /\ Len(asked) + 1 \notin DOMAIN asked
           /\ \A i \in DOMAIN asked : asked'[i] = asked[i]
           /\ asked'[Len(asked) + 1].nonce = r.nonce /\ asked'[Len(asked) + 1].review = r.review
           /\ asked'[Len(asked) + 1].state = "open"
<1>1. /\ Request(t, r) \in Requests
      /\ Request(t, r).nonce = r.nonce /\ Request(t, r).review = r.review /\ Request(t, r).state = "open"
  BY DEF Intents, Request, Requests, Real
<1>2. /\ asked' \in Seq(Requests) /\ Len(asked') = Len(asked) + 1
      /\ (\A i \in 1..Len(asked) : asked'[i] = asked[i]) /\ asked'[Len(asked) + 1] = Request(t, r)
  BY <1>1, AppendProperties DEF TypeOK
<1>3. Len(asked) \in Nat /\ DOMAIN asked = 1..Len(asked) /\ DOMAIN asked' = 1..(Len(asked) + 1)
  BY <1>2, AskedIsASequence, LenProperties
<1>. QED  BY <1>1, <1>2, <1>3

(* A set of natural numbers that is not empty has a least element. *)
LEMMA LeastNumber ==
    ASSUME NEW S, S \subseteq Nat, S # {}
    PROVE  \E n \in S : \A k \in S : n <= k
<1>1. PICK n \in S : \A k \in S : ~(<<k, n>> \in OpToRel(<, Nat))
  BY NatLessThanWellFounded, WFMin
<1>2. \A k \in S : ~(k < n)
  BY <1>1 DEF OpToRel
<1>. QED  BY <1>2

LEMMA PigeonHole ==
    ASSUME NEW a \in Int, NEW b \in Int, NEW n \in Nat, n < b - a + 1, NEW f \in [a..b -> 1..n]
    PROVE  \E j, k \in a..b : j # k /\ f[j] = f[k]
<1>1. IsFiniteSet(a..b) /\ Cardinality(a..b) = b - a + 1  BY FS_Interval
<1>2. IsFiniteSet(1..n) /\ Cardinality(1..n) = n  BY FS_Interval
<1>3. Cardinality(1..n) < Cardinality(a..b)  BY <1>1, <1>2
<1>. QED  BY <1>1, <1>2, <1>3, FS_PigeonHole

(* The nonce the wallet's provider gives is one that no request in the pool has. *)
LEMMA WalletNonceExists ==
    ASSUME TypeOK, Len(asked) < MaxRequests
    PROVE  WalletNonce \in Nat /\ WalletNonce > Len(mined)
<1>. DEFINE low  == Len(mined) + 1
            high == Len(mined) + MaxRequests + 1
            waiting(k) == \E i \in DOMAIN asked : asked[i].nonce = k /\ asked[i].state = "sent"
            free == {k \in low..high : ~waiting(k)}
<1>1. /\ low \in Nat /\ high \in Nat /\ low > 0 /\ MaxRequests \in Nat
      /\ Len(asked) \in Nat /\ DOMAIN asked = 1..Len(asked)
  BY AskedIsASequence, MinedIsASequence, AdminPageAssumption
<1>2. free # {}
  <2>. SUFFICES ASSUME \A k \in low..high : waiting(k)  PROVE FALSE  OBVIOUS
  <2>. DEFINE f == [k \in low..high |-> CHOOSE i \in DOMAIN asked : asked[i].nonce = k]
  <2>1. \A k \in low..high : f[k] \in 1..Len(asked) /\ asked[f[k]].nonce = k  BY <1>1
  <2>2. f \in [low..high -> 1..Len(asked)]  BY <2>1
  <2>. HIDE DEF f
  <2>3. \E j, k \in low..high : j # k /\ f[j] = f[k]
    <3>1. low \in Int /\ high \in Int /\ Len(asked) < high - low + 1  BY <1>1
    <3>. HIDE DEF low, high
    <3>. QED  BY <1>1, <2>2, <3>1, PigeonHole
  <2>. QED  BY <2>1, <2>3
<1>3. PICK n \in free : \A k \in free : n <= k
  <2>1. free \subseteq Nat  BY <1>1
  <2>. QED  BY <1>2, <2>1, LeastNumber
<1>4. n \in low..high /\ ~waiting(n) /\ \A k \in low..(n - 1) : waiting(k)
  BY <1>1, <1>3
<1>5. WalletNonce \in low..high
  BY <1>4 DEF WalletNonce
<1>. QED  BY <1>1, <1>5
-----------------------------------------------------------------------------
(* What is shown as created is final, for any tabs. *)

LEMMA NoneAreTyped ==
    /\ NoRecord \in Intents /\ NoRecord.nonce = 0 /\ NoRecord.tx = 0 /\ NoRecord.stage = "none"
    /\ NoRun \in Handlers /\ NoRun.at = ""
    /\ NoRecovery \in Recoveries /\ NoRecovery.at = "idle" /\ NoRecovery.known = 0
<1>1. /\ NoRecord \in Intents /\ NoRecord.nonce = 0 /\ NoRecord.tx = 0 /\ NoRecord.stage = "none"
  BY DEF NoRecord, Intents
<1>2. NoRun \in Handlers /\ NoRun.at = ""  BY <1>1 DEF NoRun, Handlers
<1>3. NoRecovery \in Recoveries /\ NoRecovery.at = "idle" /\ NoRecovery.known = 0
  BY <1>1 DEF NoRecovery, Recoveries
<1>. QED  BY <1>1, <1>2, <1>3

LEMMA PageIsTyped ==
    ASSUME PageInv, NEW t \in Tabs
    PROVE  /\ tab[t] \in TabStates /\ tab = [tab EXCEPT ![t] = tab[t]] /\ TabFacts(tab[t])
           /\ run[t] \in Handlers /\ run = [run EXCEPT ![t] = run[t]] /\ RunFacts(run[t])
           /\ recovery[t] \in Recoveries /\ recovery = [recovery EXCEPT ![t] = recovery[t]]
           /\ RecoveryFacts(recovery[t])
           /\ asked \in Seq(Requests) /\ lock \in Tabs \cup {Nobody}
           /\ record \in Intents /\ (record # NoRecord => Real(record))
           /\ final \in Nat
<1>1. Len(mined) \in Nat  BY MinedIsASequence DEF PageInv
<1>. QED  BY <1>1 DEF PageInv, TypeOK

(* A step in a tab leaves the other tabs alone. *)
LEMMA TabStep ==
    ASSUME PageInv, NEW t \in Tabs,
           NEW a \in TabStates, tab' = [tab EXCEPT ![t] = a], TabFacts(a),
           NEW h \in Handlers, run' = [run EXCEPT ![t] = h], RunFacts(h),
           NEW r \in Recoveries, recovery' = [recovery EXCEPT ![t] = r], RecoveryFacts(r),
           asked' \in Seq(Requests), lock' \in Tabs \cup {Nobody},
           record' \in Intents, record' # NoRecord => Real(record'),
           UNCHANGED <<mined, final>>
    PROVE  PageInv'
<1>1. TypeOK'  BY DEF PageInv, TypeOK
<1>2. ASSUME NEW u \in Tabs  PROVE (TabFacts(tab[u]) /\ RunFacts(run[u]) /\ RecoveryFacts(recovery[u]))'
  <2>1. CASE u = t
    <3>1. tab'[u] = a /\ run'[u] = h /\ recovery'[u] = r  BY <2>1 DEF PageInv, TypeOK
    <3>. QED  BY <3>1 DEF TabFacts, RunFacts, RecoveryFacts, Real
  <2>2. CASE u # t
    <3>1. tab'[u] = tab[u] /\ run'[u] = run[u] /\ recovery'[u] = recovery[u]  BY <2>2 DEF PageInv, TypeOK
    <3>2. TabFacts(tab[u]) /\ RunFacts(run[u]) /\ RecoveryFacts(recovery[u])  BY DEF PageInv
    <3>. QED  BY <3>1, <3>2 DEF TabFacts, RunFacts, RecoveryFacts, Real
  <2>. QED  BY <2>1, <2>2
<1>3. (record # NoRecord => Real(record))'  BY DEF Real, NoRecord
<1>. QED  BY <1>1, <1>2, <1>3 DEF PageInv

(* What the nodes and the wallet do on their own. *)
LEMMA OutsideKeepsPage == ASSUME PageInv, Outside  PROVE PageInv'
<1>. USE DEF PageInv
<1>1. /\ Len(mined) \in Nat /\ DOMAIN mined = 1..Len(mined)
      /\ Len(asked) \in Nat /\ DOMAIN asked = 1..Len(asked)
  BY MinedIsASequence, AskedIsASequence
<1>2. ASSUME NEW e \in Entries, mined' = Append(mined, e),
             UNCHANGED <<asked, final, record, lock, tab, run, recovery>>
      PROVE  PageInv'
  <2>1. mined' \in Seq(Entries) /\ Len(mined') = Len(mined) + 1 /\ \A n \in 1..Len(mined) : mined'[n] = mined[n]
    BY <1>2, AppendProperties DEF TypeOK
  <2>2. TypeOK'  BY <1>1, <1>2, <2>1 DEF TypeOK
  <2>3. \A t \in Tabs : tab[t].result # 0 /\ tab[t].result <= final => tab[t].result \in 1..Len(mined)
    BY <1>1 DEF TypeOK, TabStates
  <2>. QED  BY <1>2, <2>1, <2>2, <2>3 DEF TabFacts, RunFacts, RecoveryFacts, Real, NoRecord
<1>3. ASSUME NEW i \in DOMAIN asked, Mine(i)  PROVE PageInv'
  <2>1. PICK ok \in BOOLEAN : mined' = Append(mined, Entry(i, ok))  BY <1>3 DEF Mine
  <2>2. Entry(i, ok) \in Entries  BY <1>1 DEF Entry, Entries
  <2>. QED  BY <1>2, <1>3, <2>1, <2>2 DEF Mine
<1>4. ASSUME UsedElsewhere  PROVE PageInv'
  <2>1. PICK tx \in {Foreign, ForeignCreate} : mined' = Append(mined, Entry(tx, TRUE))
    BY <1>4 DEF UsedElsewhere
  <2>2. Entry(tx, TRUE) \in Entries  BY DEF Entry, Entries, Foreign, ForeignCreate
  <2>. QED  BY <1>2, <1>4, <2>1, <2>2 DEF UsedElsewhere
<1>5. ASSUME Finalise  PROVE PageInv'
  <2>1. TypeOK' /\ final' = final + 1 /\ final \in Nat  BY <1>1, <1>5 DEF Finalise, TypeOK
  <2>2. \A t \in Tabs : tab[t].result \in Nat /\ recovery[t].known \in Nat
    BY DEF TypeOK, TabStates, Recoveries
  <2>. QED  BY <1>5, <2>1, <2>2 DEF Finalise, TabFacts, RunFacts, RecoveryFacts, Real, NoRecord
<1>6. ASSUME Reorg  PROVE PageInv'
  <2>1. \A n \in 1..(Len(mined) - 1) : mined[n] \in Entries  BY <1>1, MinedIsASequence
  <2>2. /\ mined' \in Seq(Entries) /\ Len(mined') = Len(mined) - 1
        /\ \A n \in 1..(Len(mined) - 1) : mined'[n] = mined[n]
    BY <1>1, <1>6, <2>1, SubSeqProperties DEF Reorg, TypeOK
  <2>3. TypeOK'  BY <1>1, <1>6, <2>2 DEF Reorg, TypeOK
  <2>4. \A t \in Tabs : tab[t].result # 0 /\ tab[t].result <= final => tab[t].result \in 1..(Len(mined) - 1)
    BY <1>1, <1>6 DEF Reorg, TypeOK, TabStates
  <2>. QED  BY <1>6, <2>2, <2>3, <2>4 DEF Reorg, TabFacts, RunFacts, RecoveryFacts, Real, NoRecord
<1>7. ASSUME NEW i \in DOMAIN asked, WalletAnswers(i)  PROVE PageInv'
  <2>1. asked' \in Seq(Requests)  BY <1>7, AnswerIsTyped
  <2>2. TypeOK'  BY <1>7, <2>1 DEF WalletAnswers, TypeOK
  <2>. QED  BY <1>7, <2>2 DEF WalletAnswers, TabFacts, RunFacts, RecoveryFacts, Real, NoRecord
<1>. QED  BY <1>3, <1>4, <1>5, <1>6, <1>7 DEF Outside
(* What is written into the record, and into the state of the tab. *)
LEMMA PendingIsTyped ==
    ASSUME NEW s \in TabStates, NEW r \in Intents
    PROVE  [s EXCEPT !.pending = r] \in TabStates /\ [s EXCEPT !.pending = r].result = s.result
           /\ [s EXCEPT !.pending = r].pending = r
BY DEF TabStates

LEMMA ClearedIsTyped ==
    ASSUME NEW s \in TabStates
    PROVE  /\ Cleared(s) \in TabStates /\ Cleared(s).pending = s.pending
           /\ Cleared(s).result = s.result /\ Cleared(s).review = s.review
           /\ ~Cleared(s).canClear /\ ~Cleared(s).canRetry
BY DEF Cleared, TabStates

(* A catch writes the record that is there, whether it is the handler's or not. *)
LEMMA RecordIsKept ==
    ASSUME PageInv, NEW t \in Tabs, KeepsRecord(t)
    PROVE  /\ record' = record
           /\ \E a \in TabStates : /\ tab' = [tab EXCEPT ![t] = a] /\ TabFacts(a)
                                   /\ a = tab[t] \/ a = [tab[t] EXCEPT !.pending = record]
<1>1. /\ tab[t] \in TabStates /\ TabFacts(tab[t]) /\ tab = [tab EXCEPT ![t] = tab[t]]
      /\ record \in Intents /\ (record # NoRecord => Real(record))
  BY PageIsTyped
<1>2. CASE record # NoRecord /\ SameIntent(record, run[t].intent)
  <2>. DEFINE a == [tab[t] EXCEPT !.pending = record]
  <2>1. a \in TabStates /\ a.result = tab[t].result /\ a.pending = record  BY <1>1, PendingIsTyped
  <2>2. TabFacts(a)  BY <1>1, <2>1 DEF TabFacts
  <2>3. tab' = [tab EXCEPT ![t] = a] /\ record' = record  BY <1>2 DEF KeepsRecord, Saved
  <2>. QED  BY <2>1, <2>2, <2>3
<1>. QED  BY <1>1, <1>2 DEF KeepsRecord

(* A handler that ends with the record kept. *)
LEMMA LeavingKeepsPage ==
    ASSUME PageInv, NEW t \in Tabs, KeepsRecord(t), Leaves(t),
           UNCHANGED <<asked, mined, final, recovery>>
    PROVE  PageInv'
<1>1. PICK a \in TabStates : tab' = [tab EXCEPT ![t] = a] /\ TabFacts(a)  BY RecordIsKept
<1>2. run' = [run EXCEPT ![t] = NoRun] /\ RunFacts(NoRun) /\ NoRun \in Handlers
  BY NoneAreTyped DEF Leaves, RunFacts
<1>3. lock' \in Tabs \cup {Nobody}  BY PageIsTyped DEF Leaves
<1>4. record' \in Intents /\ (record' # NoRecord => Real(record'))  BY RecordIsKept, PageIsTyped
<1>5. /\ recovery' = [recovery EXCEPT ![t] = recovery[t]] /\ recovery[t] \in Recoveries
      /\ RecoveryFacts(recovery[t]) /\ asked' \in Seq(Requests)
  BY PageIsTyped
<1>. QED  BY <1>1, <1>2, <1>3, <1>4, <1>5, TabStep

(* The form, the storage event and the button that drops the record. *)
LEMMA FormKeepsPage ==
    ASSUME PageInv, NEW t \in Tabs,
           StorageEvent(t) \/ PrepareReview(t) \/ DropReview(t) \/ CreateAnother(t) \/ ClearRecord(t)
    PROVE  PageInv'
<1>1. /\ tab[t] \in TabStates /\ TabFacts(tab[t])
      /\ record \in Intents /\ (record # NoRecord => Real(record))
  BY PageIsTyped
<1>2. ASSUME NEW a \in TabStates, tab' = [tab EXCEPT ![t] = a], TabFacts(a),
             record' = record \/ record' = NoRecord,
             UNCHANGED <<asked, mined, final, lock, run, recovery>>
      PROVE  PageInv'
  BY <1>1, <1>2, PageIsTyped, NoneAreTyped, TabStep
<1>3. CASE StorageEvent(t)
  <2>. DEFINE a == [tab[t] EXCEPT !.pending = record]
  <2>1. a \in TabStates /\ a.result = tab[t].result /\ a.pending = record  BY <1>1, PendingIsTyped
  <2>2. TabFacts(a)  BY <1>1, <2>1 DEF TabFacts
  <2>3. tab' = [tab EXCEPT ![t] = a]  BY <1>3 DEF StorageEvent
  <2>. HIDE DEF a
  <2>. QED  BY <1>2, <1>3, <2>1, <2>2, <2>3 DEF StorageEvent
<1>4. ASSUME NEW v \in Reviews \cup {None}, tab' = [tab EXCEPT ![t].review = v],
             UNCHANGED <<asked, mined, final, record, lock, run, recovery>>
      PROVE  PageInv'
  <2>. DEFINE a == [tab[t] EXCEPT !.review = v]
  <2>1. a \in TabStates /\ a.result = tab[t].result /\ a.pending = tab[t].pending  BY <1>1 DEF TabStates
  <2>2. TabFacts(a)  BY <1>1, <2>1 DEF TabFacts
  <2>3. tab' = [tab EXCEPT ![t] = a]  BY <1>4
  <2>. HIDE DEF a
  <2>. QED  BY <1>2, <1>4, <2>1, <2>2, <2>3
<1>5. CASE PrepareReview(t)  BY <1>4, <1>5 DEF PrepareReview
<1>6. CASE DropReview(t)  BY <1>4, <1>6 DEF DropReview
<1>7. CASE CreateAnother(t)
  <2>. DEFINE a == [tab[t] EXCEPT !.review = None, !.result = 0]
  <2>1. a \in TabStates /\ a.result = 0 /\ a.pending = tab[t].pending  BY <1>1 DEF TabStates
  <2>2. TabFacts(a)  BY <1>1, <2>1 DEF TabFacts
  <2>3. tab' = [tab EXCEPT ![t] = a]  BY <1>7 DEF CreateAnother
  <2>. HIDE DEF a
  <2>. QED  BY <1>2, <1>7, <2>1, <2>2, <2>3 DEF CreateAnother
<1>8. CASE ClearRecord(t)
  <2>. DEFINE c == Cleared(tab[t])
              a == [c EXCEPT !.pending = NoRecord]
  <2>1. c \in TabStates /\ c.result = tab[t].result  BY <1>1, ClearedIsTyped
  <2>2. tab' = [tab EXCEPT ![t] = a]  BY <1>8 DEF ClearRecord
  <2>. HIDE DEF c
  <2>3. a \in TabStates /\ a.result = tab[t].result /\ a.pending = NoRecord
    BY <2>1, NoneAreTyped, PendingIsTyped
  <2>4. TabFacts(a)  BY <1>1, <2>3 DEF TabFacts
  <2>. HIDE DEF a
  <2>. QED  BY <1>2, <1>8, <2>2, <2>3, <2>4 DEF ClearRecord
<1>. QED  BY <1>3, <1>5, <1>6, <1>7, <1>8

(* A reload forgets whatever the tab was doing. *)
LEMMA ReloadKeepsPage == ASSUME PageInv, NEW t \in Tabs, Reload(t)  PROVE PageInv'
<1>1. asked' \in Seq(Requests)  BY ForgottenIsTyped DEF PageInv
<1>2. /\ record \in Intents /\ (record # NoRecord => Real(record))
      /\ lock \in Tabs \cup {Nobody} /\ final \in Nat
  BY PageIsTyped
<1>3. Fresh \in TabStates /\ TabFacts(Fresh)  BY <1>2 DEF Fresh, TabStates, TabFacts
<1>4. RunFacts(NoRun) /\ RecoveryFacts(NoRecovery)
  <2>1. RunFacts(NoRun)  BY NoneAreTyped DEF RunFacts
  <2>2. 0 <= final  BY <1>2
  <2>3. NoRecovery.at = "idle" /\ NoRecovery.known = 0  BY NoneAreTyped
  <2>. QED  BY <2>1, <2>2, <2>3 DEF RecoveryFacts
<1>5. /\ tab' = [tab EXCEPT ![t] = Fresh] /\ run' = [run EXCEPT ![t] = NoRun]
      /\ recovery' = [recovery EXCEPT ![t] = NoRecovery]
      /\ lock' \in Tabs \cup {Nobody} /\ UNCHANGED <<mined, final, record>>
  BY <1>2 DEF Reload
<1>. QED  BY <1>1, <1>2, <1>3, <1>4, <1>5, NoneAreTyped, TabStep

LEMMA LateHashKeepsPage ==
    ASSUME PageInv, NEW t \in Tabs, NEW i \in DOMAIN asked, LateHash(t, i)  PROVE PageInv'
<1>1. asked' \in Seq(Requests)  BY LateIsTyped DEF PageInv
<1>2. /\ tab[t] \in TabStates /\ TabFacts(tab[t])
      /\ record \in Intents /\ (record # NoRecord => Real(record))
  BY PageIsTyped
<1>3. i \in Nat  BY AskedIsASequence DEF PageInv
<1>6. /\ run' = [run EXCEPT ![t] = run[t]] /\ run[t] \in Handlers /\ RunFacts(run[t])
      /\ recovery' = [recovery EXCEPT ![t] = recovery[t]] /\ recovery[t] \in Recoveries
      /\ RecoveryFacts(recovery[t])
      /\ lock' \in Tabs \cup {Nobody} /\ UNCHANGED <<mined, final>>
  BY PageIsTyped DEF LateHash
<1>4. CASE record # NoRecord /\ record.tx = 0 /\ SameIntent(record, asked[i])
  <2>. DEFINE r == [record EXCEPT !.stage = "pending", !.tx = i]
              a == [tab[t] EXCEPT !.pending = r]
  <2>1. record' = r /\ tab' = [tab EXCEPT ![t] = a]  BY <1>4 DEF LateHash, Saved
  <2>2. r \in Intents /\ Real(r)  BY <1>2, <1>3, <1>4 DEF Intents, Real
  <2>. HIDE DEF r
  <2>3. a \in TabStates /\ a.result = tab[t].result /\ a.pending = r  BY <1>2, <2>2, PendingIsTyped
  <2>4. TabFacts(a)  BY <1>2, <2>2, <2>3 DEF TabFacts
  <2>. HIDE DEF a
  <2>. QED  BY <1>1, <2>1, <2>2, <2>3, <2>4, <1>6, TabStep
<1>5. CASE ~(record # NoRecord /\ record.tx = 0 /\ SameIntent(record, asked[i]))
  <2>1. record' = record /\ tab' = [tab EXCEPT ![t] = tab[t]]  BY <1>5, PageIsTyped DEF LateHash
  <2>. QED  BY <1>1, <1>2, <1>6, <2>1, TabStep
<1>. QED  BY <1>4, <1>5
(* Submission and the second try, up to the wallet. *)
LEMMA HandlerKeepsPage ==
    ASSUME PageInv, NEW t \in Tabs,
           Submit(t) \/ CheckDuplicate(t) \/ HandlerEnds(t) \/ Retry(t) \/ Refused(t) \/ WalletTimeout(t)
    PROVE  PageInv'
<1>1. /\ tab[t] \in TabStates /\ TabFacts(tab[t])
      /\ run[t] \in Handlers /\ RunFacts(run[t])
      /\ record \in Intents /\ (record # NoRecord => Real(record)) /\ lock \in Tabs \cup {Nobody}
  BY PageIsTyped
<1>2. ASSUME NEW h \in Handlers, run' = [run EXCEPT ![t] = h], RunFacts(h), lock' \in Tabs \cup {Nobody},
             UNCHANGED <<asked, mined, final, record, tab, recovery>>
      PROVE  PageInv'
  <2>1. /\ tab' = [tab EXCEPT ![t] = tab[t]] /\ asked' \in Seq(Requests)
        /\ recovery' = [recovery EXCEPT ![t] = recovery[t]] /\ recovery[t] \in Recoveries
        /\ RecoveryFacts(recovery[t])
    BY <1>2, PageIsTyped
  <2>. QED  BY <1>1, <1>2, <2>1, TabStep
<1>3. CASE Submit(t)
  <2>1. CASE record # NoRecord
    <3>. DEFINE a == [tab[t] EXCEPT !.pending = record]
    <3>1. a \in TabStates /\ a.result = tab[t].result /\ a.pending = record  BY <1>1, PendingIsTyped
    <3>2. TabFacts(a)  BY <1>1, <3>1 DEF TabFacts
    <3>3. tab' = [tab EXCEPT ![t] = a] /\ UNCHANGED <<asked, mined, final, record, lock, run, recovery>>
      BY <1>3, <2>1 DEF Submit
    <3>4. /\ run' = [run EXCEPT ![t] = run[t]] /\ asked' \in Seq(Requests)
          /\ recovery' = [recovery EXCEPT ![t] = recovery[t]] /\ recovery[t] \in Recoveries
          /\ RecoveryFacts(recovery[t])
      BY <3>3, PageIsTyped
    <3>. HIDE DEF a
    <3>. QED  BY <1>1, <3>1, <3>2, <3>3, <3>4, TabStep
  <2>2. CASE record = NoRecord
    <3>. DEFINE r == [NoRecord EXCEPT !.review = tab[t].review]
                h == [op |-> "submit", at |-> "check", intent |-> r, request |-> 0]
    <3>1. /\ run' = [run EXCEPT ![t] = h] /\ lock' = t /\ tab[t].review # None
          /\ UNCHANGED <<asked, mined, final, record, tab, recovery>>
      BY <1>3, <2>2 DEF Submit
    <3>2. r \in Intents /\ r.review \in Reviews  BY <1>1, <3>1 DEF TabStates, Intents, NoRecord
    <3>. HIDE DEF r
    <3>3. h \in Handlers /\ RunFacts(h)  BY <3>2 DEF Handlers, RunFacts
    <3>. HIDE DEF h
    <3>. QED  BY <1>2, <3>1, <3>3
  <2>. QED  BY <2>1, <2>2
<1>4. CASE CheckDuplicate(t)
  <2>. DEFINE h == [run[t] EXCEPT !.at = "nonce"]
  <2>1. /\ run[t].at = "check" /\ run' = [run EXCEPT ![t] = h]
        /\ UNCHANGED <<asked, mined, final, record, lock, tab, recovery>>
    BY <1>4 DEF CheckDuplicate, At, Goes
  <2>2. h \in Handlers /\ h.at = "nonce" /\ h.intent = run[t].intent  BY <1>1 DEF Handlers
  <2>3. RunFacts(h)  BY <1>1, <2>1, <2>2 DEF RunFacts
  <2>. HIDE DEF h
  <2>. QED  BY <1>1, <1>2, <2>1, <2>2, <2>3
<1>5. CASE HandlerEnds(t)
  <2>1. RunFacts(NoRun) /\ NoRun \in Handlers  BY NoneAreTyped DEF RunFacts
  <2>2. run' = [run EXCEPT ![t] = NoRun] /\ lock' \in Tabs \cup {Nobody}
    BY <1>1, <1>5 DEF HandlerEnds, Leaves
  <2>. QED  BY <1>2, <1>5, <2>1, <2>2 DEF HandlerEnds
<1>6. CASE Retry(t)
  <2>. DEFINE h == [op |-> "retry", at |-> "retry", intent |-> tab[t].pending, request |-> 0]
  <2>1. /\ run' = [run EXCEPT ![t] = h] /\ tab[t].pending.stage = "awaiting_signature"
        /\ UNCHANGED <<asked, mined, final, record, lock, tab, recovery>>
    BY <1>6 DEF Retry
  <2>2. tab[t].pending # NoRecord  BY <2>1, NoneAreTyped
  <2>3. tab[t].pending \in Intents /\ Real(tab[t].pending)  BY <1>1, <2>2 DEF TabStates, TabFacts
  <2>4. h \in Handlers /\ RunFacts(h)  BY <2>3 DEF Handlers, RunFacts
  <2>. HIDE DEF h
  <2>. QED  BY <1>1, <1>2, <2>1, <2>4
<1>7. CASE Refused(t)  BY <1>7, LeavingKeepsPage DEF Refused
<1>8. CASE WalletTimeout(t)  BY <1>8, LeavingKeepsPage DEF WalletTimeout
<1>. QED  BY <1>3, <1>4, <1>5, <1>6, <1>7, <1>8

(* The wallet is asked: the record is of the request that was made. *)
LEMMA AskingKeepsPage ==
    ASSUME PageInv, NEW t \in Tabs, AskWallet(t) \/ AskAgain(t)  PROVE PageInv'
<1>1. /\ tab[t] \in TabStates /\ TabFacts(tab[t])
      /\ run[t] \in Handlers /\ RunFacts(run[t]) /\ lock \in Tabs \cup {Nobody}
  BY PageIsTyped
<1>2. Len(asked) \in Nat /\ DOMAIN asked = 1..Len(asked) /\ Len(mined) \in Nat
  BY AskedIsASequence, MinedIsASequence DEF PageInv
<1>3. ASSUME NEW r \in Intents, Real(r), Saved(t, r), asked' = Append(asked, Request(t, r)),
             NEW h \in Handlers, h.at = "wallet", h.intent = r, run' = [run EXCEPT ![t] = h],
             UNCHANGED <<mined, final, lock, recovery>>
      PROVE  PageInv'
  <2>. DEFINE a == [tab[t] EXCEPT !.pending = r]
  <2>1. a \in TabStates /\ a.result = tab[t].result /\ a.pending = r  BY <1>1, PendingIsTyped
  <2>2. TabFacts(a)  BY <1>1, <1>3, <2>1 DEF TabFacts
  <2>3. tab' = [tab EXCEPT ![t] = a] /\ record' = r  BY <1>3 DEF Saved
  <2>. HIDE DEF a
  <2>4. asked' \in Seq(Requests)  BY <1>3, RequestIsTyped DEF PageInv
  <2>5. RunFacts(h)  BY <1>3 DEF RunFacts
  <2>6. recovery' = [recovery EXCEPT ![t] = recovery[t]] /\ recovery[t] \in Recoveries
        /\ RecoveryFacts(recovery[t])
    BY <1>3, PageIsTyped
  <2>. QED  BY <1>1, <1>3, <2>1, <2>2, <2>3, <2>4, <2>5, <2>6, TabStep
<1>4. CASE AskWallet(t)
  <2>. DEFINE r == [review |-> run[t].intent.review, nonce |-> WalletNonce,
                    stage |-> "awaiting_signature", tx |-> 0]
              h == [op |-> "submit", at |-> "wallet", intent |-> r, request |-> Len(asked) + 1]
  <2>1. /\ run[t].at = "nonce" /\ Len(asked) < MaxRequests /\ Saved(t, r)
        /\ asked' = Append(asked, Request(t, r)) /\ run' = [run EXCEPT ![t] = h]
        /\ UNCHANGED <<mined, final, lock, recovery>>
    BY <1>4 DEF AskWallet, At
  <2>2. WalletNonce \in Nat /\ WalletNonce > 0
    <3>1. WalletNonce \in Nat /\ WalletNonce > Len(mined)  BY <2>1, WalletNonceExists DEF PageInv
    <3>. QED  BY <1>2, <3>1
  <2>3. run[t].intent.review \in Reviews  BY <1>1, <2>1 DEF RunFacts
  <2>4. r \in Intents /\ Real(r)  BY <2>2, <2>3 DEF Intents, Real
  <2>. HIDE DEF r
  <2>5. h \in Handlers /\ h.at = "wallet" /\ h.intent = r  BY <1>2, <2>4 DEF Handlers
  <2>. HIDE DEF h
  <2>. QED  BY <1>3, <2>1, <2>4, <2>5
<1>5. CASE AskAgain(t)
  <2>. DEFINE r == run[t].intent
              h == [run[t] EXCEPT !.at = "wallet", !.request = Len(asked) + 1]
  <2>1. /\ run[t].at = "retry" /\ Saved(t, r)
        /\ asked' = Append(asked, Request(t, r)) /\ run' = [run EXCEPT ![t] = h]
        /\ UNCHANGED <<mined, final, lock, recovery>>
    BY <1>5 DEF AskAgain, At
  <2>2. r \in Intents /\ Real(r)  BY <1>1, <2>1 DEF Handlers, RunFacts
  <2>3. h \in Handlers /\ h.at = "wallet" /\ h.intent = r
    <3>1. Len(asked) + 1 \in Nat  BY <1>2
    <3>2. \A n \in Nat : LET g == [run[t] EXCEPT !.at = "wallet", !.request = n]
                        IN  g \in Handlers /\ g.at = "wallet" /\ g.intent = r
      BY <1>1 DEF Handlers
    <3>. QED  BY <3>1, <3>2
  <2>. HIDE DEF h, r
  <2>. QED  BY <1>3, <2>1, <2>2, <2>3
<1>. QED  BY <1>4, <1>5

LEMMA HashInTimeKeepsPage == ASSUME PageInv, NEW t \in Tabs, HashInTime(t)  PROVE PageInv'
<1>1. /\ tab[t] \in TabStates /\ TabFacts(tab[t])
      /\ run[t] \in Handlers /\ RunFacts(run[t]) /\ lock \in Tabs \cup {Nobody}
      /\ recovery[t] \in Recoveries /\ RecoveryFacts(recovery[t]) /\ final \in Nat
      /\ recovery = [recovery EXCEPT ![t] = recovery[t]] /\ asked \in Seq(Requests)
  BY PageIsTyped
<1>. DEFINE with == [run[t].intent EXCEPT !.stage = "pending", !.tx = run[t].request]
            s == [tab[t] EXCEPT !.pending = with]
            a == IF recovery[t] = NoRecovery THEN Cleared(s)
                 ELSE IF run[t].op = "retry" THEN [s EXCEPT !.canRetry = FALSE] ELSE s
            h == [run[t] EXCEPT !.at = "finish", !.intent = with]
            r == IF recovery[t] = NoRecovery
                 THEN [at |-> "nonces", intent |-> with, known |-> final] ELSE recovery[t]
<1>2. /\ run[t].at = "wallet" /\ record' = with /\ tab' = [tab EXCEPT ![t] = a]
      /\ run' = [run EXCEPT ![t] = h] /\ UNCHANGED <<asked, mined, final, lock>>
      /\ Recovering(t, with)
  BY DEF HashInTime, InTime, At
<1>3. recovery' = [recovery EXCEPT ![t] = r]  BY <1>1, <1>2 DEF Recovering
<1>4. with \in Intents /\ Real(with)
  <2>1. run[t].intent \in Intents /\ Real(run[t].intent) /\ run[t].request \in Nat
    BY <1>1, <1>2 DEF Handlers, RunFacts
  <2>. QED  BY <2>1 DEF Intents, Real
<1>. HIDE DEF with
<1>5. h \in Handlers /\ RunFacts(h)  BY <1>1, <1>4 DEF Handlers, RunFacts
<1>6. r \in Recoveries /\ RecoveryFacts(r)  BY <1>1, <1>4 DEF Recoveries, RecoveryFacts
<1>. HIDE DEF h, r
<1>7. s \in TabStates /\ s.pending = with /\ s.result = tab[t].result  BY <1>1, <1>4, PendingIsTyped
<1>. HIDE DEF s
<1>8. a \in TabStates /\ a.pending = with /\ a.result = tab[t].result
  BY <1>7, ClearedIsTyped DEF TabStates
<1>. HIDE DEF a
<1>9. TabFacts(a)  BY <1>1, <1>4, <1>8 DEF TabFacts
<1>. QED  BY <1>1, <1>2, <1>3, <1>4, <1>5, <1>6, <1>8, <1>9, TabStep

LEMMA RejectedInTimeKeepsPage == ASSUME PageInv, NEW t \in Tabs, RejectedInTime(t)  PROVE PageInv'
<1>1. CASE KeepsRecord(t)  BY <1>1, LeavingKeepsPage DEF RejectedInTime
<1>2. CASE Saved(t, NoRecord)
  <2>. DEFINE a == [tab[t] EXCEPT !.pending = NoRecord]
  <2>1. /\ tab[t] \in TabStates /\ TabFacts(tab[t]) /\ lock \in Tabs \cup {Nobody}
        /\ recovery[t] \in Recoveries /\ RecoveryFacts(recovery[t])
        /\ recovery = [recovery EXCEPT ![t] = recovery[t]] /\ asked \in Seq(Requests)
    BY PageIsTyped
  <2>2. a \in TabStates /\ a.result = tab[t].result /\ a.pending = NoRecord
    BY <2>1, NoneAreTyped, PendingIsTyped
  <2>3. TabFacts(a)  BY <2>1, <2>2 DEF TabFacts
  <2>4. tab' = [tab EXCEPT ![t] = a] /\ record' = NoRecord /\ NoRecord \in Intents
    BY <1>2, NoneAreTyped DEF Saved
  <2>5. run' = [run EXCEPT ![t] = NoRun] /\ NoRun \in Handlers /\ RunFacts(NoRun)
        /\ lock' \in Tabs \cup {Nobody} /\ UNCHANGED <<asked, mined, final, recovery>>
    BY <2>1, NoneAreTyped DEF RejectedInTime, Leaves, RunFacts
  <2>. HIDE DEF a
  <2>. QED  BY <2>1, <2>2, <2>3, <2>4, <2>5, TabStep
<1>. QED  BY <1>1, <1>2 DEF RejectedInTime
(* The page shows a result and drops the record. *)
LEMMA ShownIsTyped ==
    ASSUME NEW s \in TabStates, NEW n \in Nat
    PROVE  LET a == [Cleared(s) EXCEPT !.result = n, !.pending = NoRecord]
           IN  a \in TabStates /\ a.result = n /\ a.pending = NoRecord /\ ~a.canClear /\ ~a.canRetry
<1>. DEFINE c == Cleared(s)
<1>1. c \in TabStates /\ ~c.canClear /\ ~c.canRetry  BY ClearedIsTyped
<1>. HIDE DEF c
<1>2. NoRecord \in Intents  BY NoneAreTyped
<1>3. LET a == [c EXCEPT !.result = n, !.pending = NoRecord]
      IN  a \in TabStates /\ a.result = n /\ a.pending = NoRecord /\ ~a.canClear /\ ~a.canRetry
  BY <1>1, <1>2 DEF TabStates
<1>. QED  BY <1>3 DEF c

(* What ends a recovery leaves the handler, and may leave a result that is final. *)
LEMMA DoneKeepsPage ==
    ASSUME PageInv, NEW t \in Tabs, Done(t),
           NEW a \in TabStates, tab' = [tab EXCEPT ![t] = a], TabFacts(a),
           record' \in Intents, record' # NoRecord => Real(record'),
           UNCHANGED <<asked, mined, final, lock, run>>
    PROVE  PageInv'
<1>1. RecoveryFacts(NoRecovery) /\ NoRecovery \in Recoveries
  <2>1. 0 <= final  BY PageIsTyped
  <2>2. NoRecovery.at = "idle" /\ NoRecovery.known = 0 /\ NoRecovery \in Recoveries  BY NoneAreTyped
  <2>. QED  BY <2>1, <2>2 DEF RecoveryFacts
<1>2. recovery' = [recovery EXCEPT ![t] = NoRecovery]  BY DEF Done
<1>3. /\ run' = [run EXCEPT ![t] = run[t]] /\ run[t] \in Handlers /\ RunFacts(run[t])
      /\ asked' \in Seq(Requests) /\ lock' \in Tabs \cup {Nobody}
  BY PageIsTyped
<1>. QED  BY <1>1, <1>2, <1>3, TabStep

LEMMA RecoveryStartsKeepPage ==
    ASSUME PageInv, NEW t \in Tabs, RecoverStart(t) \/ RecoverEndsLocked(t)  PROVE PageInv'
<1>1. /\ tab[t] \in TabStates /\ TabFacts(tab[t]) /\ tab = [tab EXCEPT ![t] = tab[t]]
      /\ run[t] \in Handlers /\ RunFacts(run[t]) /\ run = [run EXCEPT ![t] = run[t]]
      /\ record \in Intents /\ (record # NoRecord => Real(record)) /\ final \in Nat
      /\ asked \in Seq(Requests) /\ lock \in Tabs \cup {Nobody}
  BY PageIsTyped
<1>2. CASE RecoverStart(t)
  <2>. DEFINE a == Cleared(tab[t])
              r == [at |-> "nonces", intent |-> tab[t].pending, known |-> final]
  <2>1. /\ recovery[t] = NoRecovery /\ tab[t].pending # NoRecord
        /\ tab' = [tab EXCEPT ![t] = a] /\ recovery' = [recovery EXCEPT ![t] = r]
        /\ UNCHANGED <<asked, mined, final, record, lock, run>>
    BY <1>2 DEF RecoverStart, Recovering
  <2>2. a \in TabStates /\ a.pending = tab[t].pending /\ a.result = tab[t].result
    BY <1>1, ClearedIsTyped
  <2>3. TabFacts(a)  BY <1>1, <2>2 DEF TabFacts
  <2>4. tab[t].pending \in Intents /\ Real(tab[t].pending)  BY <1>1, <2>1 DEF TabStates, TabFacts
  <2>5. r \in Recoveries /\ RecoveryFacts(r)  BY <1>1, <2>4 DEF Recoveries, RecoveryFacts
  <2>. HIDE DEF a, r
  <2>. QED  BY <1>1, <2>1, <2>2, <2>3, <2>5, TabStep
<1>3. CASE RecoverEndsLocked(t)  BY <1>1, <1>3, DoneKeepsPage DEF RecoverEndsLocked
<1>. QED  BY <1>2, <1>3

LEMMA RecoverKeepsPage == ASSUME PageInv, NEW t \in Tabs, Recover(t)  PROVE PageInv'
<1>1. /\ tab[t] \in TabStates /\ TabFacts(tab[t]) /\ tab = [tab EXCEPT ![t] = tab[t]]
      /\ run[t] \in Handlers /\ RunFacts(run[t]) /\ run = [run EXCEPT ![t] = run[t]]
      /\ recovery[t] \in Recoveries /\ RecoveryFacts(recovery[t])
      /\ record \in Intents /\ (record # NoRecord => Real(record)) /\ final \in Nat
      /\ asked \in Seq(Requests) /\ lock \in Tabs \cup {Nobody}
  BY PageIsTyped
<1>. DEFINE r == recovery[t].intent
<1>2. recovery[t].at # "idle" =>
        r \in Intents /\ Real(r) /\ recovery[t].known \in Nat /\ recovery[t].known <= final
  BY <1>1 DEF Recoveries, RecoveryFacts
<1>3. NoRecord \in Intents  BY NoneAreTyped
<1>4. CASE RecoverNonces(t)
  <2>1. ASSUME tab' = [tab EXCEPT ![t].canRetry = TRUE], Done(t)  PROVE PageInv'
    <3>. DEFINE a == [tab[t] EXCEPT !.canRetry = TRUE]
    <3>1. a \in TabStates /\ a.pending = tab[t].pending /\ a.result = tab[t].result  BY <1>1 DEF TabStates
    <3>2. TabFacts(a) /\ tab' = [tab EXCEPT ![t] = a]  BY <1>1, <2>1, <3>1 DEF TabFacts
    <3>. HIDE DEF a
    <3>. QED  BY <1>1, <1>4, <2>1, <3>1, <3>2, DoneKeepsPage DEF RecoverNonces
  <2>2. ASSUME UNCHANGED tab, Search(t)  PROVE PageInv'
    <3>. DEFINE next == [recovery[t] EXCEPT !.at = "search"]
    <3>1. recovery[t].at = "nonces" /\ recovery' = [recovery EXCEPT ![t] = next]
      BY <1>4, <2>2 DEF RecoverNonces, RecoverAt, Search
    <3>2. next \in Recoveries /\ RecoveryFacts(next)  BY <1>1, <3>1 DEF Recoveries, RecoveryFacts
    <3>. HIDE DEF next
    <3>. QED  BY <1>1, <1>4, <2>2, <3>1, <3>2, TabStep DEF RecoverNonces
  <2>. QED  BY <1>4, <2>1, <2>2 DEF RecoverNonces
<1>5. CASE RecoverFinds(t)
  <2>1. PICK i \in DOMAIN asked :
          LET with == [r EXCEPT !.stage = "pending", !.tx = i]
          IN  /\ recovery[t].at = "search" /\ Saved(t, with)
              /\ recovery' = [recovery EXCEPT ![t].at = "nonces", ![t].intent = with]
              /\ UNCHANGED <<asked, mined, final, lock, run>>
    BY <1>5 DEF RecoverFinds, RecoverAt
  <2>. DEFINE with == [r EXCEPT !.stage = "pending", !.tx = i]
              a == [tab[t] EXCEPT !.pending = with]
              next == [recovery[t] EXCEPT !.at = "nonces", !.intent = with]
  <2>2. /\ tab' = [tab EXCEPT ![t] = a] /\ record' = with /\ recovery' = [recovery EXCEPT ![t] = next]
        /\ UNCHANGED <<asked, mined, final, lock, run>>
    BY <2>1 DEF Saved
  <2>3. i \in Nat  BY AskedIsASequence DEF PageInv
  <2>4. with \in Intents /\ Real(with)  BY <1>2, <2>1, <2>3 DEF Intents, Real
  <2>. HIDE DEF with
  <2>5. a \in TabStates /\ a.result = tab[t].result /\ a.pending = with  BY <1>1, <2>4, PendingIsTyped
  <2>6. TabFacts(a)  BY <1>1, <2>4, <2>5 DEF TabFacts
  <2>7. next \in Recoveries /\ RecoveryFacts(next)  BY <1>1, <2>4 DEF Recoveries, RecoveryFacts
  <2>. HIDE DEF a, next
  <2>. QED  BY <1>1, <2>2, <2>4, <2>5, <2>6, <2>7, TabStep
<1>6. ASSUME NEW n \in Nat, n <= final, mined[n].ok, mined[n].tx # Foreign,
             tab' = [tab EXCEPT ![t] = [Cleared(@) EXCEPT !.result = n, !.pending = NoRecord]],
             record' = NoRecord, Done(t), UNCHANGED <<asked, mined, final, lock, run>>
      PROVE  PageInv'
  <2>. DEFINE a == [Cleared(tab[t]) EXCEPT !.result = n, !.pending = NoRecord]
  <2>1. a \in TabStates /\ a.result = n /\ a.pending = NoRecord  BY <1>1, ShownIsTyped
  <2>2. TabFacts(a)  BY <1>6, <2>1 DEF TabFacts
  <2>3. tab' = [tab EXCEPT ![t] = a]  BY <1>6
  <2>. HIDE DEF a
  <2>. QED  BY <1>3, <1>6, <2>1, <2>2, <2>3, DoneKeepsPage
<1>7. CASE RecoverReplaced(t)
  <2>1. /\ recovery[t].at = "search" /\ r.nonce <= recovery[t].known /\ Done(t)
        /\ UNCHANGED <<asked, mined, final, lock, run>>
    BY <1>7 DEF RecoverReplaced, RecoverAt, SaidFinal
  <2>2. r.nonce \in Nat /\ r.nonce <= final
    <3>1. r \in Intents /\ recovery[t].known \in Nat /\ recovery[t].known <= final  BY <1>2, <2>1
    <3>2. r.nonce \in Nat  BY <3>1 DEF Intents
    <3>. QED  BY <1>1, <2>1, <3>1, <3>2
  <2>3. CASE mined[r.nonce].ok /\ mined[r.nonce].tx # Foreign
    <3>1. record' = NoRecord /\ tab' = [tab EXCEPT ![t] = [Cleared(@) EXCEPT !.result = r.nonce,
                                                                    !.pending = NoRecord]]
      BY <1>7, <2>3 DEF RecoverReplaced
    <3>. QED  BY <1>6, <2>1, <2>2, <2>3, <3>1
  <2>4. CASE ~(mined[r.nonce].ok /\ mined[r.nonce].tx # Foreign)
    <3>. DEFINE a == [tab[t] EXCEPT !.canClear = TRUE]
    <3>1. tab' = [tab EXCEPT ![t] = a] /\ record' = record  BY <1>7, <2>4 DEF RecoverReplaced
    <3>2. a \in TabStates /\ a.pending = tab[t].pending /\ a.result = tab[t].result  BY <1>1 DEF TabStates
    <3>3. TabFacts(a)  BY <1>1, <3>2 DEF TabFacts
    <3>. HIDE DEF a
    <3>. QED  BY <1>1, <2>1, <3>1, <3>2, <3>3, DoneKeepsPage
  <2>. QED  BY <2>3, <2>4
<1>8. CASE RecoverReceipt(t)
  <2>1. PICK n \in DOMAIN mined :
          /\ mined[n].tx = r.tx /\ recovery[t].at = "nonces" /\ n <= recovery[t].known
          /\ IF mined[n].ok
             THEN /\ record' = NoRecord
                  /\ tab' = [tab EXCEPT ![t] = [Cleared(@) EXCEPT !.result = n, !.pending = NoRecord]]
             ELSE /\ record' = [r EXCEPT !.stage = "reverted"]
                  /\ tab' = [tab EXCEPT ![t].pending = [r EXCEPT !.stage = "reverted"],
                                        ![t].canClear = TRUE]
          /\ Done(t) /\ UNCHANGED <<asked, mined, final, lock, run>>
    BY <1>8 DEF RecoverReceipt, PlaceOf, RecoverAt, SaidFinal, Verified
  <2>2. n \in Nat /\ n <= final /\ mined[n].tx # Foreign
    <3>1. n \in Nat  BY MinedIsASequence DEF PageInv
    <3>2. r \in Intents /\ recovery[t].known \in Nat /\ recovery[t].known <= final  BY <1>2, <2>1
    <3>3. r.tx \in Nat  BY <3>2 DEF Intents
    <3>4. n <= recovery[t].known /\ mined[n].tx = r.tx  BY <2>1
    <3>. QED  BY <1>1, <3>1, <3>2, <3>3, <3>4 DEF Foreign
  <2>3. CASE mined[n].ok  BY <1>6, <2>1, <2>2, <2>3
  <2>4. CASE ~mined[n].ok
    <3>. DEFINE back == [r EXCEPT !.stage = "reverted"]
                a == [tab[t] EXCEPT !.pending = back, !.canClear = TRUE]
    <3>1. tab' = [tab EXCEPT ![t] = a] /\ record' = back  BY <2>1, <2>4
    <3>2. back \in Intents /\ Real(back)  BY <1>2, <2>1 DEF Intents, Real
    <3>. HIDE DEF back
    <3>3. a \in TabStates /\ a.pending = back /\ a.result = tab[t].result  BY <1>1, <3>2 DEF TabStates
    <3>4. TabFacts(a)  BY <1>1, <3>2, <3>3 DEF TabFacts
    <3>. HIDE DEF a
    <3>. QED  BY <2>1, <3>1, <3>2, <3>3, <3>4, DoneKeepsPage
  <2>. QED  BY <2>3, <2>4
<1>. QED  BY <1>4, <1>5, <1>7, <1>8 DEF Recover

LEMMA PageInvInit == Init => PageInv
<1>. SUFFICES ASSUME Init  PROVE PageInv  OBVIOUS
<1>1. asked = <<>> /\ mined = <<>> /\ Len(mined) = 0 /\ final = 0  BY EmptySeq DEF Init
<1>2. asked \in Seq(Requests) /\ mined \in Seq(Entries) /\ final \in 0..Len(mined)  BY <1>1, EmptySeq
<1>3. Fresh \in TabStates /\ TabFacts(Fresh) /\ record = NoRecord
  BY NoneAreTyped DEF Init, Fresh, TabStates, TabFacts
<1>4. RunFacts(NoRun) /\ RecoveryFacts(NoRecovery)
  <2>1. RunFacts(NoRun)  BY NoneAreTyped DEF RunFacts
  <2>2. NoRecovery.at = "idle" /\ NoRecovery.known = 0  BY NoneAreTyped
  <2>. QED  BY <1>1, <2>1, <2>2 DEF RecoveryFacts
<1>5. /\ tab \in [Tabs -> TabStates] /\ run \in [Tabs -> Handlers] /\ recovery \in [Tabs -> Recoveries]
      /\ record \in Intents /\ lock \in Tabs \cup {Nobody}
      /\ \A t \in Tabs : tab[t] = Fresh /\ run[t] = NoRun /\ recovery[t] = NoRecovery
  BY <1>3, NoneAreTyped DEF Init
<1>. QED  BY <1>2, <1>3, <1>4, <1>5 DEF PageInv, TypeOK

LEMMA PageInvStep == PageInv /\ [Next]_vars => PageInv'
<1>. SUFFICES ASSUME PageInv, [Next]_vars  PROVE PageInv'  OBVIOUS
<1>1. ASSUME NEW t \in Tabs, InTab(t)  PROVE PageInv'
  BY <1>1, ReloadKeepsPage, LateHashKeepsPage, FormKeepsPage, HandlerKeepsPage, AskingKeepsPage,
     HashInTimeKeepsPage, RejectedInTimeKeepsPage, RecoveryStartsKeepPage, RecoverKeepsPage
     DEF InTab
<1>2. CASE UNCHANGED vars
  BY <1>2 DEF vars, PageInv, TypeOK, TabFacts, RunFacts, RecoveryFacts, Real
<1>. QED  BY <1>1, <1>2, OutsideKeepsPage DEF Next

(* For any tabs, that follow and recover each other's requests: what one of them shows as *)
(* created is final on the chain, and no transfer of the account's owner.                 *)
THEOREM ResultsAreFinal == Spec => []ResultIsFinal
<1>1. PageInv => ResultIsFinal  BY DEF PageInv, TabFacts, ResultIsFinal
<1>. QED  BY <1>1, PageInvInit, PageInvStep, PTL DEF Spec
-----------------------------------------------------------------------------
(* A tab whose rivals are never opened. *)

(* A request that can no longer be mined. *)
Settled(i) == asked[i].state = "rejected" \/ asked[i].nonce <= final
AllSettled == \A i \in DOMAIN asked : Settled(i)

(* The transaction of an intent is a request that was made for it, and sent. *)
HasHash(r) == r.tx # 0 => /\ r.tx \in DOMAIN asked /\ asked[r.tx].state = "sent"
                          /\ SameIntent(asked[r.tx], r)

(* What is not settled is of the record. *)
RecordInv(rec) ==
    /\ rec = NoRecord => AllSettled
    /\ rec # NoRecord => \A i \in DOMAIN asked : Settled(i) \/ SameIntent(asked[i], rec)
    /\ HasHash(rec)
(* The tab shows the record, and offers to drop it only when all is settled. *)
TabInv(rec, a, r) ==
    /\ a.pending = rec
    /\ a.canClear => r = NoRecovery /\ rec # NoRecord /\ rec.nonce <= final /\ AllSettled
(* A handler that is about to ask has the record's intent, or there is no record. *)
RunInv(rec, h) ==
    /\ h.at \in {"check", "nonce"} => rec = NoRecord
    /\ h.at = "nonce" => ~Asked(Question[h.intent.review])
    /\ h.at = "retry" => h.op = "retry" /\ h.intent.tx = 0
    /\ h.at \in {"wallet", "finish", "retry"} => rec = NoRecord \/ SameIntent(rec, h.intent)
    /\ h.at \in {"wallet", "finish"} =>
        /\ h.request \in DOMAIN asked /\ SameIntent(asked[h.request], h.intent)
        /\ h.op = "submit" => \A i \in DOMAIN asked \ {h.request} : Settled(i)
(* A recovery follows the record, or an intent that can no longer be mined. *)
Live(rec, r) == rec # NoRecord /\ SameIntent(rec, r.intent)
Dead(r) ==
    /\ \A i \in DOMAIN asked : SameIntent(asked[i], r.intent) => asked[i].state = "rejected"
    /\ r.known < r.intent.nonce
RecoveryInv(rec, r) ==
    r.at # "idle" => HasHash(r.intent) /\ (Live(rec, r) \/ Dead(r))

(* What is mined was sent with its place as its nonce, and nobody's question is answered before *)
(* a request that can still be mined.                                                           *)
MinedWasSent == \A n \in DOMAIN mined : mined[n].tx > 0 =>
    /\ mined[n].tx \in DOMAIN asked /\ asked[mined[n].tx].state = "sent"
    /\ asked[mined[n].tx].nonce = n
NoneBefore == \A j \in DOMAIN asked, m \in DOMAIN mined :
    asked[j].state # "rejected" /\ m < asked[j].nonce /\ mined[m].tx > 0 /\ mined[m].ok
        => QuestionOf(mined[m].tx) # QuestionOf(j)

AloneInv(t) ==
    /\ PageInv
    /\ RecordInv(record) /\ TabInv(record, tab[t], recovery[t])
    /\ RunInv(record, run[t]) /\ RecoveryInv(record, recovery[t])
    /\ MinedWasSent /\ NoneBefore

(* The requests stay what they are, but for who waits for them. *)
RequestsStay ==
    /\ DOMAIN asked' = DOMAIN asked
    /\ \A i \in DOMAIN asked : /\ asked'[i].nonce = asked[i].nonce
                               /\ asked'[i].review = asked[i].review
                               /\ asked'[i].state = asked[i].state

LEMMA AloneStep ==
    ASSUME NEW t \in Tabs, AloneInv(t), PageInv', RequestsStay, UNCHANGED <<mined, final>>,
           NEW rec, record' = rec, RecordInv(rec),
           NEW a, tab' = [tab EXCEPT ![t] = a], NEW h, run' = [run EXCEPT ![t] = h],
           NEW r, recovery' = [recovery EXCEPT ![t] = r],
           TabInv(rec, a, r), RunInv(rec, h), RecoveryInv(rec, r)
    PROVE  AloneInv(t)'
<1>. USE DEF RequestsStay
<1>1. tab'[t] = a /\ run'[t] = h /\ recovery'[t] = r  BY DEF AloneInv, PageInv, TypeOK
<1>2. AllSettled' = AllSettled /\ (\A i \in DOMAIN asked : Settled(i)' = Settled(i))
  BY DEF AllSettled, Settled
<1>3. RecordInv(record)'
  BY <1>2 DEF RecordInv, HasHash, SameIntent, NoRecord
<1>4. TabInv(record, tab[t], recovery[t])'
  BY <1>1, <1>2 DEF TabInv, NoRecord, NoRecovery
<1>5. MinedWasSent' /\ NoneBefore'
  <2>1. MinedWasSent'  BY DEF AloneInv, MinedWasSent
  <2>2. NoneBefore'  BY DEF AloneInv, MinedWasSent, NoneBefore, QuestionOf
  <2>. QED  BY <2>1, <2>2
<1>6. \A q : Asked(q)' => Asked(q)  BY DEF AloneInv, MinedWasSent, Asked, QuestionOf
<1>7. RunInv(record, run[t])'
  BY <1>1, <1>2, <1>6 DEF RunInv, SameIntent, NoRecord
<1>8. RecoveryInv(record, recovery[t])'
  BY <1>1 DEF RecoveryInv, HasHash, Live, Dead, SameIntent, NoRecord
<1>. QED  BY <1>3, <1>4, <1>5, <1>7, <1>8 DEF AloneInv

(* A record that is written again for the same intent is the record to all who follow it. *)
LEMMA SameRecord ==
    ASSUME NEW rec, rec # NoRecord, NEW new, new # NoRecord, SameIntent(rec, new), HasHash(new),
           NEW h, NEW r, RecordInv(rec), RunInv(rec, h), RecoveryInv(rec, r)
    PROVE  RecordInv(new) /\ RunInv(new, h) /\ RecoveryInv(new, r)
<1>1. RecordInv(new)  BY DEF RecordInv, SameIntent
<1>2. RunInv(new, h)  BY DEF RunInv, SameIntent
<1>3. RecoveryInv(new, r)  BY DEF RecoveryInv, Live, SameIntent
<1>. QED  BY <1>1, <1>2, <1>3

LEMMA NoneFollow ==
    /\ \A rec : RunInv(rec, NoRun) /\ RecoveryInv(rec, NoRecovery)
    /\ HasHash(NoRecord) /\ (AllSettled => RecordInv(NoRecord))
    /\ \A rec, h : RunInv(rec, h) => RunInv(NoRecord, h)
<1>1. \A rec : RunInv(rec, NoRun) /\ RecoveryInv(rec, NoRecovery)
  BY NoneAreTyped DEF RunInv, RecoveryInv
<1>2. HasHash(NoRecord) /\ (AllSettled => RecordInv(NoRecord))
  BY NoneAreTyped DEF HasHash, RecordInv
<1>3. \A rec, h : RunInv(rec, h) => RunInv(NoRecord, h)  BY DEF RunInv
<1>. QED  BY <1>1, <1>2, <1>3
LEMMA NoncesAreNumbers ==
    ASSUME PageInv
    PROVE  /\ \A i \in DOMAIN asked : asked[i].nonce \in Nat /\ asked[i].nonce > 0
           /\ DOMAIN mined = 1..Len(mined) /\ Len(mined) \in Nat /\ final \in Nat /\ final <= Len(mined)
           /\ \A n \in DOMAIN mined : mined[n].tx \in Int
           /\ record \in Intents /\ record.nonce \in Nat
<1>1. \A i \in DOMAIN asked : asked[i].nonce \in Nat /\ asked[i].nonce > 0
  BY AskedIsASequence DEF PageInv, Requests
<1>2. DOMAIN mined = 1..Len(mined) /\ Len(mined) \in Nat  BY MinedIsASequence DEF PageInv
<1>3. \A n \in DOMAIN mined : mined[n].tx \in Int  BY MinedIsASequence DEF PageInv, Entries
<1>4. record \in Intents /\ record.nonce \in Nat  BY DEF PageInv, TypeOK, Intents
<1>. QED  BY <1>1, <1>2, <1>3, <1>4 DEF PageInv, TypeOK

(* What the wallet and the chain do on their own. *)
LEMMA WalletAnswersAlone ==
    ASSUME NEW t \in Tabs, AloneInv(t), NEW i \in DOMAIN asked, WalletAnswers(i), PageInv'
    PROVE  AloneInv(t)'
<1>1. /\ DOMAIN asked' = DOMAIN asked
      /\ \A j \in DOMAIN asked : /\ asked'[j].nonce = asked[j].nonce
                                 /\ asked'[j].review = asked[j].review
                                 /\ j # i => asked'[j] = asked[j]
      /\ asked[i].state = "open" /\ asked'[i].state \in {"sent", "rejected"}
      /\ UNCHANGED <<mined, final, record, lock, tab, run, recovery>>
  BY AnswerIsTyped DEF AloneInv, PageInv, WalletAnswers
<1>2. (AllSettled => AllSettled') /\ \A j \in DOMAIN asked : Settled(j) => Settled(j)'
  BY <1>1 DEF AllSettled, Settled
<1>3. \A r : HasHash(r) => HasHash(r)'  BY <1>1 DEF HasHash, SameIntent
<1>4. RecordInv(record)'
  BY <1>1, <1>2, <1>3 DEF AloneInv, RecordInv, SameIntent, NoRecord
<1>5. TabInv(record, tab[t], recovery[t])'
  BY <1>1, <1>2 DEF AloneInv, TabInv, NoRecord, NoRecovery
<1>6. MinedWasSent' /\ NoneBefore'
  <2>1. MinedWasSent'  BY <1>1 DEF AloneInv, MinedWasSent
  <2>2. NoneBefore'  BY <1>1 DEF AloneInv, MinedWasSent, NoneBefore, QuestionOf
  <2>. QED  BY <2>1, <2>2
<1>7. \A q : Asked(q)' => Asked(q)  BY <1>1 DEF AloneInv, MinedWasSent, Asked, QuestionOf
<1>8. RunInv(record, run[t])'
  BY <1>1, <1>2, <1>7 DEF AloneInv, RunInv, SameIntent, NoRecord
<1>9. RecoveryInv(record, recovery[t])'
  BY <1>1, <1>3 DEF AloneInv, RecoveryInv, Live, Dead, SameIntent, NoRecord
<1>. QED  BY <1>4, <1>5, <1>6, <1>8, <1>9 DEF AloneInv

(* When only the chain moves: no question that was free is answered, and finality is kept. *)
LEMMA ChainStep ==
    ASSUME NEW t \in Tabs, AloneInv(t), PageInv', MinedWasSent', NoneBefore', final <= final',
           run[t].at = "nonce" => \A q : Asked(q)' => Asked(q),
           UNCHANGED <<asked, record, lock, tab, run, recovery>>
    PROVE  AloneInv(t)'
<1>1. /\ \A i \in DOMAIN asked : asked[i].nonce \in Nat
      /\ final \in Nat /\ final' \in Nat /\ record.nonce \in Nat
  <2>1. final' \in Nat  BY NoncesAreNumbers, MinedIsASequence DEF PageInv, TypeOK
  <2>. QED  BY <2>1, NoncesAreNumbers DEF AloneInv
<1>2. (AllSettled => AllSettled') /\ \A j \in DOMAIN asked : Settled(j) => Settled(j)'
  BY <1>1 DEF AllSettled, Settled
<1>3. RecordInv(record)'
  BY <1>2 DEF AloneInv, RecordInv, HasHash, SameIntent, NoRecord
<1>4. TabInv(record, tab[t], recovery[t])'
  BY <1>1, <1>2 DEF AloneInv, TabInv, NoRecord, NoRecovery
<1>5. RunInv(record, run[t])'
  BY <1>2 DEF AloneInv, RunInv, SameIntent, NoRecord
<1>6. RecoveryInv(record, recovery[t])'
  BY DEF AloneInv, RecoveryInv, HasHash, Live, Dead, SameIntent, NoRecord
<1>. QED  BY <1>3, <1>4, <1>5, <1>6 DEF AloneInv

(* Of two requests that are not settled both are of the record: they have one nonce. *)
LEMMA OneNonceIsOpen ==
    ASSUME NEW t \in Tabs, AloneInv(t), NEW i \in DOMAIN asked, NEW j \in DOMAIN asked,
           ~Settled(i), ~Settled(j)
    PROVE  asked[i].nonce = asked[j].nonce /\ record # NoRecord
BY DEF AloneInv, RecordInv, AllSettled, SameIntent

LEMMA MineAlone ==
    ASSUME NEW t \in Tabs, AloneInv(t), NEW i \in DOMAIN asked, Mine(i), PageInv'
    PROVE  AloneInv(t)'
<1>1. PICK ok \in BOOLEAN : mined' = Append(mined, Entry(i, ok))  BY DEF Mine
<1>2. /\ asked[i].state = "sent" /\ asked[i].nonce = Len(mined) + 1
      /\ UNCHANGED <<asked, final, record, lock, tab, run, recovery>>
  BY DEF Mine
<1>3. /\ \A j \in DOMAIN asked : asked[j].nonce \in Nat
      /\ DOMAIN mined = 1..Len(mined) /\ Len(mined) \in Nat /\ final \in Nat /\ final <= Len(mined)
  BY NoncesAreNumbers DEF AloneInv
<1>4. i \in Nat /\ i > 0  BY AskedIsASequence DEF AloneInv, PageInv
<1>5. /\ DOMAIN mined' = 1..(Len(mined) + 1) /\ (\A n \in 1..Len(mined) : mined'[n] = mined[n])
      /\ mined'[Len(mined) + 1] = Entry(i, ok)
  <2>1. Entry(i, ok) \in Entries /\ mined \in Seq(Entries)
    BY <1>4 DEF Entry, Entries, AloneInv, PageInv, TypeOK
  <2>. QED  BY <1>1, <2>1, AppendProperties, LenProperties
<1>6. Entry(i, ok).tx = i /\ Entry(i, ok).ok = ok  BY DEF Entry
<1>7. ~Settled(i)  BY <1>2, <1>3 DEF Settled
<1>8. MinedWasSent'  BY <1>2, <1>3, <1>5, <1>6 DEF AloneInv, MinedWasSent
<1>9. NoneBefore'
  <2>. SUFFICES ASSUME NEW j \in DOMAIN asked, NEW m \in DOMAIN mined',
                       asked[j].state # "rejected", m < asked[j].nonce, mined'[m].tx > 0, mined'[m].ok
                PROVE  QuestionOf(mined'[m].tx) # QuestionOf(j)
    BY <1>2 DEF NoneBefore, QuestionOf
  <2>1. CASE m \in DOMAIN mined  BY <1>3, <1>5, <2>1 DEF AloneInv, NoneBefore
  <2>2. CASE m = Len(mined) + 1
    <3>1. ~Settled(j)  BY <1>3, <2>2 DEF Settled
    <3>2. asked[i].nonce = asked[j].nonce  BY <1>7, <3>1, OneNonceIsOpen
    <3>. QED  BY <1>2, <1>3, <2>2, <3>2
  <2>. QED  BY <1>3, <1>5, <2>1, <2>2
<1>10. run[t].at # "nonce"
  <2>1. record # NoRecord  BY <1>7, OneNonceIsOpen
  <2>. QED  BY <2>1 DEF AloneInv, RunInv
<1>. QED  BY <1>2, <1>3, <1>8, <1>9, <1>10, ChainStep

LEMMA OutsideAlone ==
    ASSUME NEW t \in Tabs, AloneInv(t), Outside, PageInv'
    PROVE  AloneInv(t)'
<1>1. /\ \A j \in DOMAIN asked : asked[j].nonce \in Nat
      /\ DOMAIN mined = 1..Len(mined) /\ Len(mined) \in Nat /\ final \in Nat /\ final <= Len(mined)
  BY NoncesAreNumbers DEF AloneInv
<1>2. CASE UsedElsewhere
  <2>1. \E e \in Entries : mined' = Append(mined, e) /\ ~(e.tx > 0)
    <3>1. PICK tx \in {Foreign, ForeignCreate} : mined' = Append(mined, Entry(tx, TRUE))
      BY <1>2 DEF UsedElsewhere
    <3>2. Entry(tx, TRUE) \in Entries /\ ~(Entry(tx, TRUE).tx > 0)
      BY DEF Entry, Entries, Foreign, ForeignCreate
    <3>. DEFINE e == Entry(tx, TRUE)
    <3>3. mined' = Append(mined, e) /\ e \in Entries /\ ~(e.tx > 0)  BY <3>1, <3>2
    <3>. HIDE DEF e
    <3>. QED  BY <3>3
  <2>2. PICK e \in Entries : mined' = Append(mined, e) /\ ~(e.tx > 0)  BY <2>1
  <2>3. /\ DOMAIN mined' = 1..(Len(mined) + 1) /\ (\A n \in 1..Len(mined) : mined'[n] = mined[n])
        /\ mined'[Len(mined) + 1] = e
    <3>1. mined \in Seq(Entries)  BY DEF AloneInv, PageInv, TypeOK
    <3>. QED  BY <2>2, <3>1, AppendProperties, LenProperties
  <2>4. UNCHANGED <<asked, final, record, lock, tab, run, recovery>>  BY <1>2 DEF UsedElsewhere
  <2>5. \A n \in DOMAIN mined' : mined'[n].tx > 0 => n \in DOMAIN mined /\ mined'[n] = mined[n]
    <3>1. ASSUME NEW n \in DOMAIN mined', mined'[n].tx > 0  PROVE n \in DOMAIN mined /\ mined'[n] = mined[n]
      <4>1. n \in 1..(Len(mined) + 1)  BY <2>3
      <4>2. n # Len(mined) + 1  BY <2>2, <2>3, <3>1
      <4>3. n \in 1..Len(mined)  BY <1>1, <4>1, <4>2
      <4>. QED  BY <1>1, <2>3, <4>3
    <3>. QED  BY <3>1
  <2>6. MinedWasSent' /\ NoneBefore'
    BY <2>4, <2>5 DEF AloneInv, MinedWasSent, NoneBefore, QuestionOf
  <2>7. \A q : Asked(q)' => Asked(q)  BY <2>4, <2>5 DEF Asked, QuestionOf
  <2>. QED  BY <1>1, <2>4, <2>6, <2>7, ChainStep
<1>3. CASE Finalise
  <2>1. UNCHANGED <<asked, mined, record, lock, tab, run, recovery>> /\ final' = final + 1
    BY <1>3 DEF Finalise
  <2>2. MinedWasSent' /\ NoneBefore'  BY <2>1 DEF AloneInv, MinedWasSent, NoneBefore, QuestionOf
  <2>3. \A q : Asked(q)' => Asked(q)  BY <2>1 DEF Asked, QuestionOf
  <2>. QED  BY <1>1, <2>1, <2>2, <2>3, ChainStep
<1>4. CASE Reorg
  <2>1. UNCHANGED <<asked, final, record, lock, tab, run, recovery>>  BY <1>4 DEF Reorg
  <2>2. \A n \in DOMAIN mined' : n \in DOMAIN mined /\ mined'[n] = mined[n]
    <3>1. \A n \in 1..(Len(mined) - 1) : mined[n] \in Entries
      <4>1. \A n \in DOMAIN mined : mined[n] \in Entries  BY MinedIsASequence DEF AloneInv, PageInv
      <4>. QED  BY <1>1, <4>1
    <3>2. /\ mined' \in Seq(Entries) /\ Len(mined') = Len(mined) - 1
          /\ \A n \in 1..(Len(mined) - 1) : mined'[n] = mined[n]
      <4>1. mined' = SubSeq(mined, 1, Len(mined) - 1) /\ 1 <= Len(mined)  BY <1>1, <1>4 DEF Reorg
      <4>. QED  BY <1>1, <3>1, <4>1, SubSeqProperties
    <3>3. DOMAIN mined' = 1..(Len(mined) - 1)  BY <3>2, LenProperties
    <3>. QED  BY <1>1, <3>2, <3>3
  <2>3. MinedWasSent' /\ NoneBefore'
    BY <2>1, <2>2 DEF AloneInv, MinedWasSent, NoneBefore, QuestionOf
  <2>4. \A q : Asked(q)' => Asked(q)  BY <2>1, <2>2 DEF Asked, QuestionOf
  <2>. QED  BY <1>1, <2>1, <2>3, <2>4, ChainStep
<1>. QED  BY <1>2, <1>3, <1>4, MineAlone, WalletAnswersAlone DEF Outside
(* The state of the tab, its handler and its recovery, when it is the only one. *)
LEMMA AloneIsTyped ==
    ASSUME NEW t \in Tabs, AloneInv(t)
    PROVE  /\ tab[t] \in TabStates /\ tab = [tab EXCEPT ![t] = tab[t]]
           /\ run[t] \in Handlers /\ run = [run EXCEPT ![t] = run[t]] /\ RunFacts(run[t])
           /\ recovery[t] \in Recoveries /\ recovery = [recovery EXCEPT ![t] = recovery[t]]
           /\ RecoveryFacts(recovery[t])
           /\ record \in Intents /\ (record # NoRecord => Real(record)) /\ final \in Nat
           /\ RecordInv(record) /\ TabInv(record, tab[t], recovery[t])
           /\ RunInv(record, run[t]) /\ RecoveryInv(record, recovery[t])
BY PageIsTyped DEF AloneInv

LEMMA UnchangedStay == asked' = asked => RequestsStay
BY DEF RequestsStay

(* The catch of a handler writes what is there. *)
LEMMA LeavingAlone ==
    ASSUME NEW t \in Tabs, AloneInv(t), PageInv', KeepsRecord(t), Leaves(t),
           UNCHANGED <<asked, mined, final, recovery>>
    PROVE  AloneInv(t)'
<1>1. PICK a \in TabStates : /\ tab' = [tab EXCEPT ![t] = a]
                             /\ a = tab[t] \/ a = [tab[t] EXCEPT !.pending = record]
  BY RecordIsKept DEF AloneInv
<1>2. record' = record  BY RecordIsKept DEF AloneInv
<1>3. tab[t] \in TabStates /\ TabInv(record, tab[t], recovery[t]) /\ RecordInv(record)
      /\ RecoveryInv(record, recovery[t])
  BY AloneIsTyped
<1>4. TabInv(record, a, recovery[t])  BY <1>1, <1>3 DEF TabInv, TabStates
<1>5. run' = [run EXCEPT ![t] = NoRun] /\ RunInv(record, NoRun)  BY NoneFollow DEF Leaves
<1>6. recovery' = [recovery EXCEPT ![t] = recovery[t]]  BY AloneIsTyped
<1>. QED  BY <1>1, <1>2, <1>3, <1>4, <1>5, <1>6, UnchangedStay, AloneStep

(* The record is dropped, and no recovery runs. *)
LEMMA DroppedAlone ==
    ASSUME NEW t \in Tabs, AloneInv(t), PageInv', AllSettled, NEW a, a.pending = NoRecord, ~a.canClear,
           tab' = [tab EXCEPT ![t] = a], record' = NoRecord,
           recovery' = [recovery EXCEPT ![t] = NoRecovery],
           UNCHANGED <<asked, mined, final, lock, run>>
    PROVE  AloneInv(t)'
<1>1. RunInv(NoRecord, run[t]) /\ run' = [run EXCEPT ![t] = run[t]]  BY AloneIsTyped, NoneFollow
<1>2. TabInv(NoRecord, a, NoRecovery)  BY DEF TabInv
<1>. QED  BY <1>1, <1>2, NoneFollow, UnchangedStay, AloneStep

(* The form, and the button that drops a record proved dead. *)
LEMMA FormAlone ==
    ASSUME NEW t \in Tabs, AloneInv(t), PageInv',
           StorageEvent(t) \/ PrepareReview(t) \/ DropReview(t) \/ CreateAnother(t) \/ ClearRecord(t)
    PROVE  AloneInv(t)'
<1>1. /\ tab[t] \in TabStates /\ TabInv(record, tab[t], recovery[t]) /\ RecordInv(record)
      /\ RunInv(record, run[t]) /\ RecoveryInv(record, recovery[t])
  BY AloneIsTyped
<1>2. ASSUME NEW a, tab' = [tab EXCEPT ![t] = a], TabInv(record, a, recovery[t]),
             UNCHANGED <<asked, mined, final, record, lock, run, recovery>>
      PROVE  AloneInv(t)'
  <2>1. run' = [run EXCEPT ![t] = run[t]] /\ recovery' = [recovery EXCEPT ![t] = recovery[t]]
    BY <1>2, AloneIsTyped
  <2>. QED  BY <1>1, <1>2, <2>1, UnchangedStay, AloneStep
<1>3. ~StorageEvent(t)  BY <1>1 DEF StorageEvent, TabInv
<1>4. ASSUME NEW v, tab' = [tab EXCEPT ![t].review = v],
             UNCHANGED <<asked, mined, final, record, lock, run, recovery>>
      PROVE  AloneInv(t)'
  <2>. DEFINE a == [tab[t] EXCEPT !.review = v]
  <2>1. a.canClear = tab[t].canClear /\ a.pending = tab[t].pending  BY <1>1 DEF TabStates
  <2>2. tab' = [tab EXCEPT ![t] = a] /\ TabInv(record, a, recovery[t])  BY <1>1, <1>4, <2>1 DEF TabInv
  <2>. HIDE DEF a
  <2>. QED  BY <1>2, <1>4, <2>2
<1>5. CASE PrepareReview(t)  BY <1>4, <1>5 DEF PrepareReview
<1>6. CASE DropReview(t)  BY <1>4, <1>6 DEF DropReview
<1>7. CASE CreateAnother(t)
  <2>. DEFINE a == [tab[t] EXCEPT !.review = None, !.result = 0]
  <2>1. a.canClear = tab[t].canClear /\ a.pending = tab[t].pending  BY <1>1 DEF TabStates
  <2>2. tab' = [tab EXCEPT ![t] = a] /\ TabInv(record, a, recovery[t])
    BY <1>1, <1>7, <2>1 DEF TabInv, CreateAnother
  <2>. HIDE DEF a
  <2>. QED  BY <1>2, <1>7, <2>2 DEF CreateAnother
<1>8. CASE ClearRecord(t)
  <2>1. recovery[t] = NoRecovery /\ AllSettled  BY <1>1, <1>8 DEF ClearRecord, TabInv
  <2>. DEFINE c == Cleared(tab[t])
              a == [c EXCEPT !.pending = NoRecord]
  <2>2. c \in TabStates /\ ~c.canClear  BY <1>1, ClearedIsTyped
  <2>3. tab' = [tab EXCEPT ![t] = a]  BY <1>8 DEF ClearRecord
  <2>. HIDE DEF c
  <2>4. a.pending = NoRecord /\ ~a.canClear  BY <2>2 DEF TabStates
  <2>. HIDE DEF a
  <2>5. recovery' = [recovery EXCEPT ![t] = NoRecovery]  BY <1>8, <2>1, AloneIsTyped DEF ClearRecord
  <2>. QED  BY <1>8, <2>1, <2>3, <2>4, <2>5, DroppedAlone DEF ClearRecord
<1>. QED  BY <1>3, <1>5, <1>6, <1>7, <1>8

(* A reload, and an answer that comes late. *)
LEMMA ReloadAlone == ASSUME NEW t \in Tabs, AloneInv(t), PageInv', Reload(t)  PROVE AloneInv(t)'
<1>1. RequestsStay  BY ForgottenIsTyped DEF AloneInv, PageInv, RequestsStay
<1>2. /\ tab' = [tab EXCEPT ![t] = Fresh] /\ run' = [run EXCEPT ![t] = NoRun]
      /\ recovery' = [recovery EXCEPT ![t] = NoRecovery] /\ UNCHANGED <<mined, final, record>>
  BY DEF Reload
<1>3. RecordInv(record)  BY AloneIsTyped
<1>4. TabInv(record, Fresh, NoRecovery)  BY DEF TabInv, Fresh
<1>. QED  BY <1>1, <1>2, <1>3, <1>4, NoneFollow, AloneStep

LEMMA LateHashAlone ==
    ASSUME NEW t \in Tabs, AloneInv(t), PageInv', NEW i \in DOMAIN asked, LateHash(t, i)
    PROVE  AloneInv(t)'
<1>1. RequestsStay  BY LateIsTyped DEF AloneInv, PageInv, RequestsStay
<1>2. /\ tab[t] \in TabStates /\ TabInv(record, tab[t], recovery[t]) /\ RecordInv(record)
      /\ RunInv(record, run[t]) /\ RecoveryInv(record, recovery[t]) /\ record \in Intents
  BY AloneIsTyped
<1>3. /\ run' = [run EXCEPT ![t] = run[t]] /\ recovery' = [recovery EXCEPT ![t] = recovery[t]]
      /\ UNCHANGED <<mined, final>> /\ asked[i].state = "sent"
  BY AloneIsTyped DEF LateHash
<1>4. CASE record # NoRecord /\ record.tx = 0 /\ SameIntent(record, asked[i])
  <2>. DEFINE r == [record EXCEPT !.stage = "pending", !.tx = i]
              a == [tab[t] EXCEPT !.pending = r]
  <2>1. record' = r /\ tab' = [tab EXCEPT ![t] = a]  BY <1>4 DEF LateHash, Saved
  <2>2. r.nonce = record.nonce /\ r.review = record.review /\ r.tx = i  BY <1>2 DEF Intents
  <2>. HIDE DEF r
  <2>3. a.canClear = tab[t].canClear /\ a.pending = r  BY <1>2 DEF TabStates
  <2>. HIDE DEF a
  <2>4. r # NoRecord
    <3>1. i # 0  BY AskedIsASequence DEF AloneInv, PageInv
    <3>. QED  BY <2>2, <3>1, NoneAreTyped
  <2>5. HasHash(r) /\ SameIntent(record, r)  BY <1>3, <1>4, <2>2 DEF HasHash, SameIntent
  <2>6. RecordInv(r) /\ RunInv(r, run[t]) /\ RecoveryInv(r, recovery[t])
    BY <1>2, <1>4, <2>4, <2>5, SameRecord
  <2>7. TabInv(r, a, recovery[t])  BY <1>2, <2>2, <2>3, <2>4 DEF TabInv
  <2>. QED  BY <1>1, <1>3, <2>1, <2>6, <2>7, AloneStep
<1>5. CASE ~(record # NoRecord /\ record.tx = 0 /\ SameIntent(record, asked[i]))
  <2>1. record' = record /\ tab' = [tab EXCEPT ![t] = tab[t]]  BY <1>5, AloneIsTyped DEF LateHash
  <2>. QED  BY <1>1, <1>2, <1>3, <2>1, AloneStep
<1>. QED  BY <1>4, <1>5
LEMMA HandlerAlone ==
    ASSUME NEW t \in Tabs, AloneInv(t), PageInv',
           Submit(t) \/ CheckDuplicate(t) \/ HandlerEnds(t) \/ Retry(t) \/ Refused(t) \/ WalletTimeout(t)
    PROVE  AloneInv(t)'
<1>1. /\ run[t] \in Handlers /\ TabInv(record, tab[t], recovery[t]) /\ RecordInv(record)
      /\ RunInv(record, run[t]) /\ RecoveryInv(record, recovery[t])
  BY AloneIsTyped
<1>2. ASSUME NEW h, run' = [run EXCEPT ![t] = h], RunInv(record, h),
             UNCHANGED <<asked, mined, final, record, tab, recovery>>
      PROVE  AloneInv(t)'
  <2>1. tab' = [tab EXCEPT ![t] = tab[t]] /\ recovery' = [recovery EXCEPT ![t] = recovery[t]]
    BY <1>2, AloneIsTyped
  <2>. QED  BY <1>1, <1>2, <2>1, UnchangedStay, AloneStep
<1>3. CASE Submit(t)
  <2>1. record = NoRecord  BY <1>1, <1>3 DEF Submit, FormShown, TabInv
  <2>. DEFINE h == [op |-> "submit", at |-> "check",
                    intent |-> [NoRecord EXCEPT !.review = tab[t].review], request |-> 0]
  <2>2. run' = [run EXCEPT ![t] = h] /\ UNCHANGED <<asked, mined, final, record, tab, recovery>>
    BY <1>3, <2>1 DEF Submit
  <2>3. h.at = "check"  OBVIOUS
  <2>. HIDE DEF h
  <2>4. RunInv(record, h)  BY <2>1, <2>3 DEF RunInv
  <2>. QED  BY <1>2, <2>2, <2>4
<1>4. CASE CheckDuplicate(t)
  <2>. DEFINE h == [run[t] EXCEPT !.at = "nonce"]
  <2>1. /\ run[t].at = "check" /\ run' = [run EXCEPT ![t] = h]
        /\ ~Asked(Question[run[t].intent.review])
        /\ UNCHANGED <<asked, mined, final, record, lock, tab, recovery>>
    BY <1>4 DEF CheckDuplicate, At, Goes
  <2>2. h.at = "nonce" /\ h.intent = run[t].intent  BY <1>1 DEF Handlers
  <2>. HIDE DEF h
  <2>3. RunInv(record, h)  BY <1>1, <2>1, <2>2 DEF RunInv
  <2>. QED  BY <1>2, <2>1, <2>3
<1>5. CASE HandlerEnds(t)
  <2>1. run' = [run EXCEPT ![t] = NoRun]  BY <1>5 DEF HandlerEnds, Leaves
  <2>. QED  BY <1>2, <1>5, <2>1, NoneFollow DEF HandlerEnds
<1>6. CASE Retry(t)
  <2>. DEFINE h == [op |-> "retry", at |-> "retry", intent |-> tab[t].pending, request |-> 0]
  <2>1. /\ run' = [run EXCEPT ![t] = h] /\ tab[t].pending.tx = 0
        /\ UNCHANGED <<asked, mined, final, record, lock, tab, recovery>>
    BY <1>6 DEF Retry
  <2>2. h.at = "retry" /\ h.op = "retry" /\ h.intent.tx = 0 /\ h.intent = record
    BY <1>1, <2>1 DEF TabInv
  <2>. HIDE DEF h
  <2>3. RunInv(record, h)  BY <2>2 DEF RunInv, SameIntent
  <2>. QED  BY <1>2, <2>1, <2>3
<1>7. CASE Refused(t)  BY <1>7, LeavingAlone DEF Refused
<1>8. CASE WalletTimeout(t)  BY <1>8, LeavingAlone DEF WalletTimeout
<1>. QED  BY <1>3, <1>4, <1>5, <1>6, <1>7, <1>8

(* A request is made for the record's intent when there is one, and otherwise when nothing *)
(* else can be mined; and its question is not answered.                                    *)
LEMMA RequestAlone ==
    ASSUME NEW t \in Tabs, AloneInv(t), PageInv', NEW r \in Intents, Real(r), r.tx = 0,
           record = NoRecord \/ SameIntent(record, r), ~Asked(Question[r.review]),
           asked' = Append(asked, Request(t, r)), Saved(t, r),
           NEW h, run' = [run EXCEPT ![t] = h], h.at = "wallet", h.intent = r,
           h.request = Len(asked) + 1, h.op = "submit" => record = NoRecord,
           UNCHANGED <<mined, final, lock, recovery>>
    PROVE  AloneInv(t)'
<1>. DEFINE new == Len(asked) + 1
            a == [tab[t] EXCEPT !.pending = r]
<1>1. /\ DOMAIN asked' = DOMAIN asked \cup {new} /\ new \notin DOMAIN asked
      /\ \A i \in DOMAIN asked : asked'[i] = asked[i]
      /\ asked'[new].nonce = r.nonce /\ asked'[new].review = r.review /\ asked'[new].state = "open"
  BY RequestIsTyped DEF AloneInv, PageInv
<1>2. /\ tab[t] \in TabStates /\ TabInv(record, tab[t], recovery[t]) /\ RecordInv(record)
      /\ RecoveryInv(record, recovery[t])
  BY AloneIsTyped
<1>3. record' = r /\ tab' = [tab EXCEPT ![t] = a]  BY DEF Saved
<1>4. a.canClear = tab[t].canClear /\ a.pending = r  BY <1>2 DEF TabStates
<1>. HIDE DEF a, new
<1>5. tab'[t] = a /\ run'[t] = h /\ recovery'[t] = recovery[t]
  BY <1>3 DEF AloneInv, PageInv, TypeOK
<1>6. r # NoRecord
  <2>1. r.nonce # 0  BY DEF Real, Intents
  <2>. QED  BY <2>1, NoneAreTyped
<1>7. /\ \A i \in DOMAIN asked : Settled(i) => Settled(i)'
      /\ \A i \in DOMAIN asked : SameIntent(asked[i], record) /\ record # NoRecord => SameIntent(asked'[i], r)
      /\ SameIntent(asked'[new], r)
  BY <1>1 DEF Settled, SameIntent
<1>8. RecordInv(record)'
  BY <1>1, <1>2, <1>3, <1>6, <1>7 DEF RecordInv, AllSettled, HasHash, NoRecord
<1>9. TabInv(record, tab[t], recovery[t])'
  <2>1. a.canClear => recovery[t] = NoRecovery /\ r.nonce <= final /\ AllSettled
    BY <1>2, <1>4 DEF TabInv, SameIntent
  <2>2. a.canClear => AllSettled'  BY <1>1, <1>7, <2>1 DEF AllSettled, Settled
  <2>. QED  BY <1>3, <1>4, <1>5, <1>6, <2>1, <2>2 DEF TabInv, NoRecord, NoRecovery
<1>10. MinedWasSent'  BY <1>1 DEF AloneInv, MinedWasSent
<1>11. (\A m \in DOMAIN mined : mined[m].tx > 0 => QuestionOf(mined[m].tx)' = QuestionOf(mined[m].tx))
       /\ (\A i \in DOMAIN asked : QuestionOf(i)' = QuestionOf(i))
  BY <1>1 DEF AloneInv, MinedWasSent, QuestionOf
<1>12. NoneBefore'
  <2>1. \A m \in DOMAIN mined : mined[m].tx > 0 /\ mined[m].ok => QuestionOf(mined[m].tx) # Question[r.review]
    BY DEF Asked
  <2>2. \A j \in DOMAIN asked' : QuestionOf(j)' = IF j \in DOMAIN asked THEN QuestionOf(j) ELSE Question[r.review]
    BY <1>1 DEF QuestionOf
  <2>3. NoneBefore  BY DEF AloneInv
  <2>4. ASSUME NEW j \in DOMAIN asked', NEW m \in DOMAIN mined, asked'[j].state # "rejected",
               m < asked'[j].nonce, mined[m].tx > 0, mined[m].ok
        PROVE  QuestionOf(mined[m].tx)' # QuestionOf(j)'
    <3>1. QuestionOf(mined[m].tx)' = QuestionOf(mined[m].tx)  BY <1>11, <2>4
    <3>2. CASE j \in DOMAIN asked  BY <1>1, <2>2, <2>3, <2>4, <3>1, <3>2 DEF NoneBefore
    <3>3. CASE j \notin DOMAIN asked  BY <2>1, <2>2, <2>4, <3>1, <3>3
    <3>. QED  BY <3>2, <3>3
  <2>. QED  BY <2>4 DEF NoneBefore
<1>13. RunInv(record, run[t])'
  <2>1. \A i \in DOMAIN asked' \ {new} : h.op = "submit" => Settled(i)'
    BY <1>1, <1>2, <1>7 DEF RecordInv, AllSettled
  <2>. QED  BY <1>1, <1>3, <1>5, <1>7, <2>1 DEF RunInv, SameIntent, new
<1>14. RecoveryInv(record, recovery[t])'
  <2>. DEFINE q == recovery[t]
  <2>1. HasHash(q.intent) => HasHash(q.intent)'  BY <1>1, <1>5 DEF HasHash
  <2>2. Live(record, q) => Live(record, q)'  BY <1>3, <1>5, <1>6 DEF Live, SameIntent, NoRecord
  <2>3. Dead(q) => Live(record, q)' \/ Dead(q)'
    BY <1>1, <1>3, <1>5, <1>6 DEF Live, Dead, SameIntent, NoRecord
  <2>. QED  BY <1>2, <1>5, <2>1, <2>2, <2>3 DEF RecoveryInv
<1>. QED  BY <1>8, <1>9, <1>10, <1>12, <1>13, <1>14 DEF AloneInv

LEMMA AskingAlone ==
    ASSUME NEW t \in Tabs, AloneInv(t), PageInv', AskWallet(t) \/ AskAgain(t)
    PROVE  AloneInv(t)'
<1>1. /\ run[t] \in Handlers /\ RunFacts(run[t]) /\ RunInv(record, run[t])
  BY AloneIsTyped
<1>2. Len(asked) \in Nat /\ Len(mined) \in Nat
  BY AskedIsASequence, MinedIsASequence DEF AloneInv, PageInv
<1>3. CASE AskWallet(t)
  <2>. DEFINE r == [review |-> run[t].intent.review, nonce |-> WalletNonce,
                    stage |-> "awaiting_signature", tx |-> 0]
              h == [op |-> "submit", at |-> "wallet", intent |-> r, request |-> Len(asked) + 1]
  <2>1. /\ run[t].at = "nonce" /\ Len(asked) < MaxRequests /\ Saved(t, r)
        /\ asked' = Append(asked, Request(t, r)) /\ run' = [run EXCEPT ![t] = h]
        /\ UNCHANGED <<mined, final, lock, recovery>>
    BY <1>3 DEF AskWallet, At
  <2>2. WalletNonce \in Nat /\ WalletNonce > 0
    <3>1. WalletNonce \in Nat /\ WalletNonce > Len(mined)
      BY <2>1, WalletNonceExists DEF AloneInv, PageInv
    <3>. QED  BY <1>2, <3>1
  <2>3. run[t].intent.review \in Reviews  BY <1>1, <2>1 DEF RunFacts
  <2>4. r \in Intents /\ Real(r) /\ r.tx = 0 /\ r.review = run[t].intent.review
    BY <2>2, <2>3 DEF Intents, Real
  <2>5. record = NoRecord /\ ~Asked(Question[r.review])  BY <1>1, <2>1 DEF RunInv
  <2>. HIDE DEF r
  <2>6. h.at = "wallet" /\ h.intent = r /\ h.request = Len(asked) + 1  OBVIOUS
  <2>. HIDE DEF h
  <2>. QED  BY <2>1, <2>4, <2>5, <2>6, RequestAlone
<1>4. CASE AskAgain(t)
  <2>. DEFINE r == run[t].intent
              h == [run[t] EXCEPT !.at = "wallet", !.request = Len(asked) + 1]
  <2>1. /\ run[t].at = "retry" /\ Saved(t, r) /\ ~Asked(Question[r.review])
        /\ asked' = Append(asked, Request(t, r)) /\ run' = [run EXCEPT ![t] = h]
        /\ UNCHANGED <<mined, final, lock, recovery>>
    BY <1>4 DEF AskAgain, At
  <2>2. r \in Intents /\ Real(r)  BY <1>1, <2>1 DEF Handlers, RunFacts
  <2>3. run[t].op = "retry" /\ r.tx = 0 /\ (record = NoRecord \/ SameIntent(record, r))
    BY <1>1, <2>1 DEF RunInv
  <2>4. h.at = "wallet" /\ h.intent = r /\ h.request = Len(asked) + 1 /\ h.op = run[t].op
    <3>1. \A n : LET g == [run[t] EXCEPT !.at = "wallet", !.request = n]
                 IN  g.at = "wallet" /\ g.intent = r /\ g.request = n /\ g.op = run[t].op
      BY <1>1 DEF Handlers
    <3>. QED  BY <3>1
  <2>. HIDE DEF h, r
  <2>. QED  BY <2>1, <2>2, <2>3, <2>4, RequestAlone
<1>. QED  BY <1>3, <1>4

(* An answer in time is about a nonce that is not final: the record is still there. *)
LEMMA HashInTimeAlone ==
    ASSUME NEW t \in Tabs, AloneInv(t), PageInv', HashInTime(t)  PROVE AloneInv(t)'
<1>1. /\ tab[t] \in TabStates /\ TabInv(record, tab[t], recovery[t]) /\ RecordInv(record)
      /\ run[t] \in Handlers /\ RunInv(record, run[t]) /\ RunFacts(run[t]) /\ final \in Nat
      /\ recovery[t] \in Recoveries /\ RecoveryInv(record, recovery[t])
      /\ recovery = [recovery EXCEPT ![t] = recovery[t]]
  BY AloneIsTyped
<1>. DEFINE i == run[t].request
            with == [run[t].intent EXCEPT !.stage = "pending", !.tx = i]
            s == [tab[t] EXCEPT !.pending = with]
            a == IF recovery[t] = NoRecovery THEN Cleared(s)
                 ELSE IF run[t].op = "retry" THEN [s EXCEPT !.canRetry = FALSE] ELSE s
            h == [run[t] EXCEPT !.at = "finish", !.intent = with]
            r == IF recovery[t] = NoRecovery
                 THEN [at |-> "nonces", intent |-> with, known |-> final] ELSE recovery[t]
<1>2. /\ run[t].at = "wallet" /\ run[t].intent.nonce > final /\ asked[i].state = "sent"
      /\ record' = with /\ tab' = [tab EXCEPT ![t] = a]
      /\ run' = [run EXCEPT ![t] = h] /\ UNCHANGED <<asked, mined, final, lock>>
      /\ Recovering(t, with)
  BY DEF HashInTime, InTime, At
<1>3. recovery' = [recovery EXCEPT ![t] = r]  BY <1>1, <1>2 DEF Recovering
<1>4. i \in DOMAIN asked /\ i > 0 /\ i \in Nat /\ SameIntent(asked[i], run[t].intent)
  <2>1. i \in DOMAIN asked /\ SameIntent(asked[i], run[t].intent)  BY <1>1, <1>2 DEF RunInv
  <2>. QED  BY <2>1, AskedIsASequence DEF AloneInv, PageInv
<1>5. run[t].intent \in Intents  BY <1>1 DEF Handlers
<1>6. with \in Intents /\ with.nonce = run[t].intent.nonce /\ with.review = run[t].intent.review /\ with.tx = i
  BY <1>4, <1>5 DEF Intents
<1>. HIDE DEF with
<1>7. ~Settled(i)  BY <1>2, <1>4, <1>5, <1>1 DEF Settled, SameIntent, Intents
<1>8. record # NoRecord /\ SameIntent(record, with)
  <2>1. record # NoRecord  BY <1>1, <1>4, <1>7 DEF RecordInv, AllSettled
  <2>2. SameIntent(record, run[t].intent)  BY <1>1, <1>2, <2>1 DEF RunInv
  <2>. QED  BY <1>6, <2>1, <2>2 DEF SameIntent
<1>9. HasHash(with) /\ with # NoRecord
  <2>1. HasHash(with)  BY <1>2, <1>4, <1>6 DEF HasHash, SameIntent
  <2>2. with # NoRecord
    <3>1. with.tx # 0  BY <1>4, <1>6
    <3>. QED  BY <3>1, NoneAreTyped
  <2>. QED  BY <2>1, <2>2
<1>10. RecordInv(with) /\ RecoveryInv(with, recovery[t])  BY <1>1, <1>8, <1>9, SameRecord
<1>11. RecoveryInv(with, r)
  <2>1. CASE recovery[t] = NoRecovery
    <3>1. r.intent = with  BY <2>1
    <3>. HIDE DEF r
    <3>. QED  BY <1>9, <3>1 DEF RecoveryInv, Live, SameIntent
  <2>2. CASE recovery[t] # NoRecovery  BY <1>10, <2>2
  <2>. QED  BY <2>1, <2>2
<1>12. h.at = "finish" /\ h.intent = with /\ h.request = i /\ h.op = run[t].op  BY <1>1 DEF Handlers
<1>. HIDE DEF h
<1>13. RunInv(with, h)
  <2>1. SameIntent(asked[i], with) /\ (run[t].op = "submit" => \A j \in DOMAIN asked \ {i} : Settled(j))
    BY <1>1, <1>2, <1>6 DEF RunInv, SameIntent
  <2>. QED  BY <1>4, <1>12, <2>1 DEF RunInv, SameIntent
<1>14. s \in TabStates /\ s.pending = with /\ s.canClear = tab[t].canClear  BY <1>1, <1>6 DEF TabStates
<1>. HIDE DEF s
<1>15. a.pending = with /\ ~a.canClear
  <2>1. CASE recovery[t] = NoRecovery  BY <1>14, <2>1, ClearedIsTyped
  <2>2. CASE recovery[t] # NoRecovery
    <3>1. ~s.canClear  BY <1>1, <1>14, <2>2 DEF TabInv
    <3>. QED  BY <1>14, <2>2, <3>1 DEF TabStates
  <2>. QED  BY <2>1, <2>2
<1>. HIDE DEF a, r
<1>16. TabInv(with, a, r)  BY <1>15 DEF TabInv
<1>. QED  BY <1>2, <1>3, <1>10, <1>11, <1>13, <1>16, UnchangedStay, AloneStep

(* The first request is the only one that can be mined: rejected in time, it leaves none. *)
LEMMA RejectedInTimeAlone ==
    ASSUME NEW t \in Tabs, AloneInv(t), PageInv', RejectedInTime(t)  PROVE AloneInv(t)'
<1>1. CASE KeepsRecord(t)  BY <1>1, LeavingAlone DEF RejectedInTime
<1>2. CASE run[t].op = "submit" /\ record # NoRecord /\ SameIntent(record, run[t].intent)
           /\ Saved(t, NoRecord)
  <2>1. /\ tab[t] \in TabStates /\ TabInv(record, tab[t], recovery[t]) /\ RecordInv(record)
        /\ RunInv(record, run[t]) /\ RunFacts(run[t]) /\ run[t] \in Handlers /\ final \in Nat
        /\ recovery[t] \in Recoveries /\ RecoveryFacts(recovery[t]) /\ RecoveryInv(record, recovery[t])
        /\ recovery = [recovery EXCEPT ![t] = recovery[t]]
    BY AloneIsTyped
  <2>2. /\ run[t].at = "wallet" /\ run[t].intent.nonce > final
        /\ asked[run[t].request].state = "rejected" /\ Leaves(t)
        /\ UNCHANGED <<asked, mined, final, recovery>>
    BY DEF RejectedInTime, InTime, At
  <2>3. run[t].intent.nonce \in Nat  BY <2>1 DEF Handlers, Intents
  <2>4. AllSettled  BY <1>2, <2>1, <2>2 DEF RunInv, AllSettled, Settled
  <2>. DEFINE a == [tab[t] EXCEPT !.pending = NoRecord]
              r == recovery[t]
  <2>5. tab' = [tab EXCEPT ![t] = a] /\ record' = NoRecord  BY <1>2 DEF Saved
  <2>6. a.pending = NoRecord /\ a.canClear = tab[t].canClear  BY <2>1 DEF TabStates
  <2>. HIDE DEF a
  <2>7. ~tab[t].canClear
    <3>1. record.nonce = run[t].intent.nonce  BY <1>2 DEF SameIntent
    <3>2. ~(record.nonce <= final)  BY <2>1, <2>2, <2>3, <3>1
    <3>. QED  BY <2>1, <3>2 DEF TabInv
  <2>8. TabInv(NoRecord, a, r)  BY <2>6, <2>7 DEF TabInv
  <2>9. run' = [run EXCEPT ![t] = NoRun]  BY <2>2 DEF Leaves
  <2>10. Live(record, r) => Dead(r)
    <3>. SUFFICES ASSUME Live(record, r)  PROVE Dead(r)  OBVIOUS
    <3>1. r.intent.nonce = run[t].intent.nonce  BY <1>2 DEF Live, SameIntent
    <3>2. r.known < r.intent.nonce
      <4>1. r.known \in Nat /\ r.known <= final  BY <2>1 DEF Recoveries, RecoveryFacts
      <4>. QED  BY <2>1, <2>2, <2>3, <3>1, <4>1
    <3>3. ASSUME NEW i \in DOMAIN asked, SameIntent(asked[i], r.intent)  PROVE asked[i].state = "rejected"
      <4>1. asked[i].nonce = run[t].intent.nonce  BY <3>1, <3>3 DEF SameIntent
      <4>2. ~(asked[i].nonce <= final)  BY <2>1, <2>2, <2>3, <4>1
      <4>. QED  BY <2>4, <4>2 DEF AllSettled, Settled
    <3>. QED  BY <3>2, <3>3 DEF Dead
  <2>11. RecoveryInv(NoRecord, r)  BY <2>1, <2>10 DEF RecoveryInv
  <2>12. RecordInv(NoRecord) /\ RunInv(NoRecord, NoRun)  BY <2>4, NoneFollow
  <2>13. recovery' = [recovery EXCEPT ![t] = r] /\ UNCHANGED <<asked, mined, final>>  BY <2>1, <2>2
  <2>. HIDE DEF r
  <2>. QED  BY <2>5, <2>8, <2>9, <2>11, <2>12, <2>13, UnchangedStay, AloneStep
<1>. QED  BY <1>1, <1>2 DEF RejectedInTime
(* A recovery that finds its nonce final follows the record, and nothing can be mined any more. *)
LEMMA FinalNonceSettlesAll ==
    ASSUME NEW t \in Tabs, AloneInv(t), recovery[t].at # "idle",
           recovery[t].intent.nonce <= recovery[t].known
    PROVE  Live(record, recovery[t]) /\ AllSettled /\ record.nonce <= final
<1>1. /\ recovery[t] \in Recoveries /\ RecoveryFacts(recovery[t]) /\ RecoveryInv(record, recovery[t])
      /\ RecordInv(record) /\ final \in Nat
  BY AloneIsTyped
<1>2. recovery[t].known \in Nat /\ recovery[t].known <= final /\ recovery[t].intent.nonce \in Nat
  BY <1>1 DEF Recoveries, Intents, RecoveryFacts
<1>3. ~Dead(recovery[t])  BY <1>2 DEF Dead
<1>4. Live(record, recovery[t])  BY <1>1, <1>3 DEF RecoveryInv
<1>5. record # NoRecord /\ record.nonce = recovery[t].intent.nonce  BY <1>4 DEF Live, SameIntent
<1>6. record.nonce <= final  BY <1>1, <1>2, <1>5
<1>7. AllSettled  BY <1>1, <1>5, <1>6 DEF RecordInv, AllSettled, Settled, SameIntent
<1>. QED  BY <1>4, <1>6, <1>7

LEMMA RecoveryAlone ==
    ASSUME NEW t \in Tabs, AloneInv(t), PageInv', RecoverStart(t) \/ RecoverEndsLocked(t) \/ Recover(t)
    PROVE  AloneInv(t)'
<1>1. /\ tab[t] \in TabStates /\ TabInv(record, tab[t], recovery[t]) /\ tab = [tab EXCEPT ![t] = tab[t]]
      /\ run[t] \in Handlers /\ RunInv(record, run[t]) /\ run = [run EXCEPT ![t] = run[t]]
      /\ recovery[t] \in Recoveries /\ RecoveryInv(record, recovery[t]) /\ RecordInv(record)
      /\ RecoveryFacts(recovery[t]) /\ final \in Nat /\ record \in Intents
  BY AloneIsTyped
<1>. DEFINE r == recovery[t].intent
<1>2. r \in Intents /\ recovery[t].known \in Nat  BY <1>1 DEF Recoveries
<1>3. recovery[t].at # "idle" => ~tab[t].canClear  BY <1>1, NoneAreTyped DEF TabInv
<1>4. ASSUME NEW a, tab' = [tab EXCEPT ![t] = a], TabInv(record, a, NoRecovery), Done(t),
             UNCHANGED <<asked, mined, final, record, lock, run>>
      PROVE  AloneInv(t)'
  <2>1. recovery' = [recovery EXCEPT ![t] = NoRecovery]  BY <1>4 DEF Done
  <2>2. run' = [run EXCEPT ![t] = run[t]] /\ RequestsStay  BY <1>1, <1>4, UnchangedStay
  <2>. QED  BY <1>1, <1>4, <2>1, <2>2, NoneFollow, AloneStep
<1>5. ASSUME NEW n \in Nat, recovery[t].at # "idle", r.nonce <= recovery[t].known,
             tab' = [tab EXCEPT ![t] = [Cleared(@) EXCEPT !.result = n, !.pending = NoRecord]],
             record' = NoRecord, Done(t), UNCHANGED <<asked, mined, final, lock, run>>
      PROVE  AloneInv(t)'
  <2>. DEFINE a == [Cleared(tab[t]) EXCEPT !.result = n, !.pending = NoRecord]
  <2>1. a.pending = NoRecord /\ ~a.canClear  BY <1>1, ShownIsTyped
  <2>2. tab' = [tab EXCEPT ![t] = a]  BY <1>5
  <2>. HIDE DEF a
  <2>3. AllSettled  BY <1>5, FinalNonceSettlesAll
  <2>4. recovery' = [recovery EXCEPT ![t] = NoRecovery]  BY <1>5 DEF Done
  <2>. QED  BY <1>5, <2>1, <2>2, <2>3, <2>4, DroppedAlone
<1>6. CASE RecoverStart(t)
  <2>. DEFINE a == Cleared(tab[t])
              next == [at |-> "nonces", intent |-> tab[t].pending, known |-> final]
  <2>1. /\ recovery[t] = NoRecovery /\ tab[t].pending # NoRecord
        /\ tab' = [tab EXCEPT ![t] = a] /\ recovery' = [recovery EXCEPT ![t] = next]
        /\ UNCHANGED <<asked, mined, final, record, lock, run>>
    BY <1>6 DEF RecoverStart, Recovering
  <2>2. tab[t].pending = record  BY <1>1 DEF TabInv
  <2>3. next.intent = record  BY <2>2
  <2>4. a.pending = record /\ ~a.canClear  BY <1>1, <2>2, ClearedIsTyped
  <2>. HIDE DEF a, next
  <2>5. RecoveryInv(record, next)  BY <1>1, <2>1, <2>2, <2>3 DEF RecoveryInv, RecordInv, Live, SameIntent
  <2>6. TabInv(record, a, next)  BY <2>4 DEF TabInv
  <2>. QED  BY <1>1, <2>1, <2>5, <2>6, UnchangedStay, AloneStep
<1>7. CASE RecoverEndsLocked(t)
  <2>1. TabInv(record, tab[t], NoRecovery)  BY <1>1 DEF TabInv
  <2>. QED  BY <1>1, <1>4, <1>7, <2>1 DEF RecoverEndsLocked
<1>8. CASE RecoverNonces(t)
  <2>0. ~tab[t].canClear  BY <1>3, <1>8 DEF RecoverNonces, RecoverAt
  <2>1. ASSUME tab' = [tab EXCEPT ![t].canRetry = TRUE], Done(t)  PROVE AloneInv(t)'
    <3>. DEFINE a == [tab[t] EXCEPT !.canRetry = TRUE]
    <3>1. a.pending = tab[t].pending /\ a.canClear = tab[t].canClear  BY <1>1 DEF TabStates
    <3>2. TabInv(record, a, NoRecovery) /\ tab' = [tab EXCEPT ![t] = a]
      BY <1>1, <2>0, <2>1, <3>1 DEF TabInv
    <3>. HIDE DEF a
    <3>. QED  BY <1>4, <1>8, <2>1, <3>2 DEF RecoverNonces
  <2>2. ASSUME UNCHANGED tab, Search(t)  PROVE AloneInv(t)'
    <3>. DEFINE next == [recovery[t] EXCEPT !.at = "search"]
    <3>1. recovery[t].at = "nonces" /\ recovery' = [recovery EXCEPT ![t] = next]
      BY <1>8, <2>2 DEF RecoverNonces, RecoverAt, Search
    <3>2. next.intent = r /\ next.known = recovery[t].known  BY <1>1 DEF Recoveries
    <3>. HIDE DEF next
    <3>3. RecoveryInv(record, next)  BY <1>1, <3>1, <3>2 DEF RecoveryInv, Live, Dead
    <3>4. TabInv(record, tab[t], next)  BY <1>1, <2>0 DEF TabInv
    <3>. QED  BY <1>1, <1>8, <2>2, <3>1, <3>3, <3>4, UnchangedStay, AloneStep DEF RecoverNonces
  <2>. QED  BY <1>8, <2>1, <2>2 DEF RecoverNonces
<1>9. CASE RecoverFinds(t)
  <2>1. PICK i \in DOMAIN asked :
          LET with == [r EXCEPT !.stage = "pending", !.tx = i]
          IN  /\ recovery[t].at = "search" /\ asked[i].state = "sent" /\ SameIntent(asked[i], r)
              /\ Saved(t, with)
              /\ recovery' = [recovery EXCEPT ![t].at = "nonces", ![t].intent = with]
              /\ UNCHANGED <<asked, mined, final, lock, run>>
    BY <1>9 DEF RecoverFinds, RecoverAt
  <2>. DEFINE with == [r EXCEPT !.stage = "pending", !.tx = i]
              a == [tab[t] EXCEPT !.pending = with]
              next == [recovery[t] EXCEPT !.at = "nonces", !.intent = with]
  <2>2. /\ tab' = [tab EXCEPT ![t] = a] /\ record' = with /\ recovery' = [recovery EXCEPT ![t] = next]
        /\ UNCHANGED <<asked, mined, final, lock, run>>
    BY <2>1 DEF Saved
  <2>3. with.nonce = r.nonce /\ with.review = r.review /\ with.tx = i  BY <1>2 DEF Intents
  <2>. HIDE DEF with
  <2>4. next.intent = with  BY <1>1 DEF Recoveries
  <2>5. a.pending = with /\ a.canClear = tab[t].canClear  BY <1>1 DEF TabStates
  <2>. HIDE DEF a, next
  <2>6. ~Dead(recovery[t])  BY <2>1 DEF Dead
  <2>7. Live(record, recovery[t])  BY <1>1, <2>1, <2>6 DEF RecoveryInv
  <2>8. record # NoRecord /\ SameIntent(record, with)  BY <2>3, <2>7 DEF Live, SameIntent
  <2>9. with # NoRecord
    <3>1. i # 0  BY AskedIsASequence DEF AloneInv, PageInv
    <3>. QED  BY <2>3, <3>1, NoneAreTyped
  <2>10. HasHash(with)  BY <2>1, <2>3 DEF HasHash, SameIntent
  <2>11. RecordInv(with) /\ RunInv(with, run[t])  BY <1>1, <2>8, <2>9, <2>10, SameRecord
  <2>12. RecoveryInv(with, next)  BY <2>4, <2>9, <2>10 DEF RecoveryInv, Live, SameIntent
  <2>13. TabInv(with, a, next)  BY <1>3, <2>1, <2>5 DEF TabInv
  <2>. QED  BY <1>1, <2>2, <2>11, <2>12, <2>13, UnchangedStay, AloneStep
<1>10. CASE RecoverReplaced(t)
  <2>1. /\ recovery[t].at = "search" /\ r.nonce <= recovery[t].known /\ Done(t)
        /\ UNCHANGED <<asked, mined, final, lock, run>>
    BY <1>10 DEF RecoverReplaced, RecoverAt, SaidFinal
  <2>2. r.nonce \in Nat  BY <1>2 DEF Intents
  <2>3. CASE mined[r.nonce].ok /\ mined[r.nonce].tx # Foreign
    <3>1. record' = NoRecord /\ tab' = [tab EXCEPT ![t] = [Cleared(@) EXCEPT !.result = r.nonce,
                                                                    !.pending = NoRecord]]
      BY <1>10, <2>3 DEF RecoverReplaced
    <3>. QED  BY <1>5, <2>1, <2>2, <3>1
  <2>4. CASE ~(mined[r.nonce].ok /\ mined[r.nonce].tx # Foreign)
    <3>. DEFINE a == [tab[t] EXCEPT !.canClear = TRUE]
    <3>1. tab' = [tab EXCEPT ![t] = a] /\ record' = record  BY <1>10, <2>4 DEF RecoverReplaced
    <3>2. a.pending = tab[t].pending  BY <1>1 DEF TabStates
    <3>. HIDE DEF a
    <3>3. record # NoRecord /\ record.nonce <= final /\ AllSettled
      BY <2>1, FinalNonceSettlesAll DEF Live
    <3>4. TabInv(record, a, NoRecovery)  BY <1>1, <3>2, <3>3 DEF TabInv
    <3>. QED  BY <1>4, <2>1, <3>1, <3>4
  <2>. QED  BY <2>3, <2>4
<1>11. CASE RecoverReceipt(t)
  <2>1. PICK n \in DOMAIN mined :
          /\ mined[n].tx = r.tx /\ recovery[t].at = "nonces" /\ r.tx # 0 /\ n <= recovery[t].known
          /\ IF mined[n].ok
             THEN /\ record' = NoRecord
                  /\ tab' = [tab EXCEPT ![t] = [Cleared(@) EXCEPT !.result = n, !.pending = NoRecord]]
             ELSE /\ record' = [r EXCEPT !.stage = "reverted"]
                  /\ tab' = [tab EXCEPT ![t].pending = [r EXCEPT !.stage = "reverted"],
                                        ![t].canClear = TRUE]
          /\ Done(t) /\ UNCHANGED <<asked, mined, final, lock, run>>
    BY <1>11 DEF RecoverReceipt, PlaceOf, RecoverAt, SaidFinal, Verified
  <2>2. n \in Nat  BY MinedIsASequence DEF AloneInv, PageInv
  <2>3. SameIntent(asked[r.tx], r) /\ asked[r.tx].state = "sent" /\ r.tx \in DOMAIN asked /\ HasHash(r)
    BY <1>1, <2>1 DEF RecoveryInv, HasHash
  <2>4. r.nonce = n
    <3>1. mined[n].tx > 0
      <4>1. r.tx \in Nat  BY <1>2 DEF Intents
      <4>2. r.tx > 0  BY <2>1, <4>1
      <4>. QED  BY <2>1, <4>2
    <3>2. asked[r.tx].nonce = n  BY <2>1, <3>1 DEF AloneInv, MinedWasSent
    <3>. QED  BY <2>3, <3>2 DEF SameIntent
  <2>5. r.nonce <= recovery[t].known  BY <2>1, <2>4
  <2>6. CASE mined[n].ok  BY <1>5, <2>1, <2>2, <2>5, <2>6
  <2>7. CASE ~mined[n].ok
    <3>. DEFINE back == [r EXCEPT !.stage = "reverted"]
                a == [tab[t] EXCEPT !.pending = back, !.canClear = TRUE]
    <3>1. tab' = [tab EXCEPT ![t] = a] /\ record' = back  BY <2>1, <2>7
    <3>2. back.nonce = r.nonce /\ back.review = r.review /\ back.tx = r.tx  BY <1>2 DEF Intents
    <3>. HIDE DEF back
    <3>3. a.pending = back  BY <1>1 DEF TabStates
    <3>. HIDE DEF a
    <3>4. Live(record, recovery[t]) /\ AllSettled /\ record.nonce <= final
      BY <2>1, <2>5, FinalNonceSettlesAll
    <3>5. record # NoRecord /\ SameIntent(record, back)  BY <3>2, <3>4 DEF Live, SameIntent
    <3>6. back # NoRecord  BY <2>1, <3>2, NoneAreTyped
    <3>7. HasHash(back)  BY <2>3, <3>2 DEF HasHash, SameIntent
    <3>8. RecordInv(back) /\ RunInv(back, run[t])  BY <1>1, <3>5, <3>6, <3>7, SameRecord
    <3>9. TabInv(back, a, NoRecovery)  BY <3>3, <3>4, <3>5, <3>6 DEF TabInv, SameIntent
    <3>10. recovery' = [recovery EXCEPT ![t] = NoRecovery]  BY <2>1 DEF Done
    <3>. QED  BY <1>1, <2>1, <3>1, <3>8, <3>9, <3>10, NoneFollow, UnchangedStay, AloneStep
  <2>. QED  BY <2>6, <2>7
<1>. QED  BY <1>6, <1>7, <1>8, <1>9, <1>10, <1>11 DEF Recover

LEMMA AloneInvInit == ASSUME NEW t \in Tabs, Init  PROVE AloneInv(t)
<1>1. PageInv  BY PageInvInit
<1>2. DOMAIN asked = {} /\ DOMAIN mined = {}
  <2>1. asked = <<>> /\ mined = <<>>  BY DEF Init
  <2>2. Len(asked) = 0 /\ Len(mined) = 0  BY <2>1, EmptySeq
  <2>. QED  BY <1>1, <2>2, AskedIsASequence, MinedIsASequence DEF PageInv
<1>3. AllSettled  BY <1>2 DEF AllSettled
<1>4. record = NoRecord /\ tab[t] = Fresh /\ run[t] = NoRun /\ recovery[t] = NoRecovery  BY DEF Init
<1>5. TabInv(record, tab[t], recovery[t])  BY <1>4 DEF TabInv, Fresh
<1>6. MinedWasSent /\ NoneBefore  BY <1>2 DEF MinedWasSent, NoneBefore
<1>. QED  BY <1>1, <1>3, <1>4, <1>5, <1>6, NoneFollow DEF AloneInv

LEMMA AloneInvStep ==
    ASSUME NEW t \in Tabs, AloneInv(t), [Outside \/ InTab(t)]_vars  PROVE AloneInv(t)'
<1>1. PageInv'
  <2>1. [Next]_vars  BY DEF Next
  <2>. QED  BY <2>1, PageInvStep DEF AloneInv
<1>2. CASE Outside  BY <1>1, <1>2, OutsideAlone
<1>3. CASE InTab(t)
  BY <1>1, <1>3, ReloadAlone, LateHashAlone, FormAlone, HandlerAlone, AskingAlone,
     HashInTimeAlone, RejectedInTimeAlone, RecoveryAlone
     DEF InTab
<1>4. CASE UNCHANGED vars
  <2>1. /\ tab' = [tab EXCEPT ![t] = tab[t]] /\ run' = [run EXCEPT ![t] = run[t]]
        /\ recovery' = [recovery EXCEPT ![t] = recovery[t]] /\ UNCHANGED <<asked, mined, final, record>>
    BY <1>4, AloneIsTyped DEF vars
  <2>. QED  BY <1>1, <2>1, AloneIsTyped, UnchangedStay, AloneStep
<1>. QED  BY <1>2, <1>3, <1>4

(* A tab whose rivals are never opened unlocks only when nothing it ever asked the wallet for *)
(* can still be mined, whatever is reloaded, reorganised, answered late or retried.            *)
THEOREM UnlockedAloneIsSafe == ASSUME NEW t \in Tabs  PROVE AloneSpec(t) => []UnlockedIsSafe
<1>1. Init => AloneInv(t)  BY AloneInvInit
<1>2. AloneInv(t) /\ [Outside \/ InTab(t)]_vars => AloneInv(t)'  BY AloneInvStep
<1>3. AloneInv(t) => UnlockedIsSafe
  BY DEF AloneInv, RecordInv, AllSettled, Settled, UnlockedIsSafe
<1>. QED  BY <1>1, <1>2, <1>3, PTL DEF AloneSpec

(* And it never has a question created twice, though the check for a duplicate and the request *)
(* are steps apart and a creation cannot be taken back.                                        *)
THEOREM NoDuplicateAlone == ASSUME NEW t \in Tabs  PROVE AloneSpec(t) => []NoDuplicate
<1>1. Init => AloneInv(t)  BY AloneInvInit
<1>2. AloneInv(t) /\ [Outside \/ InTab(t)]_vars => AloneInv(t)'  BY AloneInvStep
<1>3. AloneInv(t) => NoDuplicate
  <2>1. ASSUME AloneInv(t), NEW m \in DOMAIN mined, NEW n \in DOMAIN mined, m < n,
               mined[m].tx > 0, mined[n].tx > 0, mined[m].ok
        PROVE  QuestionOf(mined[m].tx) # QuestionOf(mined[n].tx)
    BY <2>1 DEF AloneInv, MinedWasSent, NoneBefore
  <2>2. AloneInv(t) => \A n \in DOMAIN mined : n \in Nat  BY NoncesAreNumbers DEF AloneInv
  <2>3. ASSUME AloneInv(t), NEW m \in DOMAIN mined, NEW n \in DOMAIN mined, m # n,
               mined[m].tx > 0, mined[n].tx > 0, mined[m].ok, mined[n].ok
        PROVE  QuestionOf(mined[m].tx) # QuestionOf(mined[n].tx)
    <3>1. m < n \/ n < m  BY <2>2, <2>3
    <3>. QED  BY <2>1, <2>3, <3>1
  <2>. QED  BY <2>3 DEF NoDuplicate
<1>. QED  BY <1>1, <1>2, <1>3, PTL DEF AloneSpec
==============================================================================
