--------------------------- MODULE HistoryReadQueue ---------------------------
(***************************************************************************)
(* The queue that shares the reads of market histories among the charts of *)
(* a page (src/frontend/testnet/historyReadQueue.ts).                      *)
(*                                                                         *)
(* A chart asks for a key with a priority, and may cancel; charts that ask *)
(* for the same key share one job, which starts when a slot is free.  The  *)
(* foreground overtakes the background, which gets one slot at most.  To   *)
(* cancel never stops a read that has started.                             *)
(*                                                                         *)
(* A job is known by its key; the counters of the code are the numbers of  *)
(* the jobs they count.                                                    *)
(***************************************************************************)
EXTENDS SequencesExt

CONSTANTS Charts, Keys, NoKey,
          MaxConcurrent, \* reads at a time
          MaxActs        \* bound: what the charts ask for and cancel

HistoryReadQueueAssumption ==
    NoKey \notin Keys /\ MaxConcurrent \in Nat \ {0} /\ MaxActs \in Nat

VARIABLES
    acts,
    wants,    \* wants[c]: the key that chart c waits for, its subscription
    jobs      \* the map of jobs, those that wait in order, those that run

vars == <<acts, wants, jobs>>

Subscribers(k) == {c \in Charts : wants[c] = k}
Acts == acts > 0 /\ acts' = acts - 1
Background(q) == {k \in q.running : q.priority[k] = "background"}

-----------------------------------------------------------------------------
\* pump, at the end of every operation: as long as a slot is free, the first job of
\* the foreground starts, or else the first of the background if none of those runs.
\* Mistake (Eligible_AnySlot): the background may take every slot.
Eligible_AnySlot(q, priority) ==
    {i \in DOMAIN q.pending : q.priority[q.pending[i]] = priority}
Eligible(q, priority) ==
    {i \in DOMAIN q.pending : /\ q.priority[q.pending[i]] = priority
                              /\ priority = "background" => Background(q) = {}}
Starts(q) ==
    IF Eligible(q, "foreground") # {} THEN Eligible(q, "foreground") ELSE Eligible(q, "background")
Start(q) ==
    LET i == Min(Starts(q))
    IN  [q EXCEPT !.pending = RemoveAt(@, i), !.running = @ \cup {q.pending[i]}]
Pump(q) ==
    LET pump[n \in 0..MaxConcurrent] ==
          IF n = 0 THEN q
          ELSE LET r == pump[n - 1]
               IN IF Cardinality(r.running) < MaxConcurrent /\ Starts(r) # {} THEN Start(r) ELSE r
    IN pump[MaxConcurrent]

\* run: a new job, or the one there is; a waiting one may come to the foreground.
Ask(c, k, p) ==
    LET q == IF k \notin jobs.known
             THEN [jobs EXCEPT !.known = @ \cup {k}, !.pending = Append(@, k), !.priority[k] = p]
             ELSE IF k \notin jobs.running /\ p = "foreground"
             THEN [jobs EXCEPT !.priority[k] = p]
             ELSE jobs
    IN  /\ Acts /\ wants[c] = NoKey
        /\ wants' = [wants EXCEPT ![c] = k] /\ jobs' = Pump(q)

\* The signal aborts: a job that waits for nobody else is dropped.
\* Mistake (Dropped_StillKnown): the map keeps the job that nobody will start.
Dropped_StillKnown(k) == [jobs EXCEPT !.pending = RemoveFirst(@, k)]
Dropped(k) == [jobs EXCEPT !.pending = RemoveFirst(@, k), !.known = @ \ {k}]
Cancel(c) ==
    LET k == wants[c]
    IN  /\ Acts /\ k # NoKey /\ wants' = [wants EXCEPT ![c] = NoKey]
        /\ jobs' = IF k \notin jobs.running /\ Subscribers(k) = {c} THEN Pump(Dropped(k)) ELSE jobs

\* A read ends, well or not: its job is forgotten and all who wait are answered.
Finish(k) ==
    /\ k \in jobs.running
    /\ wants' = [c \in Charts |-> IF wants[c] = k THEN NoKey ELSE wants[c]]
    /\ jobs' = Pump([jobs EXCEPT !.running = @ \ {k}, !.known = @ \ {k}])
    /\ UNCHANGED acts

-----------------------------------------------------------------------------
Init ==
    /\ acts = MaxActs /\ wants = [c \in Charts |-> NoKey]
    /\ jobs = [known |-> {}, pending |-> <<>>, running |-> {},
               priority |-> [k \in Keys |-> "background"]]

Next ==
    \/ \E c \in Charts, k \in Keys, p \in {"foreground", "background"} : Ask(c, k, p)
    \/ \E c \in Charts : Cancel(c)
    \/ \E k \in Keys : Finish(k)

Spec == Init /\ [][Next]_vars

-----------------------------------------------------------------------------
\* The background leaves a slot to the charts the user looks at, and no slot is free
\* while a job of the foreground waits.
ForegroundIsServed ==
    /\ Cardinality(Background(jobs)) <= 1
    /\ (\E i \in DOMAIN jobs.pending : jobs.priority[jobs.pending[i]] = "foreground")
         => Cardinality(jobs.running) = MaxConcurrent

\* Every chart has been answered or has cancelled.
NobodyWaits == \A c \in Charts : wants[c] = NoKey
=============================================================================
