----------------------------- MODULE BlockSearch -----------------------------
(***************************************************************************)
(* Where on the chain a market was created: the blocks of one timestamp    *)
(* (src/frontend/testnet/historyBlockSearch.ts, findTimestampRange).       *)
(*                                                                         *)
(* Two searches, for the first block not before the creation and for the   *)
(* first one after it.  Each guesses from the rate of a sample, doubles    *)
(* its step until two headers bracket the boundary, and bisects.  A step   *)
(* of the model is one header read, and what follows from it.              *)
(*                                                                         *)
(* The chain is a sequence of timestamps; it stands still meanwhile, as    *)
(* readers compare the hashes of what they found afterwards.               *)
(***************************************************************************)
EXTENDS Integers, Sequences, FiniteSetsExt

CONSTANTS
    Times, MaxHead,    \* timestamps, and heads, to search among
    Sample,            \* blocks between the head and the sample
    Rounds             \* after so many rounds a search gives up

\* The step that a search has come to by a round.
Reach[n \in 0..Rounds] == IF n = 0 THEN 1 ELSE 2 * Reach[n - 1]

BlockSearchAssumption ==
    /\ Times \subseteq Nat /\ {MaxHead, Sample, Rounds} \subseteq Nat \ {0}
    /\ MaxHead <= Reach[Rounds - 1]       \* in the code, 2 ^ 53 and 64 rounds

VARIABLES chain, run

vars == <<chain, run>>

Chains ==
    {c \in UNION {[1..n -> Times] : n \in 1..MaxHead} : \A i \in 2..Len(c) : c[i - 1] <= c[i]}

Height == Len(chain)
Oldest == chain[1]
Latest == chain[Height]

\* The block that the rate of the sample lets one expect.
Predicted(target) ==
    LET from == Max({1, Height - Sample})
        elapsed == Latest - chain[from]
    IN  IF elapsed = 0 THEN Height
        ELSE Max({1, Height - ((Latest - target) * (Height - from)) \div elapsed})

\* A search is asked for the first block at or after a target.
Search(target, first) ==
    [at |-> "guess", target |-> target, first |-> first, low |-> 0, high |-> 0, guess |-> 0,
     step |-> 1, round |-> 0, last |-> 0]

\* The first search gives way to the second, whose answer ends both.
Found(n) ==
    run' = IF run.first = 0 THEN Search(run.target + 1, n) ELSE [run EXCEPT !.at = "done", !.last = n - 1]
Fails == run' = [run EXCEPT !.at = "failed"]

Guess ==
    /\ run.at = "guess"
    /\ LET n == Predicted(run.target) IN
       IF run.target > Latest THEN Found(Height + 1)
       ELSE IF run.target <= Oldest THEN Found(1)
       ELSE run' = IF chain[n] >= run.target
                   THEN [run EXCEPT !.at = "down", !.guess = n, !.low = 1, !.high = n]
                   ELSE [run EXCEPT !.at = "up", !.guess = n, !.low = n, !.high = Height]

NextRound == [run EXCEPT !.round = @ + 1, !.step = Min({Height, 2 * @})]
Bisects(r) == [r EXCEPT !.at = "bisect", !.round = 0]

\* Below the guess, until a block is before the target.
Down ==
    /\ run.at = "down"
    /\ LET n == Max({1, run.guess - run.step}) IN
       IF run.round = Rounds THEN Fails
       ELSE IF chain[n] < run.target THEN run' = Bisects([run EXCEPT !.low = n])
       ELSE IF n = 1 THEN Found(1)
       ELSE run' = [NextRound EXCEPT !.high = n]

\* Above the guess, until a block is not.
Up ==
    /\ run.at = "up"
    /\ LET n == Min({Height, run.guess + run.step}) IN
       IF run.round = Rounds THEN Fails
       ELSE IF chain[n] >= run.target THEN run' = Bisects([run EXCEPT !.high = n])
       ELSE IF n = Height THEN Fails
       ELSE run' = [NextRound EXCEPT !.low = n]

Bisect ==
    /\ run.at = "bisect"
    /\ LET n == run.low + (run.high - run.low) \div 2 IN
       IF run.high - run.low <= 1 THEN Found(run.high)
       ELSE IF run.round = Rounds THEN Fails
       ELSE IF chain[n] >= run.target THEN run' = [run EXCEPT !.high = n, !.round = @ + 1]
       ELSE run' = [run EXCEPT !.low = n, !.round = @ + 1]

\* A creation before the first block, or after the head, is refused before any search.
Init ==
    /\ chain \in Chains
    /\ \E created \in Oldest..Latest : run = Search(created, 0)

Next == (Guess \/ Down \/ Up \/ Bisect) /\ UNCHANGED chain

Spec == Init /\ [][Next]_vars

-----------------------------------------------------------------------------
\* The search never gives up, and the blocks it returns are those of the creation's
\* timestamp, none when it falls into a gap: whatever the rate of the chain, and
\* wherever it stalls.
RangeIsExact ==
    /\ run.at # "failed"
    /\ run.at = "done" =>
         {n \in 1..Height : chain[n] = run.target - 1} = run.first..run.last
=============================================================================
