----------------------------- MODULE SiteProofs -----------------------------
(***************************************************************************)
(* Proofs about the site, for every value of its constants: that what it   *)
(* shows is true, that nothing stale is signed, and that the book of a     *)
(* market on the paper server adds up.                                     *)
(*                                                                         *)
(* The pages are the subject of SitePagesProofs, the index and the paper   *)
(* market that of SiteServerProofs.  Here are the machines that serve the  *)
(* pages, BlockSearch, HistoryReadQueue and ShareSnapshot, and then the    *)
(* site: its invariant is that of the machine that is on, for no step      *)
(* leaves its scene.                                                       *)
(***************************************************************************)
EXTENDS SitePagesProofs, SiteServerProofs

(* BlockSearch. *)
LEMMA ReachIs ==
    /\ Search!Reach[0] = 1
    /\ \A n \in 1..Rounds : Search!Reach[n] = 2 * Search!Reach[n - 1]
    /\ \A n \in 0..Rounds : Search!Reach[n] \in Nat \ {0}
  <1> DEFINE s == [v \in Int |-> 2 * v]
  <1>0. Rounds \in Nat
    BY SiteAssumption DEF Search!BlockSearchAssumption
  <1>1. PICK f : Iterated(1, s, Rounds, f)
    BY <1>0, IterationExists
  <1>2. f[0] = 1 /\ \A n \in 1..Rounds : f[n] = s[f[n - 1]]
    <2> HIDE DEF s
    <2>1. QED
      BY <1>0, <1>1, IterationIs
  <1> DEFINE Q == {n \in Nat : n <= Rounds => f[n] \in Nat \ {0}}
  <1>3. \A n \in Nat : n \in Q
    <2>1. 0 \in Q
      BY <1>2
    <2>2. ASSUME NEW n \in Nat, n \in Q PROVE n + 1 \in Q
      <3>1. CASE n + 1 <= Rounds
        <4>1. f[n + 1] = s[f[n]]
          <5>1. n + 1 \in 1..Rounds /\ (n + 1) - 1 = n
            BY <3>1, <1>0
          <5>2. QED
            BY <1>2, <5>1
        <4>2. QED
          BY <2>2, <3>1, <4>1, <1>0
      <3>2. QED
        BY <3>1
    <2> HIDE DEF Q
    <2>3. QED
      BY <2>1, <2>2, Induction
  <1>4. f = [n \in 0..Rounds |-> IF n = 0 THEN 1 ELSE 2 * f[n - 1]]
    <2>1. \A n \in 0..Rounds : f[n] = IF n = 0 THEN 1 ELSE 2 * f[n - 1]
      <3> SUFFICES ASSUME NEW n \in 1..Rounds PROVE f[n] = 2 * f[n - 1]
        BY <1>2, <1>0
      <3>1. n - 1 \in Nat /\ n - 1 <= Rounds
        BY <1>0
      <3>2. f[n - 1] \in Int
        BY <1>3, <3>1
      <3>3. QED
        BY <1>2, <3>2
    <2>2. QED
      BY <1>1, <2>1 DEF Iterated
  <1>5. Search!Reach = [n \in 0..Rounds |-> IF n = 0 THEN 1 ELSE 2 * Search!Reach[n - 1]]
    <2> HIDE DEF s, Q
    <2>1. QED
      BY <1>4 DEF Search!Reach
  <1>6. Search!Reach[0] = 1 /\ \A n \in 1..Rounds : Search!Reach[n] = 2 * Search!Reach[n - 1]
    <2>0. 0 \in 0..Rounds
      BY <1>0
    <2>1. QED
      BY <1>0, <1>5, <2>0
  <1> DEFINE P == {n \in Nat : n <= Rounds => Search!Reach[n] \in Nat \ {0}}
  <1>7. \A n \in Nat : n \in P
    <2>1. 0 \in P
      BY <1>6
    <2>2. ASSUME NEW n \in Nat, n \in P PROVE n + 1 \in P
      <3>1. CASE n + 1 <= Rounds
        <4>1. Search!Reach[n + 1] = 2 * Search!Reach[n]
          <5>1. n + 1 \in 1..Rounds /\ (n + 1) - 1 = n
            BY <3>1, <1>0
          <5>2. QED
            BY <1>6, <5>1
        <4>2. QED
          BY <2>2, <3>1, <4>1, <1>0
      <3>2. QED
        BY <3>1
    <2> HIDE DEF P
    <2>3. QED
      BY <2>1, <2>2, Induction
  <1>8. QED
    BY <1>0, <1>6, <1>7

LEMMA MaxOfTwo ==
    ASSUME NEW a \in Int, NEW b \in Int
    PROVE  Search!Max({a, b}) = IF a <= b THEN b ELSE a
  BY DEF Search!Max

LEMMA MinOfTwo ==
    ASSUME NEW a \in Int, NEW b \in Int
    PROVE  Search!Min({a, b}) = IF a <= b THEN a ELSE b
  BY DEF Search!Min

\* A chain in which no block is before the one below it.
Grows(c) ==
    /\ Len(c) \in 1..MaxHead /\ c \in [1..Len(c) -> Int]
    /\ \A i, j \in 1..Len(c) : i <= j => c[i] <= c[j]

LEMMA ChainsGrow == ASSUME NEW c \in Search!Chains PROVE Grows(c)
  <1>0. MaxHead \in Nat /\ Times \subseteq Int
    BY SiteAssumption DEF Search!BlockSearchAssumption
  <1>1. PICK n \in 1..MaxHead : c \in [1..n -> Times]
    BY DEF Search!Chains
  <1>2. c \in Seq(Times) /\ Len(c) = n
    BY <1>0, <1>1
  <1>3. \A i \in 2..Len(c) : c[i - 1] <= c[i]
    BY DEF Search!Chains
  <1>4. c \in [1..Len(c) -> Int]
    BY <1>0, <1>1, <1>2
  <1>5. ASSUME NEW i \in 1..Len(c), NEW j \in 1..Len(c), i <= j PROVE c[i] <= c[j]
    <2> DEFINE Q == {k \in Nat : i + k <= Len(c) => c[i] <= c[i + k]}
    <2>1. 0 \in Q
      BY <1>2, <1>4
    <2>2. ASSUME NEW k \in Nat, k \in Q PROVE k + 1 \in Q
      <3>1. CASE i + (k + 1) <= Len(c)
        <4>1. i + (k + 1) \in 2..Len(c) /\ (i + (k + 1)) - 1 = i + k /\ i + k \in 1..Len(c)
          BY <1>0, <1>1, <1>2, <3>1
        <4>2. c[i + k] <= c[i + (k + 1)]
          BY <1>3, <4>1
        <4>3. c[i] \in Int /\ c[i + k] \in Int /\ c[i + (k + 1)] \in Int /\ c[i] <= c[i + k]
          BY <1>2, <1>4, <2>2, <4>1
        <4>4. c[i] <= c[i + (k + 1)]
          <5>1. \A x, y, z \in Int : x <= y /\ y <= z => x <= z
            OBVIOUS
          <5>2. QED
            BY <4>2, <4>3, <5>1
        <4>5. QED
          BY <4>4
      <3>2. QED
        BY <3>1
    <2> HIDE DEF Q
    <2>3. \A k \in Nat : k \in Q
      BY <2>1, <2>2, Induction
    <2>4. j - i \in Nat /\ i + (j - i) = j /\ j <= Len(c)
      BY <1>0, <1>1, <1>2, <1>5
    <2>5. j - i \in Q
      BY <2>3, <2>4
    <2>6. QED
      BY <2>4, <2>5 DEF Q
  <1>6. QED
    BY <1>0, <1>1, <1>2, <1>4, <1>5 DEF Grows

(* n is the first block at or after a time t, or the one above the head.         *)
FirstFrom(n, t) ==
    n \in 1..(Len(chain) + 1) /\ \A i \in 1..Len(chain) : (i < n <=> chain[i] < t)
Searches ==
    [at : {"guess", "down", "up", "bisect", "done", "failed"}, target : Int, first : Nat,
     low : Int, high : Int, guess : Int, step : Int, round : Int, last : Int]
SearchShapes == Grows(chain) /\ run \in Searches
\* The second search knows what the first one has found.
FirstIsKept ==
    IF run.first = 0 THEN run.target \in chain[1]..chain[Len(chain)]
    ELSE FirstFrom(run.first, run.target - 1)
\* The step doubles until it is that of the whole chain.
StepDoubles ==
    /\ run.round \in 0..(Rounds - 1) /\ run.step \in 1..Len(chain)
    /\ run.step \in {Len(chain), Search!Reach[run.round]}
    /\ run.guess \in 1..Len(chain)
    /\ chain[1] < run.target /\ run.target <= chain[Len(chain)]
Brackets ==
    /\ run.low \in 1..Len(chain) /\ run.high \in 1..Len(chain) /\ run.low < run.high
    /\ chain[run.low] < run.target /\ run.target <= chain[run.high]
SearchInv ==
    /\ SearchShapes /\ FirstIsKept
    /\ run.at = "guess" => run.round = 0 /\ run.step = 1
    /\ run.at = "down" => StepDoubles /\ run.high \in 1..run.guess /\ run.target <= chain[run.high]
    /\ run.at = "up" => StepDoubles /\ run.low \in run.guess..Len(chain) /\ chain[run.low] < run.target
    /\ run.at = "bisect" => /\ Brackets /\ run.round \in 0..(Rounds - 1)
                            /\ run.high - run.low <= Search!Reach[(Rounds - 1) - run.round]
    /\ run.at = "done" => run.first # 0 /\ FirstFrom(run.last + 1, run.target)
    /\ run.at # "failed"

LEMMA SearchRounds == Rounds \in Nat \ {0} /\ MaxHead \in Nat \ {0} /\ Sample \in Nat \ {0}
                      /\ MaxHead <= Search!Reach[Rounds - 1]
  BY SiteAssumption DEF Search!BlockSearchAssumption

LEMMA SearchInit == Search!Init => SearchInv
  <1> SUFFICES ASSUME Search!Init PROVE SearchInv
    OBVIOUS
  <1>1. Grows(chain)
    BY ChainsGrow DEF Search!Init
  <1>2. PICK created \in chain[1]..chain[Len(chain)] : run = Search!Search(created, 0)
    BY DEF Search!Init, Search!Oldest, Search!Latest, Search!Height
  <1>3. chain[1] \in Int /\ chain[Len(chain)] \in Int /\ created \in Int
    BY <1>1 DEF Grows
  <1>4. QED
    BY <1>1, <1>2, <1>3 DEF SearchInv, SearchShapes, Searches, FirstIsKept, Search!Search

\* What a search has found, the next state keeps.
LEMMA FoundIsKept ==
    ASSUME SearchInv, NEW n, FirstFrom(n, run.target), Search!Found(n), UNCHANGED chain
    PROVE  SearchInv'
  <1>1. n \in 1..(Len(chain) + 1) /\ Len(chain) \in Nat
    BY DEF SearchInv, SearchShapes, Grows, FirstFrom
  <1>2. CASE run.first = 0
    <2>1. run' = Search!Search(run.target + 1, n)
      BY <1>2 DEF Search!Found
    <2>2. run'.at = "guess" /\ run'.target = run.target + 1 /\ run'.first = n /\ run'.round = 0 /\ run'.step = 1
      BY <2>1 DEF Search!Search
    <2>3. SearchShapes'
      BY <1>1, <2>1 DEF SearchInv, SearchShapes, Searches, Search!Search, Grows
    <2>4. run'.first # 0 /\ run'.target - 1 = run.target
      BY SMTT(20), <1>1, <2>2 DEF SearchInv, SearchShapes, Searches
    <2>5. FirstIsKept'
      BY <2>2, <2>4 DEF FirstIsKept, FirstFrom
    <2>6. QED
      BY <2>2, <2>3, <2>5 DEF SearchInv
  <1>3. CASE run.first # 0
    <2>1. run' = [run EXCEPT !.at = "done", !.last = n - 1]
      BY <1>3 DEF Search!Found
    <2>2. /\ run' \in Searches /\ run'.at = "done" /\ run'.last = n - 1
          /\ run'.first = run.first /\ run'.target = run.target
      <3>1. PICK r : r = [run EXCEPT !.at = "done"]
        OBVIOUS
      <3>2. run' = [r EXCEPT !.last = n - 1]
        BY <2>1, <3>1
      <3>3. run \in Searches
        BY DEF SearchInv, SearchShapes
      <3>4. r \in Searches /\ r.at = "done" /\ r.first = run.first /\ r.target = run.target
        BY <3>1, <3>3 DEF Searches
      <3>5. n - 1 \in Int
        BY <1>1
      <3>6. PICK last : last = n - 1
        OBVIOUS
      <3>7. QED
        BY <3>2, <3>4, <3>5, <3>6 DEF Searches
    <2>2a. SearchShapes'
      BY <2>2 DEF SearchInv, SearchShapes, Grows
    <2>3. FirstIsKept'
      BY <1>3, <2>2 DEF SearchInv, FirstIsKept, FirstFrom
    <2>4. run'.last + 1 = n
      BY <1>1, <2>2
    <2>5. QED
      BY <1>3, <2>2, <2>2a, <2>3, <2>4 DEF SearchInv, FirstFrom
  <1>4. QED
    BY <1>2, <1>3

\* Two neighbours on both sides of a target are its boundary.
LEMMA BoundaryIsFirst ==
    ASSUME Grows(chain), NEW t \in Int, NEW n \in 1..Len(chain), t <= chain[n],
           n = 1 \/ (n > 1 /\ chain[n - 1] < t)
    PROVE  FirstFrom(n, t)
  <1>1. Len(chain) \in Nat
    BY DEF Grows
  <1>2. ASSUME NEW i \in 1..Len(chain), i < n PROVE chain[i] < t
    <2>1. n - 1 \in 1..Len(chain) /\ i <= n - 1
      BY <1>1, <1>2
    <2>2. chain[i] <= chain[n - 1] /\ chain[i] \in Int /\ chain[n - 1] \in Int
      BY <2>1 DEF Grows
    <2>3. QED
      BY <1>1, <1>2, <2>1, <2>2
  <1>3. ASSUME NEW i \in 1..Len(chain), ~(i < n) PROVE ~(chain[i] < t)
    <2>1. chain[n] <= chain[i] /\ chain[i] \in Int /\ chain[n] \in Int
      BY <1>1, <1>3 DEF Grows
    <2>2. QED
      BY <2>1
  <1>4. n \in 1..(Len(chain) + 1)
    BY <1>1
  <1>5. QED
    BY <1>2, <1>3, <1>4 DEF FirstFrom

LEMMA GuessKeeps == ASSUME SearchInv, Search!Guess, UNCHANGED chain PROVE SearchInv'
  <1> DEFINE n == Search!Predicted(run.target)
  <1>1. /\ run.at = "guess" /\ run.round = 0 /\ run.step = 1
        /\ run \in Searches /\ Grows(chain) /\ Len(chain) \in Nat /\ Len(chain) \in 1..MaxHead /\ run.target \in Int
        /\ chain[1] \in Int /\ chain[Len(chain)] \in Int
    BY DEF Search!Guess, SearchInv, SearchShapes, Searches, Grows
  <1>2. CASE run.target > chain[Len(chain)]
    <2>1. Search!Found(Len(chain) + 1)
      BY <1>2 DEF Search!Guess, Search!Latest, Search!Height
    <2>2. ASSUME NEW i \in 1..Len(chain) PROVE i < Len(chain) + 1 /\ chain[i] < run.target
      <3>1. chain[i] <= chain[Len(chain)] /\ chain[i] \in Int
        BY <1>1 DEF Grows
      <3>2. QED
        BY <1>1, <1>2, <3>1
    <2>3. FirstFrom(Len(chain) + 1, run.target)
      BY <1>1, <2>2 DEF FirstFrom
    <2>4. QED
      BY <2>1, <2>3, FoundIsKept
  <1>3. CASE run.target <= chain[1]
    <2>1. ~(run.target > chain[Len(chain)])
      BY <1>1, <1>3 DEF Grows
    <2>2. Search!Found(1)
      BY <1>3, <2>1 DEF Search!Guess, Search!Latest, Search!Height, Search!Oldest
    <2>3. FirstFrom(1, run.target)
      BY <1>1, <1>3, BoundaryIsFirst
    <2>4. QED
      BY <2>2, <2>3, FoundIsKept
  <1>4. CASE chain[1] < run.target /\ run.target <= chain[Len(chain)]
    <2>1. n \in 1..Len(chain)
      <3> DEFINE from == Search!Max({1, Len(chain) - Sample})
                 elapsed == chain[Len(chain)] - chain[from]
      <3>1. n = IF elapsed = 0 THEN Len(chain)
                ELSE Search!Max({1, Len(chain) - ((chain[Len(chain)] - run.target) * (Len(chain) - from)) \div elapsed})
        BY DEF Search!Predicted, Search!Latest, Search!Height
      <3>2. from \in 1..Len(chain)
        BY <1>1, SearchRounds, MaxOfTwo
      <3>3. elapsed \in Nat
        BY <1>1, <3>2 DEF Grows
      <3> HIDE DEF n, elapsed, from
      <3>4. CASE elapsed = 0
        BY <1>1, <3>1, <3>4
      <3>5. CASE elapsed # 0
        <4>1. PICK back : back = (chain[Len(chain)] - run.target) * (Len(chain) - from)
          OBVIOUS
        <4>2. chain[Len(chain)] - run.target \in Nat /\ Len(chain) - from \in Nat
          BY <1>1, <1>4, <3>2
        <4>3. back \in Nat
          BY <4>1, <4>2
        <4>4. PICK by : by = back \div elapsed
          OBVIOUS
        <4>5. by \in Nat
          BY <3>3, <3>5, <4>3, <4>4
        <4>6. n = Search!Max({1, Len(chain) - by})
          BY <3>1, <3>5, <4>1, <4>4
        <4>7. n = IF 1 <= Len(chain) - by THEN Len(chain) - by ELSE 1
          BY <1>1, <4>5, <4>6, MaxOfTwo
        <4>8. QED
          BY <1>1, <4>5, <4>7
      <3>6. QED
        BY <3>4, <3>5
    <2>2. run' = IF chain[n] >= run.target
                 THEN [run EXCEPT !.at = "down", !.guess = n, !.low = 1, !.high = n]
                 ELSE [run EXCEPT !.at = "up", !.guess = n, !.low = n, !.high = Len(chain)]
      BY <1>1, <1>4 DEF Search!Guess, Search!Latest, Search!Height, Search!Oldest
    <2> HIDE DEF n
    <2>3. chain[n] \in Int
      BY <1>1, <2>1 DEF Grows
    <2>4. 0 \in 0..(Rounds - 1) /\ 1 \in 1..Len(chain) /\ Search!Reach[0] = 1
      BY <1>1, SearchRounds, ReachIs
    <2>5. PICK at, l, h : /\ run' = [run EXCEPT !.at = at, !.guess = n, !.low = l, !.high = h]
                          /\ l \in Int /\ h \in Int
                          /\ \/ at = "down" /\ h = n /\ run.target <= chain[n]
                             \/ at = "up" /\ l = n /\ chain[n] < run.target
      <3>1. 1 \in Int /\ n \in Int /\ Len(chain) \in Int
        BY <1>1, <2>1
      <3>2. CASE chain[n] >= run.target
        BY <1>1, <2>2, <2>3, <3>1, <3>2
      <3>3. CASE ~(chain[n] >= run.target)
        <4>1. run' = [run EXCEPT !.at = "up", !.guess = n, !.low = n, !.high = Len(chain)]
          BY <2>2, <3>3
        <4>2. chain[n] < run.target
          BY <1>1, <2>3, <3>3
        <4>3. QED
          BY <3>1, <4>1, <4>2, Zenon
      <3>4. QED
        BY <3>2, <3>3
    <2>6. PICK a : a = [run EXCEPT !.at = at]
      OBVIOUS
    <2>7. PICK b : b = [a EXCEPT !.guess = n]
      OBVIOUS
    <2>8. PICK c : c = [b EXCEPT !.low = l]
      OBVIOUS
    <2>9. run' = [c EXCEPT !.high = h]
      BY <2>5, <2>6, <2>7, <2>8
    <2>10. a \in Searches /\ a.at = at /\ a.target = run.target /\ a.first = run.first /\ a.round = 0 /\ a.step = 1
      BY <1>1, <2>5, <2>6 DEF Searches
    <2>11. /\ b \in Searches /\ b.at = at /\ b.guess = n
           /\ b.target = run.target /\ b.first = run.first /\ b.round = 0 /\ b.step = 1
      <3>1. n \in Int
        BY <1>1, <2>1
      <3>2. QED
        BY <2>7, <2>10, <3>1 DEF Searches
    <2>12. /\ c \in Searches /\ c.at = at /\ c.guess = n /\ c.low = l
           /\ c.target = run.target /\ c.first = run.first /\ c.round = 0 /\ c.step = 1
      BY <2>5, <2>8, <2>11 DEF Searches
    <2>13. /\ run' \in Searches /\ run'.at = at /\ run'.guess = n /\ run'.low = l /\ run'.high = h
           /\ run'.target = run.target /\ run'.first = run.first /\ run'.round = 0 /\ run'.step = 1
      BY <2>5, <2>9, <2>12 DEF Searches
    <2>14. SearchShapes'
      BY <1>1, <2>13 DEF SearchShapes, Grows
    <2>15. FirstIsKept'
      BY <2>13 DEF SearchInv, FirstIsKept, FirstFrom
    <2>16. StepDoubles'
      BY <1>4, <2>1, <2>4, <2>13 DEF StepDoubles
    <2>17. CASE at = "down"
      <3>1. run'.high \in 1..run'.guess /\ run'.target <= chain[run'.high]
        BY <1>1, <2>1, <2>5, <2>13, <2>17
      <3>2. QED
        BY <2>13, <2>14, <2>15, <2>16, <2>17, <3>1 DEF SearchInv
    <2>18. CASE at = "up"
      <3>1. run'.low \in run'.guess..Len(chain) /\ chain[run'.low] < run'.target
        BY <1>1, <2>1, <2>5, <2>13, <2>18
      <3>2. QED
        BY <2>13, <2>14, <2>15, <2>16, <2>18, <3>1 DEF SearchInv
    <2>19. QED
      BY <2>5, <2>17, <2>18
  <1>5. QED
    BY <1>1, <1>2, <1>3, <1>4

\* Neighbourhood halves: a bracket that fits a whole chain takes less than Rounds.
LEMMA BisectionStarts ==
    ASSUME SearchInv, UNCHANGED chain, run' \in Searches, run'.at = "bisect", run'.round = 0,
           run'.target = run.target, run'.first = run.first,
           run'.low \in 1..Len(chain), run'.high \in 1..Len(chain),
           chain[run'.low] < run.target, run.target <= chain[run'.high]
    PROVE  SearchInv'
  <1>1. Grows(chain) /\ Len(chain) \in Nat /\ Len(chain) \in 1..MaxHead /\ run.target \in Int
    BY SMTT(20) DEF SearchInv, SearchShapes, Searches, Grows
  <1>2. SearchShapes'
    BY <1>1 DEF SearchShapes, Grows
  <1>3. FirstIsKept'
    BY DEF SearchInv, FirstIsKept, FirstFrom
  <1>4. PICK l \in 1..Len(chain), h \in 1..Len(chain) : l = run'.low /\ h = run'.high
    OBVIOUS
  <1>5. l < h
    <2>1. chain[l] \in Int /\ chain[h] \in Int
      BY <1>1 DEF Grows
    <2>2. CASE h <= l
      <3>1. chain[h] <= chain[l]
        BY <1>1, <2>2 DEF Grows
      <3>2. QED
        BY <1>1, <1>4, <2>1, <3>1
    <2>3. QED
      BY <1>1, <2>2
  <1>6. Brackets'
    BY <1>1, <1>4, <1>5 DEF Brackets
  <1>7. run'.round \in 0..(Rounds - 1)
    BY SearchRounds
  <1>8. run'.high - run'.low <= Search!Reach[(Rounds - 1) - run'.round]
    <2>1. PICK m : m = Search!Reach[Rounds - 1]
      OBVIOUS
    <2>2. Rounds - 1 \in 0..Rounds
      BY SearchRounds
    <2>3. m \in Nat /\ MaxHead <= m
      BY <2>1, <2>2, ReachIs, SearchRounds
    <2>4. h - l <= m
      BY <1>1, <1>5, <2>3, SearchRounds
    <2>5. (Rounds - 1) - run'.round = Rounds - 1
      BY SearchRounds
    <2>6. QED
      BY <1>4, <2>1, <2>4, <2>5
  <1>9. QED
    BY <1>2, <1>3, <1>6, <1>7, <1>8 DEF SearchInv

\* A step that is not that of the whole chain can be doubled, and the round counted.
LEMMA RoundKeeps ==
    ASSUME Grows(chain), run \in Searches, StepDoubles, run.step < Len(chain)
    PROVE  /\ run.round + 1 \in 0..(Rounds - 1)
           /\ Search!Min({Len(chain), 2 * run.step}) \in 1..Len(chain)
           /\ Search!Min({Len(chain), 2 * run.step}) \in {Len(chain), Search!Reach[run.round + 1]}
  <1>1. Len(chain) \in Nat /\ Len(chain) \in 1..MaxHead /\ run.step \in Nat /\ run.round \in Nat
    BY DEF Grows, StepDoubles
  <1>2. run.step = Search!Reach[run.round]
    BY <1>1 DEF StepDoubles
  <1>3. run.round # Rounds - 1
    BY <1>1, <1>2, SearchRounds
  <1>4. run.round + 1 \in 0..(Rounds - 1) /\ run.round + 1 \in 1..Rounds /\ (run.round + 1) - 1 = run.round
    <2>1. PICK k : k = run.round
      OBVIOUS
    <2>2. Rounds \in Nat \ {0} /\ k \in 0..(Rounds - 1) /\ k # Rounds - 1
      BY <1>3, <2>1, SearchRounds DEF StepDoubles
    <2>3. k + 1 \in 0..(Rounds - 1) /\ k + 1 \in 1..Rounds /\ (k + 1) - 1 = k
      BY <2>2
    <2>4. QED
      BY <2>1, <2>3
  <1>5. Search!Reach[run.round + 1] = 2 * run.step
    BY <1>2, <1>4, ReachIs
  <1>6. Search!Min({Len(chain), 2 * run.step}) = IF Len(chain) <= 2 * run.step THEN Len(chain) ELSE 2 * run.step
    BY <1>1, MinOfTwo
  <1>7. run.step >= 1
    BY DEF StepDoubles
  <1>8. QED
    BY <1>1, <1>4, <1>5, <1>6, <1>7

LEMMA DownKeeps == ASSUME SearchInv, Search!Down, UNCHANGED chain PROVE SearchInv'
  <1> DEFINE n == Search!Max({1, run.guess - run.step})
  <1>1. /\ run.at = "down" /\ run \in Searches /\ Grows(chain)
        /\ Len(chain) \in Nat /\ Len(chain) \in 1..MaxHead /\ run.target \in Int
        /\ StepDoubles /\ run.high \in 1..run.guess /\ run.target <= chain[run.high]
        /\ run.guess \in 1..Len(chain) /\ run.step \in 1..Len(chain) /\ run.round # Rounds
    BY SMTT(20), SearchRounds DEF Search!Down, SearchInv, SearchShapes, Searches, Grows, StepDoubles
  <1>2. /\ n \in 1..run.guess /\ n \in 1..Len(chain) /\ n \in Int
        /\ n # 1 => run.step < Len(chain)
    <2>1. 1 \in Int /\ run.guess - run.step \in Int
      BY <1>1
    <2>2. n = IF 1 <= run.guess - run.step THEN run.guess - run.step ELSE 1
      BY <2>1, MaxOfTwo
    <2> HIDE DEF n
    <2>3. QED
      BY <1>1, <2>2
  <1>3. IF chain[n] < run.target THEN run' = Search!Bisects([run EXCEPT !.low = n])
        ELSE IF n = 1 THEN Search!Found(1)
        ELSE run' = [Search!NextRound EXCEPT !.high = n]
    BY <1>1 DEF Search!Down
  <1> HIDE DEF n
  <1>4. chain[n] \in Int
    BY <1>1, <1>2 DEF Grows
  <1>5. CASE chain[n] < run.target
    <2>1. PICK a : a = [run EXCEPT !.low = n]
      OBVIOUS
    <2>2. PICK b : b = [a EXCEPT !.at = "bisect"]
      OBVIOUS
    <2>3. run' = [b EXCEPT !.round = 0]
      BY <1>3, <1>5, <2>1, <2>2 DEF Search!Bisects
    <2>4. a \in Searches /\ a.low = n /\ a.high = run.high /\ a.target = run.target /\ a.first = run.first
      BY <1>1, <1>2, <2>1 DEF Searches
    <2>5. /\ b \in Searches /\ b.at = "bisect"
          /\ b.low = n /\ b.high = run.high /\ b.target = run.target /\ b.first = run.first
      BY <2>2, <2>4 DEF Searches
    <2>6. /\ run' \in Searches /\ run'.at = "bisect" /\ run'.round = 0
          /\ run'.low = n /\ run'.high = run.high /\ run'.target = run.target /\ run'.first = run.first
      BY <2>3, <2>5 DEF Searches
    <2>7. run.high \in 1..Len(chain)
      BY <1>1
    <2>8. QED
      BY <1>1, <1>2, <1>5, <2>6, <2>7, BisectionStarts
  <1>6. CASE ~(chain[n] < run.target)
    <2>1. n # 1
      BY <1>1, <1>6 DEF StepDoubles
    <2>2. run' = [Search!NextRound EXCEPT !.high = n]
      BY <1>3, <1>6, <2>1
    <2>3. PICK r : r = run.round + 1
      OBVIOUS
    <2>4. PICK s : s = Search!Min({Len(chain), 2 * run.step})
      OBVIOUS
    <2>5. r \in 0..(Rounds - 1) /\ s \in 1..Len(chain) /\ s \in {Len(chain), Search!Reach[r]}
      BY <1>1, <1>2, <2>1, <2>3, <2>4, RoundKeeps
    <2>6. PICK a : a = [run EXCEPT !.round = r]
      OBVIOUS
    <2>7. PICK b : b = [a EXCEPT !.step = s]
      OBVIOUS
    <2>8. run' = [b EXCEPT !.high = n]
      BY <2>2, <2>3, <2>4, <2>6, <2>7 DEF Search!NextRound, Search!Height
    <2>9. r \in Int /\ s \in Int
      BY <1>1, <2>5, SearchRounds
    <2>10. /\ a \in Searches /\ a.at = "down" /\ a.round = r /\ a.guess = run.guess
           /\ a.target = run.target /\ a.first = run.first
      BY <1>1, <2>6, <2>9 DEF Searches
    <2>11. /\ b \in Searches /\ b.at = "down" /\ b.round = r /\ b.step = s /\ b.guess = run.guess
           /\ b.target = run.target /\ b.first = run.first
      BY <2>7, <2>9, <2>10 DEF Searches
    <2>12. /\ run' \in Searches /\ run'.at = "down" /\ run'.round = r /\ run'.step = s /\ run'.high = n
           /\ run'.guess = run.guess /\ run'.target = run.target /\ run'.first = run.first
      BY <1>2, <2>8, <2>11 DEF Searches
    <2>13. SearchShapes'
      BY <1>1, <2>12 DEF SearchShapes, Grows
    <2>14. FirstIsKept'
      BY <2>12 DEF SearchInv, FirstIsKept, FirstFrom
    <2>15. StepDoubles'
      BY <1>1, <2>5, <2>12 DEF StepDoubles
    <2>16. run'.high \in 1..run'.guess /\ run'.target <= chain[run'.high]
      BY <1>1, <1>2, <1>4, <1>6, <2>12
    <2>17. QED
      BY <2>12, <2>13, <2>14, <2>15, <2>16 DEF SearchInv
  <1>7. QED
    BY <1>5, <1>6

LEMMA UpKeeps == ASSUME SearchInv, Search!Up, UNCHANGED chain PROVE SearchInv'
  <1> DEFINE n == Search!Min({Len(chain), run.guess + run.step})
  <1>1. /\ run.at = "up" /\ run \in Searches /\ Grows(chain)
        /\ Len(chain) \in Nat /\ Len(chain) \in 1..MaxHead /\ run.target \in Int
        /\ StepDoubles /\ run.low \in run.guess..Len(chain) /\ chain[run.low] < run.target
        /\ run.guess \in 1..Len(chain) /\ run.step \in 1..Len(chain) /\ run.round # Rounds
    BY SMTT(20), SearchRounds DEF Search!Up, SearchInv, SearchShapes, Searches, Grows, StepDoubles
  <1>2. /\ n \in run.guess..Len(chain) /\ n \in 1..Len(chain) /\ n \in Int
        /\ n # Len(chain) => run.step < Len(chain)
    <2>1. Len(chain) \in Int /\ run.guess + run.step \in Int
      BY <1>1
    <2>2. n = IF Len(chain) <= run.guess + run.step THEN Len(chain) ELSE run.guess + run.step
      BY <2>1, MinOfTwo
    <2> HIDE DEF n
    <2>3. QED
      BY <1>1, <2>2
  <1>3. IF chain[n] >= run.target THEN run' = Search!Bisects([run EXCEPT !.high = n])
        ELSE IF n = Len(chain) THEN Search!Fails
        ELSE run' = [Search!NextRound EXCEPT !.low = n]
    BY SMTT(20), <1>1 DEF Search!Up, Search!Height
  <1> HIDE DEF n
  <1>4. chain[n] \in Int
    BY <1>1, <1>2 DEF Grows
  <1>5. CASE chain[n] >= run.target
    <2>1. PICK a : a = [run EXCEPT !.high = n]
      OBVIOUS
    <2>2. PICK b : b = [a EXCEPT !.at = "bisect"]
      OBVIOUS
    <2>3. run' = [b EXCEPT !.round = 0]
      BY <1>3, <1>5, <2>1, <2>2 DEF Search!Bisects
    <2>4. a \in Searches /\ a.high = n /\ a.low = run.low /\ a.target = run.target /\ a.first = run.first
      BY <1>1, <1>2, <2>1 DEF Searches
    <2>5. /\ b \in Searches /\ b.at = "bisect"
          /\ b.high = n /\ b.low = run.low /\ b.target = run.target /\ b.first = run.first
      BY <2>2, <2>4 DEF Searches
    <2>6. /\ run' \in Searches /\ run'.at = "bisect" /\ run'.round = 0
          /\ run'.high = n /\ run'.low = run.low /\ run'.target = run.target /\ run'.first = run.first
      BY <2>3, <2>5 DEF Searches
    <2>7. run.low \in 1..Len(chain)
      BY <1>1
    <2>8. run.target <= chain[n]
      BY <1>1, <1>4, <1>5
    <2>9. QED
      BY <1>1, <1>2, <2>6, <2>7, <2>8, BisectionStarts
  <1>6. CASE ~(chain[n] >= run.target)
    <2>1. n # Len(chain)
      BY <1>1, <1>4, <1>6 DEF StepDoubles
    <2>2. run' = [Search!NextRound EXCEPT !.low = n]
      BY <1>3, <1>6, <2>1
    <2>3. PICK r : r = run.round + 1
      OBVIOUS
    <2>4. PICK s : s = Search!Min({Len(chain), 2 * run.step})
      OBVIOUS
    <2>5. r \in 0..(Rounds - 1) /\ s \in 1..Len(chain) /\ s \in {Len(chain), Search!Reach[r]}
      BY <1>1, <1>2, <2>1, <2>3, <2>4, RoundKeeps
    <2>6. PICK a : a = [run EXCEPT !.round = r]
      OBVIOUS
    <2>7. PICK b : b = [a EXCEPT !.step = s]
      OBVIOUS
    <2>8. run' = [b EXCEPT !.low = n]
      BY <2>2, <2>3, <2>4, <2>6, <2>7 DEF Search!NextRound, Search!Height
    <2>9. r \in Int /\ s \in Int
      BY <1>1, <2>5, SearchRounds
    <2>10. /\ a \in Searches /\ a.at = "up" /\ a.round = r /\ a.guess = run.guess
           /\ a.target = run.target /\ a.first = run.first
      BY <1>1, <2>6, <2>9 DEF Searches
    <2>11. /\ b \in Searches /\ b.at = "up" /\ b.round = r /\ b.step = s /\ b.guess = run.guess
           /\ b.target = run.target /\ b.first = run.first
      BY <2>7, <2>9, <2>10 DEF Searches
    <2>12. /\ run' \in Searches /\ run'.at = "up" /\ run'.round = r /\ run'.step = s /\ run'.low = n
           /\ run'.guess = run.guess /\ run'.target = run.target /\ run'.first = run.first
      BY <1>2, <2>8, <2>11 DEF Searches
    <2>13. SearchShapes'
      BY <1>1, <2>12 DEF SearchShapes, Grows
    <2>14. FirstIsKept'
      BY <2>12 DEF SearchInv, FirstIsKept, FirstFrom
    <2>15. StepDoubles'
      BY <1>1, <2>5, <2>12 DEF StepDoubles
    <2>16. run'.low \in run'.guess..Len(chain) /\ chain[run'.low] < run'.target
      BY <1>1, <1>2, <1>4, <1>6, <2>12
    <2>17. QED
      BY <2>12, <2>13, <2>14, <2>15, <2>16 DEF SearchInv
  <1>7. QED
    BY <1>5, <1>6

LEMMA BisectKeeps == ASSUME SearchInv, Search!Bisect, UNCHANGED chain PROVE SearchInv'
  <1>1. PICK l, h : l = run.low /\ h = run.high
    OBVIOUS
  <1>2. PICK n : n = l + (h - l) \div 2
    OBVIOUS
  <1>3. /\ run.at = "bisect" /\ run \in Searches /\ Grows(chain)
        /\ Len(chain) \in Nat /\ Len(chain) \in 1..MaxHead /\ run.target \in Int
        /\ l \in 1..Len(chain) /\ h \in 1..Len(chain) /\ l < h
        /\ chain[l] < run.target /\ run.target <= chain[h]
        /\ run.round \in 0..(Rounds - 1) /\ h - l <= Search!Reach[(Rounds - 1) - run.round]
    BY <1>1 DEF Search!Bisect, SearchInv, SearchShapes, Searches, Grows, Brackets
  <1>4. IF h - l <= 1 THEN Search!Found(h)
        ELSE IF run.round = Rounds THEN Search!Fails
        ELSE IF chain[n] >= run.target THEN run' = [run EXCEPT !.high = n, !.round = @ + 1]
        ELSE run' = [run EXCEPT !.low = n, !.round = @ + 1]
    BY <1>1, <1>2 DEF Search!Bisect
  <1>5. CASE h - l <= 1
    <2>1. h - 1 = l /\ h > 1
      BY <1>3, <1>5
    <2>2. FirstFrom(h, run.target)
      BY <1>3, <2>1, BoundaryIsFirst
    <2>3. QED
      BY <1>4, <1>5, <2>2, FoundIsKept
  <1>6. CASE ~(h - l <= 1)
    <2>1. n \in 1..Len(chain) /\ l < n /\ n < h /\ n \in Int
      BY <1>2, <1>3, <1>6
    <2>2. chain[n] \in Int
      BY <1>3, <2>1 DEF Grows
    <2>3. PICK r : r = run.round + 1
      OBVIOUS
    <2>4. run.round # Rounds - 1
      <3>1. CASE run.round = Rounds - 1
        <4>1. (Rounds - 1) - run.round = 0
          BY <3>1, SearchRounds
        <4>2. h - l <= 1
          BY <1>3, <4>1, ReachIs
        <4>3. QED
          BY <1>6, <4>2
      <3>2. QED
        BY <3>1
    <2>5. r \in 0..(Rounds - 1) /\ r \in Int /\ run.round # Rounds
      BY SMTT(20), <1>3, <2>3, <2>4, SearchRounds
    <2>6. PICK m : m = Search!Reach[(Rounds - 1) - r]
      OBVIOUS
    <2>7. h - l <= 2 * m /\ m \in Nat
      <3>1. (Rounds - 1) - run.round \in 1..Rounds /\ ((Rounds - 1) - run.round) - 1 = (Rounds - 1) - r
            /\ (Rounds - 1) - r \in 0..Rounds
        <4>1. PICK k : k = run.round
          OBVIOUS
        <4>2. Rounds \in Nat \ {0} /\ k \in 0..(Rounds - 1) /\ r = k + 1 /\ r \in 0..(Rounds - 1)
          BY <1>3, <2>3, <2>5, <4>1, SearchRounds
        <4>3. (Rounds - 1) - k \in 1..Rounds /\ ((Rounds - 1) - k) - 1 = (Rounds - 1) - r
              /\ (Rounds - 1) - r \in 0..Rounds
          BY <4>2
        <4>4. QED
          BY <4>1, <4>3
      <3>2. Search!Reach[(Rounds - 1) - run.round] = 2 * m
        BY <2>6, <3>1, ReachIs
      <3>3. QED
        BY <1>3, <2>6, <3>1, <3>2, ReachIs
    <2>8. n - l <= m /\ h - n <= m
      BY <1>2, <1>3, <2>1, <2>7
    <2>9. PICK low, high :
            /\ run' \in Searches /\ run'.at = "bisect" /\ run'.round = r /\ run'.low = low /\ run'.high = high
            /\ run'.target = run.target /\ run'.first = run.first
            /\ \/ low = l /\ high = n /\ run.target <= chain[n]
               \/ low = n /\ high = h /\ chain[n] < run.target
      <3>1. CASE chain[n] >= run.target
        <4>1. PICK a : a = [run EXCEPT !.high = n]
          OBVIOUS
        <4>2. run' = [a EXCEPT !.round = r]
          BY <1>4, <1>6, <2>3, <2>5, <3>1, <4>1 DEF Searches
        <4>3. /\ a \in Searches /\ a.at = "bisect" /\ a.low = l /\ a.high = n
              /\ a.target = run.target /\ a.first = run.first
          BY <1>1, <1>3, <2>1, <4>1 DEF Searches
        <4>4. /\ run' \in Searches /\ run'.at = "bisect" /\ run'.round = r /\ run'.low = l /\ run'.high = n
              /\ run'.target = run.target /\ run'.first = run.first
          BY <2>5, <4>2, <4>3 DEF Searches
        <4>5. run.target <= chain[n]
          BY <1>3, <2>2, <3>1
        <4>6. QED
          BY <4>4, <4>5
      <3>2. CASE ~(chain[n] >= run.target)
        <4>1. PICK a : a = [run EXCEPT !.low = n]
          OBVIOUS
        <4>2. run' = [a EXCEPT !.round = r]
          BY <1>4, <1>6, <2>3, <2>5, <3>2, <4>1 DEF Searches
        <4>3. /\ a \in Searches /\ a.at = "bisect" /\ a.low = n /\ a.high = h
              /\ a.target = run.target /\ a.first = run.first
          BY <1>1, <1>3, <2>1, <4>1 DEF Searches
        <4>4. /\ run' \in Searches /\ run'.at = "bisect" /\ run'.round = r /\ run'.low = n /\ run'.high = h
              /\ run'.target = run.target /\ run'.first = run.first
          BY <2>5, <4>2, <4>3 DEF Searches
        <4>5. chain[n] < run.target
          BY <1>3, <2>2, <3>2
        <4>6. QED
          BY <4>4, <4>5
      <3>3. QED
        BY <3>1, <3>2
    <2>10. /\ low \in 1..Len(chain) /\ high \in 1..Len(chain) /\ low < high /\ high - low <= m
           /\ chain[low] < run.target /\ run.target <= chain[high]
      BY <1>3, <2>1, <2>8, <2>9
    <2>11. SearchShapes'
      BY <1>3, <2>9 DEF SearchShapes, Grows
    <2>12. FirstIsKept'
      BY <2>9 DEF SearchInv, FirstIsKept, FirstFrom
    <2>13. Brackets'
      BY <2>9, <2>10 DEF Brackets
    <2>14. run'.round \in 0..(Rounds - 1) /\ run'.high - run'.low <= Search!Reach[(Rounds - 1) - run'.round]
      BY <2>5, <2>6, <2>9, <2>10
    <2>15. QED
      BY <2>9, <2>11, <2>12, <2>13, <2>14 DEF SearchInv
  <1>7. QED
    BY <1>5, <1>6

LEMMA SearchStep == SearchInv /\ [Search!Next]_(Search!vars) => SearchInv'
  <1> SUFFICES ASSUME SearchInv, [Search!Next]_(Search!vars) PROVE SearchInv'
    OBVIOUS
  <1>1. CASE Search!Next
    BY <1>1, GuessKeeps, DownKeeps, UpKeeps, BisectKeeps DEF Search!Next
  <1>2. CASE UNCHANGED Search!vars
    BY <1>2 DEF Search!vars, SearchInv, SearchShapes, FirstIsKept, FirstFrom, StepDoubles, Brackets, Grows
  <1>3. QED
    BY <1>1, <1>2

LEMMA SearchHolds == SearchInv => Search!RangeIsExact
  <1> SUFFICES ASSUME SearchInv, run.at = "done"
               PROVE  {n \in 1..Search!Height : chain[n] = run.target - 1} = run.first..run.last
    BY DEF SearchInv, Search!RangeIsExact
  <1>1. /\ Grows(chain) /\ Len(chain) \in Nat /\ run.target \in Int /\ run.first \in Nat /\ run.last \in Int
        /\ FirstFrom(run.first, run.target - 1) /\ FirstFrom(run.last + 1, run.target)
    BY DEF SearchInv, SearchShapes, Searches, Grows, FirstIsKept
  <1>2. ASSUME NEW n \in 1..Len(chain) PROVE chain[n] = run.target - 1 <=> n \in run.first..run.last
    <2>1. chain[n] \in Int
      BY <1>1 DEF Grows
    <2>2. (n < run.first <=> chain[n] < run.target - 1) /\ (n < run.last + 1 <=> chain[n] < run.target)
      BY <1>1 DEF FirstFrom
    <2>3. QED
      BY <1>1, <2>1, <2>2
  <1>3. run.first..run.last \subseteq 1..Len(chain)
    BY <1>1 DEF FirstFrom
  <1>4. QED
    BY <1>2, <1>3 DEF Search!Height

------------------------------------------------------------------------------
(* HistoryReadQueue. *)
Priorities == {"foreground", "background"}
QueueStates ==
    [known : SUBSET Keys, pending : Seq(Keys), running : SUBSET Keys, priority : [Keys -> Priorities]]
\* Jobs that wait are known, once, and do not run; at most one of the background runs.
Waiting(q) ==
    /\ \A i \in DOMAIN q.pending : q.pending[i] \in q.known \ q.running
    /\ \A i, j \in DOMAIN q.pending : q.pending[i] = q.pending[j] => i = j
Sound(q) ==
    /\ q \in QueueStates /\ q.running \subseteq q.known
    /\ IsFiniteSet(q.running) /\ Cardinality(q.running) <= MaxConcurrent
    /\ Waiting(q)
    /\ \A k, l \in Queue!Background(q) : k = l
Served(q) ==
    (\E i \in DOMAIN q.pending : q.priority[q.pending[i]] = "foreground")
      => Cardinality(q.running) = MaxConcurrent
QueueInv == wants \in [Charts -> Keys \cup {NoKey}] /\ Sound(jobs) /\ Served(jobs)

LEMMA QueueBounds == NoKey \notin Keys /\ MaxConcurrent \in Nat \ {0}
  BY SiteAssumption DEF Queue!HistoryReadQueueAssumption

LEMMA QueueCounts == \A S : Queue!Cardinality(S) = Cardinality(S)
  BY DEF Queue!Cardinality, Cardinality

LEMMA QueueHolds == QueueInv => Queue!ForegroundIsServed
  <1> SUFFICES ASSUME QueueInv PROVE Queue!ForegroundIsServed
    OBVIOUS
  <1>1. /\ IsFiniteSet(jobs.running) /\ Queue!Background(jobs) \subseteq jobs.running
        /\ \A k, l \in Queue!Background(jobs) : k = l
    BY DEF QueueInv, Sound, Queue!Background
  <1>2. Cardinality(Queue!Background(jobs)) <= 1
    <2>1. CASE Queue!Background(jobs) = {}
      BY <2>1, FS_EmptySet
    <2>2. CASE Queue!Background(jobs) # {}
      <3>1. PICK k : Queue!Background(jobs) = {k}
        BY <1>1, <2>2
      <3>2. Cardinality(Queue!Background(jobs)) = 1
        BY <3>1, FS_Singleton
      <3>3. QED
        BY <3>2
    <2>3. QED
      BY <2>1, <2>2
  <1>3. QED
    BY <1>2, QueueCounts DEF QueueInv, Served, Queue!ForegroundIsServed

\* A sequence without its i-th element.
LEMMA WithoutOne ==
    ASSUME NEW S, NEW s \in Seq(S), NEW i \in 1..Len(s)
    PROVE  /\ Queue!RemoveAt(s, i) \in Seq(S)
           /\ DOMAIN Queue!RemoveAt(s, i) = 1..(Len(s) - 1)
           /\ \A j \in 1..(Len(s) - 1) : Queue!RemoveAt(s, i)[j] = IF j < i THEN s[j] ELSE s[j + 1]
  <1>1. PICK n : n = Len(s)
    OBVIOUS
  <1>2. n \in Nat /\ i \in 1..n /\ s \in [1..n -> S]
    BY <1>1, LenProperties
  <1>3. PICK a : a = SubSeq(s, 1, i - 1)
    OBVIOUS
  <1>4. PICK b : b = SubSeq(s, i + 1, n)
    OBVIOUS
  <1>5. a \in Seq(S) /\ Len(a) = i - 1 /\ \A j \in 1..(i - 1) : a[j] = s[j]
    <2>1. \A j \in 1..(i - 1) : s[j] \in S
      BY <1>2
    <2>2. 1 \in Int /\ i - 1 \in Int
      BY <1>2
    <2>3. /\ a \in Seq(S) /\ Len(a) = IF 1 <= i - 1 THEN (i - 1) - 1 + 1 ELSE 0
          /\ \A j \in 1..((i - 1) - 1 + 1) : a[j] = s[1 + j - 1]
      BY <1>3, <2>1, <2>2, SubSeqProperties
    <2>4. QED
      BY <1>2, <2>3
  <1>6. b \in Seq(S) /\ Len(b) = n - i /\ \A j \in 1..(n - i) : b[j] = s[i + j]
    <2>1. \A j \in (i + 1)..n : s[j] \in S
      BY <1>2
    <2>2. i + 1 \in Int /\ n \in Int
      BY <1>2
    <2>3. /\ b \in Seq(S) /\ Len(b) = IF i + 1 <= n THEN n - (i + 1) + 1 ELSE 0
          /\ \A j \in 1..(n - (i + 1) + 1) : b[j] = s[(i + 1) + j - 1]
      BY <1>4, <2>1, <2>2, SubSeqProperties
    <2>4. QED
      BY <1>2, <2>3
  <1>7. PICK t : t = a \o b
    OBVIOUS
  <1>8. t \in Seq(S) /\ Len(t) = n - 1
    BY <1>2, <1>5, <1>6, <1>7, ConcatProperties
  <1>9. \A j \in 1..(n - 1) : t[j] = IF j < i THEN s[j] ELSE s[j + 1]
    <2> SUFFICES ASSUME NEW j \in 1..(n - 1) PROVE t[j] = IF j < i THEN s[j] ELSE s[j + 1]
      OBVIOUS
    <2>1. t[j] = IF j <= Len(a) THEN a[j] ELSE b[j - Len(a)]
      BY <1>2, <1>5, <1>6, <1>7
    <2>2. QED
      BY <1>2, <1>5, <1>6, <2>1
  <1>10. DOMAIN t = 1..(n - 1)
    BY <1>8, LenProperties
  <1>11. Queue!RemoveAt(s, i) = t
    BY <1>1, <1>3, <1>4, <1>7 DEF Queue!RemoveAt
  <1>12. QED
    BY <1>1, <1>8, <1>9, <1>10, <1>11

\* What waits after one of those that waited is taken out.
Remains(q, i, p) ==
    /\ p \in Seq(Keys)
    /\ \A j \in DOMAIN p : p[j] \in (q.known \ q.running) \ {q.pending[i]}
    /\ \A j, m \in DOMAIN p : p[j] = p[m] => j = m
LEMMA WaitingWithoutOne ==
    ASSUME NEW q, q \in QueueStates, Waiting(q), NEW i, i \in DOMAIN q.pending
    PROVE  Remains(q, i, Queue!RemoveAt(q.pending, i))
  <1>0. PICK p : p = Queue!RemoveAt(q.pending, i)
    OBVIOUS
  <1>1. PICK s : s = q.pending
    OBVIOUS
  <1>2. PICK n : n = Len(s)
    OBVIOUS
  <1>3. s \in Seq(Keys) /\ n \in Nat /\ DOMAIN s = 1..n /\ i \in 1..n
    BY <1>1, <1>2, LenProperties DEF QueueStates
  <1>4. /\ p \in Seq(Keys) /\ DOMAIN p = 1..(n - 1)
        /\ \A j \in 1..(n - 1) : p[j] = IF j < i THEN s[j] ELSE s[j + 1]
    BY <1>0, <1>1, <1>2, <1>3, WithoutOne
  <1>5. \A j \in 1..n, m \in 1..n : s[j] = s[m] => j = m
    BY <1>1, <1>3 DEF Waiting
  <1>6. \A j \in 1..n : s[j] \in q.known \ q.running
    BY <1>1, <1>3 DEF Waiting
  <1>7. ASSUME NEW j \in 1..(n - 1)
        PROVE  \E m \in 1..n : m # i /\ p[j] = s[m]
    <2>1. CASE j < i
      BY <1>3, <1>4, <2>1
    <2>2. CASE ~(j < i)
      <3>1. j + 1 \in 1..n /\ j + 1 # i /\ p[j] = s[j + 1]
        BY <1>3, <1>4, <2>2
      <3>2. QED
        BY <3>1
    <2>3. QED
      BY <2>1, <2>2
  <1>8. \A j \in 1..(n - 1) : p[j] \in (q.known \ q.running) \ {s[i]}
    BY <1>3, <1>5, <1>6, <1>7
  <1>9. ASSUME NEW j \in 1..(n - 1), NEW m \in 1..(n - 1), p[j] = p[m] PROVE j = m
    <2>1. PICK a : a = IF j < i THEN j ELSE j + 1
      OBVIOUS
    <2>2. PICK b : b = IF m < i THEN m ELSE m + 1
      OBVIOUS
    <2>3. a \in 1..n /\ b \in 1..n /\ p[j] = s[a] /\ p[m] = s[b]
      BY <1>3, <1>4, <2>1, <2>2
    <2>4. a = b
      BY <1>5, <1>9, <2>3
    <2>5. QED
      BY <1>3, <2>1, <2>2, <2>4
  <1>10. QED
    BY <1>0, <1>1, <1>3, <1>4, <1>8, <1>9 DEF Remains

LEMMA MinIsIn == ASSUME NEW S \in SUBSET Nat, S # {} PROVE Queue!Min(S) \in S
  BY LeastExists DEF Queue!Min

\* A job that starts takes a slot, and leaves the others as they were.
LEMMA StartKeeps ==
    ASSUME NEW q, Sound(q), Cardinality(q.running) < MaxConcurrent, Queue!Starts(q) # {}
    PROVE  Sound(Queue!Start(q)) /\ Cardinality(Queue!Start(q).running) = Cardinality(q.running) + 1
  <1>1. PICK i : i = Queue!Min(Queue!Starts(q))
    OBVIOUS
  <1>2. /\ q \in QueueStates /\ q.running \subseteq q.known /\ Waiting(q)
        /\ IsFiniteSet(q.running) /\ Cardinality(q.running) \in Nat
        /\ \A k, l \in Queue!Background(q) : k = l
    BY FS_CardinalityType DEF Sound
  <1>3. q.pending \in Seq(Keys) /\ DOMAIN q.pending \subseteq Nat
    BY <1>2, LenProperties DEF QueueStates
  <1>4. Queue!Starts(q) \subseteq DOMAIN q.pending
    BY DEF Queue!Starts, Queue!Eligible
  <1>5. i \in Queue!Starts(q) /\ i \in DOMAIN q.pending
    BY <1>1, <1>3, <1>4, MinIsIn
  <1>6. PICK k : k = q.pending[i]
    OBVIOUS
  <1>7. k \in Keys /\ k \in q.known /\ k \notin q.running
    BY <1>2, <1>5, <1>6 DEF Waiting, QueueStates
  <1>8. PICK p : p = Queue!RemoveAt(q.pending, i)
    OBVIOUS
  <1>9. /\ p \in Seq(Keys)
        /\ \A j \in DOMAIN p : p[j] \in (q.known \ q.running) \ {k}
        /\ \A j, m \in DOMAIN p : p[j] = p[m] => j = m
    <2>0. q \in QueueStates /\ Waiting(q) /\ i \in DOMAIN q.pending
      BY <1>2, <1>5
    <2>1. Remains(q, i, p)
      BY <2>0, <1>8, WaitingWithoutOne
    <2>2. QED
      BY <1>6, <2>1 DEF Remains
  <1>10. PICK r : r = Queue!Start(q)
    OBVIOUS
  <1>11. r = [q EXCEPT !.pending = p, !.running = q.running \cup {k}]
    BY <1>1, <1>6, <1>8, <1>10 DEF Queue!Start
  <1>12. /\ r \in QueueStates /\ r.known = q.known /\ r.pending = p /\ r.running = q.running \cup {k}
         /\ r.priority = q.priority
    BY <1>2, <1>7, <1>9, <1>11 DEF QueueStates
  <1>13. IsFiniteSet(r.running) /\ Cardinality(r.running) = Cardinality(q.running) + 1
    <2>1. IsFiniteSet(q.running) /\ k \notin q.running
      BY <1>2, <1>7
    <2>2. IsFiniteSet(q.running \cup {k}) /\ Cardinality(q.running \cup {k}) = Cardinality(q.running) + 1
      BY <2>1, FS_AddElement
    <2>3. QED
      BY <1>12, <2>2
  <1>14. Waiting(r)
    BY <1>9, <1>12 DEF Waiting
  <1>15. \A a, b \in Queue!Background(r) : a = b
    <2>1. CASE q.priority[k] = "background"
      <3>1. i \in Queue!Eligible(q, "background")
        BY <1>5, <1>6, <2>1 DEF Queue!Starts, Queue!Eligible
      <3>2. Queue!Background(q) = {}
        BY <3>1 DEF Queue!Eligible
      <3>3. Queue!Background(r) \subseteq {k}
        BY <1>12, <3>2 DEF Queue!Background
      <3>4. QED
        BY <3>3
    <2>2. CASE q.priority[k] # "background"
      <3>1. Queue!Background(r) \subseteq Queue!Background(q)
        BY <1>12, <2>2 DEF Queue!Background
      <3>2. QED
        BY <1>2, <3>1
    <2>3. QED
      BY <2>1, <2>2
  <1>16. Cardinality(r.running) <= MaxConcurrent
    BY <1>2, <1>13, QueueBounds
  <1>17. Sound(r)
    BY <1>2, <1>7, <1>12, <1>13, <1>14, <1>15, <1>16 DEF Sound
  <1>18. QED
    BY <1>10, <1>13, <1>17

\* One turn of the pump.
Turn(r) ==
    IF Queue!Cardinality(r.running) < MaxConcurrent /\ Queue!Starts(r) # {} THEN Queue!Start(r) ELSE r
Done(r, n) == Cardinality(r.running) >= n \/ Queue!Starts(r) = {} \/ Cardinality(r.running) = MaxConcurrent

LEMMA TurnKeeps ==
    ASSUME NEW q, Sound(q), NEW n \in Nat, Done(q, n)
    PROVE  Sound(Turn(q)) /\ Done(Turn(q), n + 1)
  <1>1. Cardinality(q.running) \in Nat /\ Cardinality(q.running) <= MaxConcurrent
    BY FS_CardinalityType DEF Sound
  <1>2. CASE Cardinality(q.running) < MaxConcurrent /\ Queue!Starts(q) # {}
    <2>1. Turn(q) = Queue!Start(q)
      BY <1>2, QueueCounts DEF Turn
    <2>2. Sound(Queue!Start(q)) /\ Cardinality(Queue!Start(q).running) = Cardinality(q.running) + 1
      BY <1>2, StartKeeps
    <2>3. Cardinality(q.running) >= n
      BY <1>1, <1>2, QueueBounds DEF Done
    <2>4. QED
      BY <1>1, <2>1, <2>2, <2>3 DEF Done
  <1>3. CASE ~(Cardinality(q.running) < MaxConcurrent /\ Queue!Starts(q) # {})
    <2>1. Turn(q) = q
      BY <1>3, QueueCounts DEF Turn
    <2>2. Queue!Starts(q) = {} \/ Cardinality(q.running) = MaxConcurrent
      BY <1>1, <1>3, QueueBounds
    <2>3. QED
      BY <2>1, <2>2 DEF Done
  <1>4. QED
    BY <1>2, <1>3

\* What a recursion that takes a turn each time comes to.
LEMMA TurnsKeep ==
    ASSUME NEW q, Sound(q), NEW f, f[0] = q, \A n \in 1..MaxConcurrent : f[n] = Turn(f[n - 1])
    PROVE  \A n \in 0..MaxConcurrent : Sound(f[n]) /\ Done(f[n], n)
  <1> DEFINE Q == {n \in Nat : n <= MaxConcurrent => Sound(f[n]) /\ Done(f[n], n)}
  <1>1. 0 \in Q
    <2>1. Cardinality(q.running) \in Nat
      BY FS_CardinalityType DEF Sound
    <2>2. QED
      BY <2>1 DEF Done
  <1>2. ASSUME NEW n \in Nat, n \in Q PROVE n + 1 \in Q
    <2>1. CASE n + 1 <= MaxConcurrent
      <3>1. n + 1 \in 1..MaxConcurrent /\ (n + 1) - 1 = n /\ n <= MaxConcurrent
        BY <2>1, QueueBounds
      <3>2. f[n + 1] = Turn(f[n])
        BY <3>1
      <3>3. Sound(f[n]) /\ Done(f[n], n)
        BY <1>2, <3>1
      <3>4. QED
        BY <3>2, <3>3, TurnKeeps
    <2>2. QED
      BY <2>1
  <1> HIDE DEF Q
  <1>3. \A n \in Nat : n \in Q
    BY <1>1, <1>2, Induction
  <1>4. QED
    BY <1>3, QueueBounds DEF Q

Pumped(q, f) == f = [n \in 0..MaxConcurrent |-> IF n = 0 THEN q ELSE Turn(f[n - 1])]

LEMMA PumpIs == \A q : Queue!Pump(q) = (CHOOSE f : Pumped(q, f))[MaxConcurrent]
  BY DEF Queue!Pump, Pumped, Turn

LEMMA PumpKeeps == ASSUME NEW q, Sound(q) PROVE Sound(Queue!Pump(q)) /\ Served(Queue!Pump(q))
  <1> DEFINE s == [r \in {r \in QueueStates : Sound(r)} |-> Turn(r)]
  <1>0. MaxConcurrent \in Nat /\ MaxConcurrent \in 0..MaxConcurrent
    BY QueueBounds
  <1>1. PICK g : Iterated(q, s, MaxConcurrent, g)
    BY <1>0, IterationExists
  <1>2. g[0] = q /\ \A n \in 1..MaxConcurrent : g[n] = s[g[n - 1]]
    <2> HIDE DEF s
    <2>1. QED
      BY <1>0, <1>1, IterationIs
  <1>3. \A n \in 0..MaxConcurrent : Sound(g[n])
    <2> DEFINE Q == {n \in Nat : n <= MaxConcurrent => Sound(g[n])}
    <2>1. 0 \in Q
      BY <1>2
    <2>2. ASSUME NEW n \in Nat, n \in Q PROVE n + 1 \in Q
      <3>1. CASE n + 1 <= MaxConcurrent
        <4>1. n + 1 \in 1..MaxConcurrent /\ (n + 1) - 1 = n /\ n <= MaxConcurrent
          BY <3>1, QueueBounds
        <4>2. g[n + 1] = s[g[n]] /\ Sound(g[n])
          BY <1>2, <2>2, <4>1
        <4>3. g[n + 1] = Turn(g[n])
          BY <4>2 DEF Sound
        <4>4. Cardinality(g[n].running) \in Nat
          BY <4>2, FS_CardinalityType DEF Sound
        <4>5. Done(g[n], 0) /\ 0 \in Nat
          BY <4>4 DEF Done
        <4>6. QED
          BY <4>2, <4>3, <4>5, TurnKeeps
      <3>2. QED
        BY <3>1
    <2> HIDE DEF Q
    <2>3. \A n \in Nat : n \in Q
      BY <2>1, <2>2, Induction
    <2>4. QED
      BY <2>3, <1>0 DEF Q
  <1>4. Pumped(q, g)
    <2>1. ASSUME NEW n \in 1..MaxConcurrent PROVE g[n] = Turn(g[n - 1])
      <3>1. n - 1 \in 0..MaxConcurrent
        BY <1>0
      <3>2. Sound(g[n - 1]) /\ g[n - 1] \in QueueStates
        BY <1>3, <3>1 DEF Sound
      <3>3. QED
        BY <1>2, <3>2
    <2>2. \A n \in 0..MaxConcurrent : g[n] = IF n = 0 THEN q ELSE Turn(g[n - 1])
      BY <1>0, <1>2, <2>1
    <2> HIDE DEF s
    <2>3. QED
      BY <1>1, <2>2 DEF Iterated, Pumped
  <1>5. PICK f : f = CHOOSE h : Pumped(q, h)
    OBVIOUS
  <1>6. Pumped(q, f)
    BY <1>4, <1>5
  <1>7. f[0] = q /\ \A n \in 1..MaxConcurrent : f[n] = Turn(f[n - 1])
    BY <1>0, <1>6 DEF Pumped
  <1>8. PICK r : r = f[MaxConcurrent]
    OBVIOUS
  <1>9. Sound(r) /\ Done(r, MaxConcurrent)
    BY <1>0, <1>7, <1>8, TurnsKeep
  <1>10. Queue!Pump(q) = r
    BY <1>5, <1>8, PumpIs
  <1>11. Cardinality(r.running) \in Nat /\ Cardinality(r.running) <= MaxConcurrent
    BY <1>9, FS_CardinalityType DEF Sound
  <1>12. Served(r)
    <2>1. SUFFICES ASSUME NEW i \in DOMAIN r.pending, r.priority[r.pending[i]] = "foreground"
                   PROVE  Cardinality(r.running) = MaxConcurrent
      BY DEF Served
    <2>2. i \in Queue!Eligible(r, "foreground")
      BY <2>1 DEF Queue!Eligible
    <2>3. Queue!Starts(r) # {}
      BY <2>2 DEF Queue!Starts
    <2>4. QED
      BY <1>0, <1>9, <1>11, <2>3 DEF Done
  <1>13. QED
    BY <1>9, <1>10, <1>12

LEMMA QueueInit == Queue!Init => QueueInv
  <1> SUFFICES ASSUME Queue!Init PROVE QueueInv
    OBVIOUS
  <1>1. /\ jobs.known = {} /\ jobs.pending = <<>> /\ jobs.running = {} /\ jobs \in QueueStates
        /\ wants \in [Charts -> Keys \cup {NoKey}]
    BY DEF Queue!Init, QueueStates, Priorities
  <1>2. DOMAIN jobs.pending = {}
    BY <1>1
  <1>3. IsFiniteSet(jobs.running) /\ Cardinality(jobs.running) <= MaxConcurrent
    BY <1>1, FS_EmptySet, QueueBounds
  <1>4. QED
    BY <1>1, <1>2, <1>3 DEF QueueInv, Sound, Served, Waiting, Queue!Background

\* A job that is appended waits behind the others, with a priority of its own.
LEMMA AppendKeeps ==
    ASSUME NEW q, Sound(q), NEW k \in Keys, k \notin q.known, NEW p \in Priorities, NEW r,
           r = [q EXCEPT !.known = q.known \cup {k}, !.pending = Append(q.pending, k), !.priority[k] = p]
    PROVE  Sound(r)
  <1>1. PICK s : s = q.pending
    OBVIOUS
  <1>2. PICK n : n = Len(s)
    OBVIOUS
  <1>3. /\ q \in QueueStates /\ q.running \subseteq q.known /\ Waiting(q)
        /\ IsFiniteSet(q.running) /\ Cardinality(q.running) <= MaxConcurrent
        /\ \A a, b \in Queue!Background(q) : a = b
    BY DEF Sound
  <1>4. s \in Seq(Keys) /\ n \in Nat /\ DOMAIN s = 1..n
    BY <1>1, <1>2, <1>3, LenProperties DEF QueueStates
  <1>5. PICK t : t = Append(s, k)
    OBVIOUS
  <1>6. t \in Seq(Keys) /\ DOMAIN t = 1..(n + 1) /\ t[n + 1] = k /\ \A i \in 1..n : t[i] = s[i]
    <2>1. t \in Seq(Keys) /\ Len(t) = n + 1 /\ t[n + 1] = k /\ \A i \in 1..n : t[i] = s[i]
      BY <1>2, <1>4, <1>5, AppendProperties
    <2>2. QED
      BY <2>1, LenProperties
  <1>7. PICK u : u = [q EXCEPT !.known = q.known \cup {k}]
    OBVIOUS
  <1>8. PICK v : v = [u EXCEPT !.pending = t]
    OBVIOUS
  <1>9. PICK w : w = [q.priority EXCEPT ![k] = p]
    OBVIOUS
  <1>10. r = [v EXCEPT !.priority = w]
    BY <1>1, <1>3, <1>5, <1>7, <1>8, <1>9 DEF QueueStates
  <1>11. w \in [Keys -> Priorities] /\ \A l \in Keys : l # k => w[l] = q.priority[l]
    BY <1>3, <1>9 DEF QueueStates
  <1>12. u \in QueueStates /\ u.known = q.known \cup {k} /\ u.running = q.running
    BY <1>3, <1>7 DEF QueueStates
  <1>13. v \in QueueStates /\ v.known = q.known \cup {k} /\ v.running = q.running /\ v.pending = t
    BY <1>6, <1>8, <1>12 DEF QueueStates
  <1>14. r \in QueueStates /\ r.known = q.known \cup {k} /\ r.running = q.running /\ r.pending = t /\ r.priority = w
    BY <1>10, <1>11, <1>13 DEF QueueStates
  <1>15. Waiting(r)
    <2>1. \A i \in 1..n : s[i] \in q.known \ q.running
      BY <1>1, <1>3, <1>4 DEF Waiting
    <2>2. \A i, j \in 1..n : s[i] = s[j] => i = j
      BY <1>1, <1>3, <1>4 DEF Waiting
    <2>3. ASSUME NEW i \in 1..(n + 1) PROVE t[i] \in (q.known \cup {k}) \ q.running
      BY <1>3, <1>4, <1>6, <2>1, <2>3
    <2>4. ASSUME NEW i \in 1..(n + 1), NEW j \in 1..(n + 1), t[i] = t[j] PROVE i = j
      <3>1. CASE i \in 1..n /\ j \in 1..n
        BY <1>6, <2>2, <2>4, <3>1
      <3>2. CASE i = n + 1 /\ j \in 1..n
        BY <1>6, <2>1, <2>4, <3>2
      <3>3. CASE i \in 1..n /\ j = n + 1
        BY <1>6, <2>1, <2>4, <3>3
      <3>4. QED
        BY <1>4, <3>1, <3>2, <3>3
    <2>5. QED
      <3>1. DOMAIN r.pending = 1..(n + 1) /\ r.pending = t
        BY <1>6, <1>14
      <3>2. \A i \in DOMAIN r.pending : r.pending[i] \in r.known \ r.running
        BY <1>14, <2>3, <3>1
      <3>3. ASSUME NEW i \in DOMAIN r.pending, NEW j \in DOMAIN r.pending, r.pending[i] = r.pending[j]
            PROVE  i = j
        <4>1. i \in 1..(n + 1) /\ j \in 1..(n + 1) /\ t[i] = t[j]
          BY <3>1, <3>3
        <4>2. QED
          BY <2>4, <4>1
      <3>4. QED
        BY <3>2, <3>3 DEF Waiting
  <1>16. Queue!Background(r) \subseteq Queue!Background(q)
    <2>1. \A l \in q.running : l \in Keys /\ l # k
      BY <1>3 DEF QueueStates
    <2>2. QED
      BY <1>11, <1>14, <2>1 DEF Queue!Background
  <1>17. QED
    BY <1>3, <1>14, <1>15, <1>16 DEF Sound

\* A job that waits may come to the foreground.
LEMMA RaiseKeeps ==
    ASSUME NEW q, Sound(q), NEW k \in Keys, k \notin q.running, NEW p \in Priorities, NEW r,
           r = [q EXCEPT !.priority[k] = p]
    PROVE  Sound(r)
  <1>1. PICK w : w = [q.priority EXCEPT ![k] = p]
    OBVIOUS
  <1>2. r = [q EXCEPT !.priority = w]
    BY <1>1 DEF Sound, QueueStates
  <1>3. q \in QueueStates
    BY DEF Sound
  <1>4. w \in [Keys -> Priorities] /\ \A l \in Keys : l # k => w[l] = q.priority[l]
    BY <1>1, <1>3 DEF QueueStates
  <1>5. /\ r \in QueueStates /\ r.known = q.known /\ r.running = q.running /\ r.pending = q.pending
        /\ r.priority = w
    BY <1>2, <1>3, <1>4 DEF QueueStates
  <1>6. Queue!Background(r) \subseteq Queue!Background(q)
    <2>1. \A l \in q.running : l \in Keys /\ l # k
      BY <1>3 DEF QueueStates
    <2>2. QED
      BY <1>4, <1>5, <2>1 DEF Queue!Background
  <1>7. Waiting(r)
    BY <1>5 DEF Sound, Waiting
  <1>8. QED
    BY <1>5, <1>6, <1>7 DEF Sound

LEMMA AskKeeps ==
    ASSUME QueueInv, NEW c \in Charts, NEW k \in Keys, NEW p \in Priorities, Queue!Ask(c, k, p)
    PROVE  QueueInv'
  <1>1. wants' \in [Charts -> Keys \cup {NoKey}] /\ Sound(jobs)
    BY DEF QueueInv, Queue!Ask
  <1>2. PICK q : /\ q = IF k \notin jobs.known
                        THEN [jobs EXCEPT !.known = @ \cup {k}, !.pending = Append(@, k), !.priority[k] = p]
                        ELSE IF k \notin jobs.running /\ p = "foreground"
                        THEN [jobs EXCEPT !.priority[k] = p]
                        ELSE jobs
                 /\ jobs' = Queue!Pump(q)
    BY DEF Queue!Ask
  <1>3. Sound(q)
    <2>1. CASE k \notin jobs.known
      <3>1. q = [jobs EXCEPT !.known = jobs.known \cup {k}, !.pending = Append(jobs.pending, k), !.priority[k] = p]
        BY <1>2, <2>1
      <3>2. QED
        BY <1>1, <2>1, <3>1, AppendKeeps
    <2>2. CASE k \in jobs.known /\ k \notin jobs.running /\ p = "foreground"
      <3>1. q = [jobs EXCEPT !.priority[k] = p]
        BY <1>2, <2>2
      <3>2. QED
        BY <1>1, <2>2, <3>1, RaiseKeeps
    <2>3. CASE k \in jobs.known /\ ~(k \notin jobs.running /\ p = "foreground")
      BY <1>1, <1>2, <2>3
    <2>4. QED
      BY <2>1, <2>2, <2>3
  <1>4. Sound(jobs') /\ Served(jobs')
    BY <1>2, <1>3, PumpKeeps
  <1>5. QED
    BY <1>1, <1>4 DEF QueueInv, Sound, Served, Waiting, Queue!Background

\* The job of a chart that gives up is known no more.
LEMMA DroppedKeeps ==
    ASSUME Sound(jobs), NEW k \in Keys, k \notin jobs.running
    PROVE  Sound(Queue!Dropped(k))
  <1>1. PICK p : p = Queue!RemoveFirst(jobs.pending, k)
    OBVIOUS
  <1>2. /\ jobs \in QueueStates /\ jobs.running \subseteq jobs.known /\ Waiting(jobs)
        /\ IsFiniteSet(jobs.running) /\ Cardinality(jobs.running) <= MaxConcurrent
        /\ \A a, b \in Queue!Background(jobs) : a = b
    BY DEF Sound
  <1>3. PICK n : n = Len(jobs.pending)
    OBVIOUS
  <1>4. jobs.pending \in Seq(Keys) /\ n \in Nat /\ DOMAIN jobs.pending = 1..n
    BY <1>2, <1>3, LenProperties DEF QueueStates
  <1>5. /\ p \in Seq(Keys)
        /\ \A j \in DOMAIN p : p[j] \in (jobs.known \ jobs.running) \ {k}
        /\ \A j, m \in DOMAIN p : p[j] = p[m] => j = m
    <2>1. CASE \E i \in 1..n : jobs.pending[i] = k
      <3>1. PICK I : I = {i \in 1..n : jobs.pending[i] = k}
        OBVIOUS
      <3>2. I # {} /\ I \in SUBSET Nat
        BY <1>4, <2>1, <3>1
      <3>3. PICK i : i = Queue!Min(I)
        OBVIOUS
      <3>4. i \in 1..n /\ jobs.pending[i] = k
        BY <3>1, <3>2, <3>3, MinIsIn
      <3>5. Queue!SelectInSeq(jobs.pending, LAMBDA v : v = k) = i
        BY <1>3, <3>1, <3>2, <3>3 DEF Queue!SelectInSeq
      <3>6. p = Queue!RemoveAt(jobs.pending, i)
        BY <1>1, <1>3, <2>1, <3>5 DEF Queue!RemoveFirst
      <3>7. i \in DOMAIN jobs.pending
        BY <1>4, <3>4
      <3>8. Remains(jobs, i, p)
        BY <1>2, <3>6, <3>7, WaitingWithoutOne
      <3>9. QED
        BY <3>4, <3>8 DEF Remains
    <2>2. CASE ~(\E i \in 1..n : jobs.pending[i] = k)
      <3>1. p = jobs.pending
        BY <1>1, <1>3, <2>2 DEF Queue!RemoveFirst
      <3>2. QED
        BY <1>2, <1>4, <2>2, <3>1 DEF Waiting
    <2>3. QED
      BY <2>1, <2>2
  <1>6. PICK r : r = Queue!Dropped(k)
    OBVIOUS
  <1>7. PICK u : u = [jobs EXCEPT !.pending = p]
    OBVIOUS
  <1>8. r = [u EXCEPT !.known = jobs.known \ {k}]
    BY <1>1, <1>2, <1>6, <1>7 DEF Queue!Dropped, QueueStates
  <1>9. u \in QueueStates /\ u.pending = p /\ u.running = jobs.running /\ u.priority = jobs.priority
    BY <1>2, <1>5, <1>7 DEF QueueStates
  <1>10. /\ r \in QueueStates /\ r.pending = p /\ r.running = jobs.running /\ r.priority = jobs.priority
         /\ r.known = jobs.known \ {k}
    BY <1>2, <1>8, <1>9 DEF QueueStates
  <1>11. Waiting(r)
    BY <1>5, <1>10 DEF Waiting
  <1>12. Queue!Background(r) = Queue!Background(jobs)
    BY <1>10 DEF Queue!Background
  <1>13. Sound(r)
    BY <1>2, <1>10, <1>11, <1>12 DEF Sound
  <1>14. QED
    BY <1>6, <1>13

LEMMA CancelKeeps == ASSUME QueueInv, NEW c \in Charts, Queue!Cancel(c) PROVE QueueInv'
  <1>1. PICK k : k = wants[c]
    OBVIOUS
  <1>2. k \in Keys /\ wants' \in [Charts -> Keys \cup {NoKey}] /\ Sound(jobs) /\ Served(jobs)
    BY <1>1 DEF QueueInv, Queue!Cancel
  <1>3. \/ k \notin jobs.running /\ jobs' = Queue!Pump(Queue!Dropped(k))
        \/ jobs' = jobs
    BY <1>1 DEF Queue!Cancel
  <1>4. Sound(jobs') /\ Served(jobs')
    <2>1. CASE jobs' = jobs
      BY <1>2, <2>1
    <2>2. CASE k \notin jobs.running /\ jobs' = Queue!Pump(Queue!Dropped(k))
      BY <1>2, <2>2, DroppedKeeps, PumpKeeps
    <2>3. QED
      BY <1>3, <2>1, <2>2
  <1>5. QED
    BY <1>2, <1>4 DEF QueueInv, Sound, Served, Waiting, Queue!Background

LEMMA FinishKeeps == ASSUME QueueInv, NEW k \in Keys, Queue!Finish(k) PROVE QueueInv'
  <1>1. /\ jobs \in QueueStates /\ jobs.running \subseteq jobs.known /\ Waiting(jobs)
        /\ IsFiniteSet(jobs.running) /\ Cardinality(jobs.running) <= MaxConcurrent
        /\ \A a, b \in Queue!Background(jobs) : a = b
    BY DEF QueueInv, Sound
  <1>2. PICK q : q = [jobs EXCEPT !.running = @ \ {k}, !.known = @ \ {k}]
    OBVIOUS
  <1>3. jobs' = Queue!Pump(q) /\ k \in jobs.running /\ wants' \in [Charts -> Keys \cup {NoKey}]
    BY <1>2 DEF QueueInv, Queue!Finish
  <1>4. /\ q \in QueueStates /\ q.running = jobs.running \ {k} /\ q.known = jobs.known \ {k}
        /\ q.pending = jobs.pending /\ q.priority = jobs.priority
    <2>1. PICK u : u = [jobs EXCEPT !.running = jobs.running \ {k}]
      OBVIOUS
    <2>2. q = [u EXCEPT !.known = jobs.known \ {k}]
      BY <1>1, <1>2, <2>1 DEF QueueStates
    <2>3. /\ u \in QueueStates /\ u.running = jobs.running \ {k} /\ u.known = jobs.known
          /\ u.pending = jobs.pending /\ u.priority = jobs.priority
      BY <1>1, <2>1 DEF QueueStates
    <2>4. QED
      BY <1>1, <2>2, <2>3 DEF QueueStates
  <1>5. IsFiniteSet(q.running) /\ Cardinality(q.running) <= MaxConcurrent
    <2>1. Cardinality(jobs.running) \in Nat
      BY <1>1, FS_CardinalityType
    <2>2. IsFiniteSet(q.running) /\ Cardinality(q.running) = Cardinality(jobs.running) - 1
      BY SMTT(20), <1>1, <1>3, <1>4, FS_RemoveElement
    <2>3. QED
      BY <1>1, <2>1, <2>2, QueueBounds
  <1>6. Waiting(q)
    BY <1>1, <1>3, <1>4 DEF Waiting
  <1>7. Queue!Background(q) \subseteq Queue!Background(jobs)
    BY <1>4 DEF Queue!Background
  <1>8. Sound(q)
    BY <1>1, <1>4, <1>5, <1>6, <1>7 DEF Sound
  <1>9. Sound(jobs') /\ Served(jobs')
    BY <1>3, <1>8, PumpKeeps
  <1>10. QED
    BY <1>3, <1>9 DEF QueueInv, Sound, Served, Waiting, Queue!Background

LEMMA QueueStep == QueueInv /\ [Queue!Next]_(Queue!vars) => QueueInv'
  <1> SUFFICES ASSUME QueueInv, [Queue!Next]_(Queue!vars) PROVE QueueInv'
    OBVIOUS
  <1>1. ASSUME NEW c \in Charts, NEW k \in Keys, NEW p \in {"foreground", "background"}, Queue!Ask(c, k, p)
        PROVE  QueueInv'
    BY <1>1, AskKeeps DEF Priorities
  <1>2. ASSUME NEW c \in Charts, Queue!Cancel(c) PROVE QueueInv'
    BY <1>2, CancelKeeps
  <1>3. ASSUME NEW k \in Keys, Queue!Finish(k) PROVE QueueInv'
    BY <1>3, FinishKeeps
  <1>4. CASE UNCHANGED Queue!vars
    BY <1>4 DEF Queue!vars, QueueInv, Sound, Served, Waiting, Queue!Background
  <1>5. QED
    BY <1>1, <1>2, <1>3, <1>4 DEF Queue!Next

------------------------------------------------------------------------------
(* ShareSnapshot.  A request that has been read says no more than its block  *)
(* bears, and a block that was read is not finalised afterwards.             *)
Requests ==
    [at : {"head", "pair", "settlement", "resolved", "outcome", "market", "answer"},
     kind : {"share", "result-card", "card"}, finalized : BOOLEAN, block : Nat,
     resolved : BOOLEAN, outcome : 0..3]
ShareTypes ==
    /\ height \in Nat \ {0}
    /\ vault \in [since : Nat, outcome : 0..3, paired : BOOLEAN, activated : BOOLEAN]
    /\ vault.since <= height
    /\ request \in Requests \cup {Share!NoRequest}
Snapshot(r) ==
    /\ r.resolved => vault.since \in 1..r.block
    /\ r.outcome # 0 => r.outcome = vault.outcome /\ vault.since # 0
RequestIsTrue ==
    request \in Requests =>
        /\ Snapshot(request)
        /\ request.at = "head" => ~request.resolved /\ request.outcome = 0
        /\ request.at # "head" => request.block # 0
        /\ request.at \notin {"head", "pair"} => vault.paired /\ request.block <= height
        /\ request.at = "answer" => vault.activated
CacheIsTrue ==
    \A told \in cached :
        /\ vault.paired /\ vault.activated /\ told.block \in Nat
        /\ told.resolved => vault.since \in 1..told.block
        /\ told.kind = "result-card" => told.outcome = vault.outcome /\ vault.since # 0
ShareInv == ShareTypes /\ RequestIsTrue /\ CacheIsTrue

LEMMA ShareInit == Share!Init => ShareInv
  <1> SUFFICES ASSUME Share!Init PROVE ShareInv
    OBVIOUS
  <1>1. Share!NoRequest \notin Requests
    BY DEF Share!NoRequest, Requests
  <1>2. PICK p \in BOOLEAN, a \in BOOLEAN :
          vault = [since |-> 0, outcome |-> 0, paired |-> p, activated |-> a]
    BY DEF Share!Init
  <1>3. height = 1 /\ request = Share!NoRequest /\ cached = {}
    BY DEF Share!Init
  <1>4. QED
    BY <1>1, <1>2, <1>3 DEF ShareInv, ShareTypes, RequestIsTrue, CacheIsTrue

LEMMA ShareHolds == ShareInv => Share!CachedIsTrue
  BY DEF ShareInv, CacheIsTrue, Share!CachedIsTrue, Share!ResolvedAt

LEMMA ShareStep == ShareInv /\ [Share!Next]_(Share!vars) => ShareInv'
  <1> SUFFICES ASSUME ShareInv, [Share!Next]_(Share!vars) PROVE ShareInv'
    OBVIOUS
  <1>t. ShareTypes /\ RequestIsTrue /\ CacheIsTrue
    BY DEF ShareInv
  <1>n. Share!NoRequest \notin Requests /\ \A r \in Requests : r.at # "none"
    BY DEF Share!NoRequest, Requests
  <1>1. CASE Share!Grow
    BY <1>1, <1>t DEF Share!Grow, ShareInv, ShareTypes, RequestIsTrue, CacheIsTrue, Requests, Snapshot
  <1>2. CASE Share!Finalize
    <2>1. PICK o \in 1..3 : vault' = [vault EXCEPT !.since = height', !.outcome = o]
      BY <1>2 DEF Share!Finalize
    <2>2. height' = height + 1 /\ vault.since = 0 /\ UNCHANGED <<left, request, cached>>
      BY <1>2 DEF Share!Finalize
    <2>3. /\ vault' \in [since : Nat, outcome : 0..3, paired : BOOLEAN, activated : BOOLEAN]
          /\ vault'.since = height + 1 /\ vault'.paired = vault.paired /\ vault'.activated = vault.activated
      <3>1. PICK v : v = [vault EXCEPT !.since = height']
        OBVIOUS
      <3>2. vault' = [v EXCEPT !.outcome = o]
        BY <2>1, <3>1
      <3>3. v \in [since : Nat, outcome : 0..3, paired : BOOLEAN, activated : BOOLEAN]
            /\ v.since = height + 1 /\ v.paired = vault.paired /\ v.activated = vault.activated
        BY <1>t, <2>2, <3>1 DEF ShareTypes
      <3>4. QED
        BY <3>2, <3>3
    <2>4. ShareTypes'
      BY <1>t, <2>2, <2>3 DEF ShareTypes, Share!NoRequest, Requests
    <2>5. RequestIsTrue'
      BY <1>t, <2>2, <2>3 DEF RequestIsTrue, Snapshot, ShareTypes, Requests
    <2>6. CacheIsTrue'
      BY <1>t, <2>2, <2>3 DEF CacheIsTrue, ShareTypes
    <2>7. QED
      BY <2>4, <2>5, <2>6 DEF ShareInv
  <1>3. CASE Share!Crawl
    <2>1. /\ request' \in {Share!Share(b, f) : b \in 1..MaxBlock, f \in BOOLEAN}
                 \cup {Share!Card(k, b) : k \in {"result-card", "card"}, b \in 0..MaxBlock}
          /\ UNCHANGED <<height, vault, cached>>
      BY <1>3 DEF Share!Crawl
    <2>2. ASSUME NEW kind \in {"share", "result-card", "card"}, NEW block \in Nat, NEW f \in BOOLEAN,
                 request' = [at |-> "head", kind |-> kind, finalized |-> f, block |-> block,
                             resolved |-> FALSE, outcome |-> 0]
          PROVE  request' \in Requests /\ request'.at = "head" /\ ~request'.resolved /\ request'.outcome = 0
      BY <2>2 DEF Requests
    <2>3. request' \in Requests /\ request'.at = "head" /\ ~request'.resolved /\ request'.outcome = 0
      <3>1. MaxBlock \in Nat
        BY SiteAssumption DEF Share!ShareSnapshotAssumption
      <3>2. ASSUME NEW b \in 1..MaxBlock, NEW f \in BOOLEAN, request' = Share!Share(b, f)
            PROVE  request' \in Requests /\ request'.at = "head" /\ ~request'.resolved /\ request'.outcome = 0
        <4>1. PICK block \in Nat : block = IF f THEN 0 ELSE b
          BY <3>1
        <4>2. QED
          BY <2>2, <3>2, <4>1 DEF Share!Share, Share!Latest
      <3>3. ASSUME NEW k \in {"result-card", "card"}, NEW b \in 0..MaxBlock, request' = Share!Card(k, b)
            PROVE  request' \in Requests /\ request'.at = "head" /\ ~request'.resolved /\ request'.outcome = 0
        <4>1. b \in Nat /\ k \in {"share", "result-card", "card"}
          BY <3>1
        <4>2. request' = [at |-> "head", kind |-> k, finalized |-> FALSE, block |-> b,
                          resolved |-> FALSE, outcome |-> 0]
          BY <3>3 DEF Share!Card
        <4>3. QED
          BY <2>2, <4>1, <4>2
      <3>4. QED
        BY <2>1, <3>2, <3>3
    <2>4. QED
      BY <1>t, <2>1, <2>3 DEF ShareInv, ShareTypes, RequestIsTrue, CacheIsTrue, Requests, Snapshot, Share!NoRequest
  \* A step of the request that is being answered.
  <1>4. ASSUME NEW next \in Requests, Share!Goes(next), Snapshot(next),
               next.at = "head" => ~next.resolved /\ next.outcome = 0,
               next.at # "head" => next.block # 0,
               next.at \notin {"head", "pair"} => vault.paired /\ next.block <= height,
               next.at = "answer" => vault.activated
        PROVE  ShareInv'
    BY <1>4, <1>t DEF Share!Goes, ShareInv, ShareTypes, RequestIsTrue, CacheIsTrue, Snapshot, Requests, Share!NoRequest
  <1>5. ASSUME Share!Refused PROVE ShareInv'
    <2>1. request' = Share!NoRequest /\ UNCHANGED <<height, vault, left, cached>>
      BY <1>5 DEF Share!Refused, Share!Goes
    <2>2. request' \notin Requests
      BY <1>n, <2>1
    <2>3. RequestIsTrue'
      BY <2>2 DEF RequestIsTrue, Requests
    <2>4. QED
      BY <1>t, <2>1, <2>3 DEF ShareInv, ShareTypes, CacheIsTrue, Requests, Share!NoRequest
  <1>a. request.at # "none" => request \in Requests
    BY <1>t DEF ShareTypes, Share!NoRequest
  <1>6. CASE Share!ReadHead
    <2>1. PICK b : b = IF request.block = 0 THEN height ELSE request.block
      OBVIOUS
    <2>2. PICK r : r = [request EXCEPT !.at = "pair"]
      OBVIOUS
    <2>3. PICK next : next = [r EXCEPT !.block = b]
      OBVIOUS
    <2>4. Share!Goes(next) /\ request.at = "head"
      BY <1>6, <2>1, <2>2, <2>3 DEF Share!ReadHead, Share!Latest
    <2>5. request \in Requests /\ b \in Nat \ {0}
      BY <1>t, <1>a, <2>1, <2>4 DEF ShareTypes, Requests
    <2>6. r \in Requests /\ r.at = "pair" /\ r.resolved = request.resolved /\ r.outcome = request.outcome
      BY <2>2, <2>5 DEF Requests
    <2>7. next \in Requests /\ next.at = "pair" /\ next.block = b /\ ~next.resolved /\ next.outcome = 0
      BY <1>t, <2>3, <2>4, <2>5, <2>6 DEF Requests, RequestIsTrue
    <2>8. QED
      BY <1>4, <2>4, <2>5, <2>7 DEF Snapshot
  <1>7. CASE Share!ReadPair
    <2>1. CASE Share!Refused
      BY <1>5, <2>1
    <2>2. CASE ~Share!Refused
      <3>1. PICK next : next = [request EXCEPT !.at = "settlement"]
        OBVIOUS
      <3>2. /\ request.at = "pair" /\ Share!Exists(request.block) /\ vault.paired
            /\ Share!Goes(next)
        BY <1>7, <2>2, <3>1 DEF Share!ReadPair
      <3>3. request \in Requests /\ request.block # 0 /\ Snapshot(request)
        BY <1>t, <1>a, <3>2 DEF RequestIsTrue
      <3>4. /\ next \in Requests /\ next.at = "settlement" /\ next.block = request.block
            /\ next.resolved = request.resolved /\ next.outcome = request.outcome
        BY <3>1, <3>3 DEF Requests
      <3>5. next.block <= height
        BY <3>2, <3>3, <3>4 DEF Share!Exists, Share!At, Share!Latest
      <3>6. QED
        BY <1>4, <3>2, <3>3, <3>4, <3>5 DEF Snapshot
    <2>3. QED
      BY <2>1, <2>2
  \* What is read of a block that is there.
  <1>8. ASSUME request \in Requests, request.at \notin {"head", "pair", "answer"},
               NEW next \in Requests, Share!Goes(next),
               next.at \in {"resolved", "outcome", "market"}, next.block = request.block,
               next.resolved => request.resolved \/ Share!ResolvedAt(Share!At(request.block)),
               next.outcome \in {0, request.outcome, Share!OutcomeAt(Share!At(request.block))}
        PROVE  ShareInv'
    <2>1. /\ request.block # 0 /\ Share!At(request.block) = request.block
          /\ vault.paired /\ request.block <= height /\ Snapshot(request)
      BY <1>8, <1>t DEF RequestIsTrue, Share!At, Share!Latest
    <2>2. Snapshot(next)
      BY <1>8, <1>t, <2>1 DEF Snapshot, Share!ResolvedAt, Share!OutcomeAt, ShareTypes
    <2>3. QED
      BY <1>4, <1>8, <2>1, <2>2
  <1>o. Share!OutcomeAt(Share!At(request.block)) \in 0..3
    BY <1>t DEF Share!OutcomeAt, ShareTypes
  <1>9. CASE Share!ReadSettlement
    <2>1. request.at = "settlement" /\ request \in Requests
      BY <1>9, <1>a DEF Share!ReadSettlement
    <2>2. CASE Share!Goes([request EXCEPT !.at = "resolved"])
      <3>1. PICK next : next = [request EXCEPT !.at = "resolved"]
        OBVIOUS
      <3>2. next \in Requests /\ next.at = "resolved" /\ next.block = request.block
            /\ next.resolved = request.resolved /\ next.outcome = request.outcome
        BY <2>1, <3>1 DEF Requests
      <3>3. QED
        BY <1>8, <2>1, <2>2, <3>1, <3>2
    <2>3. CASE Share!Goes([request EXCEPT !.at = "market",
                                          !.resolved = Share!ResolvedAt(Share!At(request.block)),
                                          !.outcome = Share!OutcomeAt(Share!At(request.block))])
      <3>1. PICK r : r = [request EXCEPT !.at = "market"]
        OBVIOUS
      <3>2. PICK q : q = [r EXCEPT !.resolved = Share!ResolvedAt(Share!At(request.block))]
        OBVIOUS
      <3>3. PICK next : next = [q EXCEPT !.outcome = Share!OutcomeAt(Share!At(request.block))]
        OBVIOUS
      <3>4. Share!Goes(next)
        BY <2>3, <3>1, <3>2, <3>3
      <3>5. r \in Requests /\ r.at = "market" /\ r.block = request.block
        BY <2>1, <3>1 DEF Requests
      <3>6. q \in Requests /\ q.at = "market" /\ q.block = request.block
            /\ (q.resolved => Share!ResolvedAt(Share!At(request.block)))
        <4>1. CASE Share!ResolvedAt(Share!At(request.block))
          <5>1. Share!ResolvedAt(Share!At(request.block)) = TRUE
            BY <4>1, Zenon
          <5>2. q = [r EXCEPT !.resolved = TRUE]
            BY <3>2, <5>1, Zenon
          <5>3. q \in Requests /\ q.at = "market" /\ q.block = request.block
            BY <3>5, <5>2 DEF Requests
          <5>4. QED
            BY <4>1, <5>3
        <4>2. CASE ~Share!ResolvedAt(Share!At(request.block))
          <5>1. Share!ResolvedAt(Share!At(request.block)) = FALSE
            <6>1. (vault.since \in 1..Share!At(request.block)) = FALSE
              <7>1. ~(vault.since \in 1..Share!At(request.block))
                BY <4>2 DEF Share!ResolvedAt
              <7>2. QED
                BY <7>1
            <6>2. QED
              BY <6>1 DEF Share!ResolvedAt
          <5>2. q = [r EXCEPT !.resolved = FALSE]
            BY <3>2, <5>1, Zenon
          <5>3. q \in Requests /\ q.at = "market" /\ q.block = request.block /\ q.resolved = FALSE
            BY <3>5, <5>2 DEF Requests
          <5>4. QED
            BY <5>3
        <4>3. QED
          BY <4>1, <4>2
      <3>7. next \in Requests /\ next.at = "market" /\ next.block = request.block
            /\ (next.resolved => Share!ResolvedAt(Share!At(request.block)))
            /\ next.outcome = Share!OutcomeAt(Share!At(request.block))
        BY <1>o, <3>3, <3>6 DEF Requests
      <3>8. QED
        BY <1>8, <2>1, <3>4, <3>7
    <2>4. QED
      BY <1>9, <2>2, <2>3 DEF Share!ReadSettlement
  <1>10. CASE Share!ReadResolved
    <2>1. PICK answer \in {Share!ResolvedAt(Share!At(request.block)), FALSE} :
            Share!Goes([request EXCEPT !.at = "outcome", !.resolved = answer])
      BY <1>10 DEF Share!ReadResolved
    <2>2. request.at = "resolved" /\ request \in Requests
      BY <1>10, <1>a DEF Share!ReadResolved
    <2>3. PICK r : r = [request EXCEPT !.at = "outcome"]
      OBVIOUS
    <2>4. PICK next : next = [r EXCEPT !.resolved = answer]
      OBVIOUS
    <2>5. Share!Goes(next)
      BY <2>1, <2>3, <2>4
    <2>6. r \in Requests /\ r.at = "outcome" /\ r.block = request.block /\ r.outcome = request.outcome
      BY <2>2, <2>3 DEF Requests
    <2>7. answer \in BOOLEAN /\ (answer => Share!ResolvedAt(Share!At(request.block)))
      <3>1. CASE answer = FALSE
        BY <3>1
      <3>2. CASE answer # FALSE
        <4>1. answer = Share!ResolvedAt(Share!At(request.block))
          BY <2>1, <3>2
        <4>2. answer = (vault.since \in 1..Share!At(request.block))
          BY <4>1, Zenon DEF Share!ResolvedAt
        <4>3. answer \in BOOLEAN
          <5>1. CASE vault.since \in 1..Share!At(request.block)
            <6>1. answer = TRUE
              BY <4>2, <5>1
            <6>2. QED
              BY <6>1
          <5>2. CASE ~(vault.since \in 1..Share!At(request.block))
            <6>0. (vault.since \in 1..Share!At(request.block)) = FALSE
              BY <5>2
            <6>1. answer = FALSE
              BY <4>2, <6>0
            <6>2. QED
              BY <6>1
          <5>3. QED
            BY <5>1, <5>2
        <4>4. QED
          BY <4>1, <4>3, Zenon
      <3>3. QED
        BY <3>1, <3>2
    <2>8. next \in Requests /\ next.at = "outcome" /\ next.block = request.block
          /\ (next.resolved => Share!ResolvedAt(Share!At(request.block))) /\ next.outcome = request.outcome
      BY <2>4, <2>6, <2>7 DEF Requests
    <2>9. QED
      BY <1>8, <2>2, <2>5, <2>8
  <1>11. CASE Share!ReadOutcome
    <2>1. PICK answer \in {Share!OutcomeAt(Share!At(request.block)), 0} :
            Share!Goes([request EXCEPT !.at = "market", !.outcome = answer])
      BY <1>11 DEF Share!ReadOutcome
    <2>2. request.at = "outcome" /\ request \in Requests
      BY <1>11, <1>a DEF Share!ReadOutcome
    <2>3. PICK r : r = [request EXCEPT !.at = "market"]
      OBVIOUS
    <2>4. PICK next : next = [r EXCEPT !.outcome = answer]
      OBVIOUS
    <2>5. Share!Goes(next)
      BY <2>1, <2>3, <2>4
    <2>6. r \in Requests /\ r.at = "market" /\ r.block = request.block /\ r.resolved = request.resolved
      BY <2>2, <2>3 DEF Requests
    <2>7. next \in Requests /\ next.at = "market" /\ next.block = request.block
          /\ next.resolved = request.resolved /\ next.outcome = answer
      BY <1>o, <2>4, <2>6 DEF Requests
    <2>8. QED
      BY <1>8, <2>2, <2>5, <2>7
  <1>12. CASE Share!ReadMarket
    <2>1. CASE Share!Refused
      BY <1>5, <2>1
    <2>2. CASE ~Share!Refused
      <3>1. PICK next : next = [request EXCEPT !.at = "answer"]
        OBVIOUS
      <3>2. request.at = "market" /\ vault.activated /\ Share!Goes(next)
        BY <1>12, <2>2, <3>1 DEF Share!ReadMarket
      <3>3. /\ request \in Requests /\ request.block # 0 /\ Snapshot(request)
            /\ vault.paired /\ request.block <= height
        BY <1>t, <1>a, <3>2 DEF RequestIsTrue
      <3>4. /\ next \in Requests /\ next.at = "answer" /\ next.block = request.block
            /\ next.resolved = request.resolved /\ next.outcome = request.outcome
        BY <3>1, <3>3 DEF Requests
      <3>5. QED
        BY <1>4, <3>2, <3>3, <3>4 DEF Snapshot
    <2>3. QED
      BY <2>1, <2>2
  <1>13. CASE Share!Fails
    BY <1>5, <1>13 DEF Share!Fails
  \* What is kept of an answer.
  <1>14. ASSUME NEW told, Share!Answer(told), vault.paired, vault.activated, told.block \in Nat,
                told.resolved => vault.since \in 1..told.block,
                told.kind = "result-card" => told.outcome = vault.outcome /\ vault.since # 0
         PROVE  ShareInv'
    <2>1. cached' = cached \cup {told} /\ request' = Share!NoRequest /\ UNCHANGED <<height, vault>>
      BY <1>14 DEF Share!Answer
    <2>2. CacheIsTrue'
      BY <1>14, <1>t, <2>1 DEF CacheIsTrue
    <2>3. RequestIsTrue'
      BY <1>n, <2>1 DEF RequestIsTrue, Requests
    <2>4. ShareTypes'
      BY <1>t, <2>1 DEF ShareTypes, Requests, Share!NoRequest
    <2>5. QED
      BY <2>2, <2>3, <2>4 DEF ShareInv
  <1>15. CASE request.at = "answer" /\ Share!Answer(Share!Told) /\ request.kind # "result-card"
    <2>1. request \in Requests /\ Snapshot(request) /\ vault.paired /\ vault.activated
      BY <1>15, <1>t, <1>a DEF RequestIsTrue
    <2>2. PICK told : told = Share!Told
      OBVIOUS
    <2>3. told.block = request.block /\ told.resolved = request.resolved /\ told.kind = request.kind
      BY <2>2 DEF Share!Told
    <2>4. QED
      BY <1>14, <1>15, <2>1, <2>2, <2>3 DEF Snapshot, Requests
  <1>16. CASE Share!AnswerShare
    BY <1>5, <1>15, <1>16 DEF Share!AnswerShare
  <1>17. CASE Share!AnswerResult
    <2>1. CASE Share!Refused
      BY <1>5, <2>1
    <2>2. CASE ~Share!Refused
      <3>1. /\ request.at = "answer" /\ request.kind = "result-card" /\ request.resolved
            /\ request.outcome \in 1..3 /\ Share!Answer(Share!Told)
        BY <1>17, <2>2 DEF Share!AnswerResult
      <3>2. request \in Requests /\ Snapshot(request) /\ vault.paired /\ vault.activated
        BY <1>t, <1>a, <3>1 DEF RequestIsTrue
      <3>3. PICK told : told = Share!Told
        OBVIOUS
      <3>4. told.block = request.block /\ told.resolved = request.resolved /\ told.outcome = request.outcome
        BY <3>3 DEF Share!Told
      <3>5. QED
        BY <1>14, <3>1, <3>2, <3>3, <3>4 DEF Snapshot, Requests
    <2>3. QED
      BY <2>1, <2>2
  <1>18. CASE Share!AnswerCard
    <2>1. request.at = "answer" /\ request.kind = "card"
          /\ Share!Answer([Share!Told EXCEPT !.resolved = FALSE, !.outcome = 0])
      BY <1>18 DEF Share!AnswerCard
    <2>2. request \in Requests /\ vault.paired /\ vault.activated
      BY <1>t, <1>a, <2>1 DEF RequestIsTrue
    <2>3. PICK told : told = [Share!Told EXCEPT !.resolved = FALSE, !.outcome = 0]
      OBVIOUS
    <2>4. told.block = request.block /\ ~told.resolved /\ told.kind = "card"
      BY <2>1, <2>3 DEF Share!Told
    <2>5. QED
      BY <1>14, <2>1, <2>2, <2>3, <2>4 DEF Requests
  <1>19. CASE UNCHANGED Share!vars
    BY <1>19, <1>t DEF Share!vars, ShareInv, ShareTypes, RequestIsTrue, CacheIsTrue, Snapshot, Requests,
       Share!NoRequest
  <1>20. QED
    BY <1>1, <1>2, <1>3, <1>6, <1>7, <1>9, <1>10, <1>11, <1>12, <1>13, <1>16, <1>17, <1>18, <1>19 DEF Share!Next

------------------------------------------------------------------------------
(* The site. *)

\* The invariant of the machine that is on.  The indexer's and the paper market's are
\* in SiteServerProofs.
SiteInv ==
    /\ scene = "trade" => TradeInv
    /\ scene = "create" => CreateInv
    /\ scene = "vault" => QuoteHolds /\ PayoutHolds
    /\ scene = "genesis" => GenesisInv
    /\ scene = "explore" => ExploreInv
    /\ scene = "wallet" => HookInv
    /\ scene = "search" => SearchInv
    /\ scene = "share" => ShareInv
    /\ scene = "queue" => QueueInv

LEMMA SiteInitInvariant == SiteInit => SiteInv
  <1> SUFFICES ASSUME SiteInit PROVE SiteInv
    OBVIOUS
  <1>1. /\ scene = "trade" => Trade!Init
        /\ scene = "create" => Create!Init
        /\ scene = "vault" => Vault!Init
        /\ scene = "genesis" => Genesis!Init
        /\ scene = "explore" => Explore!Init
        /\ scene = "wallet" => Hook!Init
        /\ scene = "search" => Search!Init
        /\ scene = "share" => Share!Init
        /\ scene = "queue" => Queue!Init
    BY DEF SiteInit
  <1>2. QED
    BY <1>1, TradeInit, CreateInit, QuoteInit, PayoutInit, GenesisInit, ExploreInit, HookInit, SearchInit,
       ShareInit, QueueInit DEF SiteInv

\* A step is one of the machine that is on, and leaves the scene.
LEMMA SiteStepIs ==
    ASSUME [SiteNext]_siteVars
    PROVE  /\ scene' = scene
           /\ scene = "trade" => [Trade!Next]_(Trade!vars)
           /\ scene = "create" => [Create!Next]_(Create!vars)
           /\ scene = "vault" => [Vault!Next]_(Vault!vars)
           /\ scene = "genesis" => [Genesis!Next]_(Genesis!vars)
           /\ scene = "explore" => [Explore!Next]_(Explore!vars)
           /\ scene = "wallet" => [Hook!Next]_(Hook!vars)
           /\ scene = "search" => [Search!Next]_(Search!vars)
           /\ scene = "share" => [Share!Next]_(Share!vars)
           /\ scene = "queue" => [Queue!Next]_(Queue!vars)
  <1>1. CASE UNCHANGED siteVars
    <2>1. UNCHANGED <<scene, acts, page, run, injected, read, epoch, sent, topics, chain, wallet, reads, genesis,
                      time, fetches, book, height, vault, left, request, cached, wants, jobs>>
      BY <1>1 DEF siteVars, acting, trading, creating, reading, listing, sharing, queueing
    <2>2. /\ UNCHANGED Trade!vars /\ UNCHANGED Create!vars /\ UNCHANGED Vault!vars /\ UNCHANGED Genesis!vars
          /\ UNCHANGED Explore!vars /\ UNCHANGED Hook!vars /\ UNCHANGED Search!vars /\ UNCHANGED Share!vars
          /\ UNCHANGED Queue!vars
      BY <2>1 DEF Trade!vars, Create!vars, Vault!vars, Genesis!vars, Explore!vars, Hook!vars, Search!vars,
                  Share!vars, Queue!vars
    <2>3. QED
      BY <2>1, <2>2
  <1>2. CASE SiteNext
    BY <1>2 DEF SiteNext, InTrade, InQueue, InHistory
  <1>3. QED
    BY <1>1, <1>2

LEMMA SiteStepInvariant == SiteInv /\ [SiteNext]_siteVars => SiteInv'
  <1> SUFFICES ASSUME SiteInv, [SiteNext]_siteVars PROVE SiteInv'
    OBVIOUS
  <1>1. scene' = scene
    BY SiteStepIs
  <1>2. scene = "trade" => TradeInv'
    BY SiteStepIs, TradeStep DEF SiteInv
  <1>3. scene = "create" => CreateInv'
    BY SiteStepIs, CreateStep DEF SiteInv
  <1>4. scene = "vault" => QuoteHolds' /\ PayoutHolds'
    BY SiteStepIs, QuoteStep, PayoutStep DEF SiteInv
  <1>5. scene = "genesis" => GenesisInv'
    BY SiteStepIs, GenesisStep DEF SiteInv
  <1>6. scene = "explore" => ExploreInv'
    BY SiteStepIs, ExploreStep DEF SiteInv
  <1>7. scene = "wallet" => HookInv'
    BY SiteStepIs, HookStep DEF SiteInv
  <1>8. scene = "search" => SearchInv'
    BY SiteStepIs, SearchStep DEF SiteInv
  <1>9. scene = "share" => ShareInv'
    BY SiteStepIs, ShareStep DEF SiteInv
  <1>10. scene = "queue" => QueueInv'
    BY SiteStepIs, QueueStep DEF SiteInv
  <1>11. QED
    BY <1>1, <1>2, <1>3, <1>4, <1>5, <1>6, <1>7, <1>8, <1>9, <1>10 DEF SiteInv

\* In every scene the invariant of the machine that is on holds.
THEOREM SiteInvariance == SiteSpec => []SiteInv
  <1>1. SiteInit => SiteInv
    BY SiteInitInvariant
  <1>2. SiteInv /\ [SiteNext]_siteVars => SiteInv'
    BY SiteStepInvariant
  <1>3. QED
    BY <1>1, <1>2, PTL DEF SiteSpec

\* What a page or a card shows is true of the chain it was read from, however late, in
\* whatever order or not at all its reads answered; a creation sends what it attests; a
\* searched block range is exact; a cached share is final; the queue serves whoever waits.
THEOREM ShownIsTrueTheorem == SiteSpec => []ShownIsTrue
  <1>1. SiteInv => ShownIsTrue
    <2> SUFFICES ASSUME SiteInv PROVE ShownIsTrue
      OBVIOUS
    <2>1. scene = "trade" => Trade!LiveViewIsOfThePage
      BY DEF SiteInv, TradeInv
    <2>2. scene = "create" => Create!SentAsAttested
      BY DEF SiteInv, CreateInv
    <2>3. scene = "vault" => Vault!QuoteIsForTheForm /\ Vault!ShownPayoutIsPaid
      BY QuoteShows, PayoutShows DEF SiteInv
    <2>4. scene = "genesis" => Genesis!BudgetIsLeast
      BY GenesisQuotes DEF SiteInv
    <2>5. scene = "explore" => Explore!CardsAreTrue
      BY ExploreShows DEF SiteInv
    <2>6. scene = "wallet" => Hook!AtRestItIsTheWallets
      BY HookHolds DEF SiteInv
    <2>7. scene = "search" => Search!RangeIsExact
      BY SearchHolds DEF SiteInv
    <2>8. scene = "share" => Share!CachedIsTrue
      BY ShareHolds DEF SiteInv
    <2>9. scene = "queue" => Queue!ForegroundIsServed
      BY QueueHolds DEF SiteInv
    <2>10. QED
      BY <2>1, <2>2, <2>3, <2>4, <2>5, <2>6, <2>7, <2>8, <2>9 DEF ShownIsTrue
  <1>2. QED
    BY <1>1, SiteInvariance, PTL

\* What the user is asked to sign is what the user saw: a trade, a stake or a proposal is
\* for the market and the account on the page, any other action for that account, and a
\* Genesis purchase gives at least the shares of the form.
THEOREM NothingStaleIsSignedTheorem == SiteSpec => NothingStaleIsSigned
  <1>1. SiteInv /\ [SiteNext]_siteVars =>
          [ /\ scene = "trade" => Trade!AsksAsShown
            /\ scene = "genesis" => Genesis!GivesAsAsked ]_siteVars
    <2> SUFFICES ASSUME SiteInv, [SiteNext]_siteVars
                 PROVE  /\ scene = "trade" => Trade!AsksAsShown
                        /\ scene = "genesis" => Genesis!GivesAsAsked
      OBVIOUS
    <2>1. scene = "trade" => Trade!AsksAsShown
      BY SiteStepIs, TradeAsks DEF SiteInv
    <2>2. scene = "genesis" => Genesis!GivesAsAsked
      BY SiteStepIs, GenesisGives DEF SiteInv
    <2>3. QED
      BY <2>1, <2>2
  <1>2. QED
    BY <1>1, SiteInvariance, PTL DEF SiteSpec, NothingStaleIsSigned

LEMMA PaperStepIs ==
    ASSUME [SiteNext]_siteVars
    PROVE  scene' = scene /\ (scene = "paper" => [Paper!Next]_(Paper!vars))
  <1>1. CASE UNCHANGED siteVars
    <2>1. UNCHANGED <<scene, acts, time, book>>
      BY <1>1 DEF siteVars, acting, listing
    <2>2. QED
      BY <2>1 DEF Paper!vars
  <1>2. CASE SiteNext
    BY <1>2 DEF SiteNext, InTrade, InQueue, InHistory
  <1>3. QED
    BY <1>1, <1>2

\* The book of a market on the paper server adds up: for any players, amounts and times no
\* order is refused by the assertion that ends it, and the budgets of a settled market are
\* what may still be claimed.  Of the logarithm it is known that b ln(1 + e^(-d/b)) is at
\* most b.
THEOREM PaperBookHoldsTheorem ==
    ASSUME Paper!SlackIsBounded
    PROVE  SiteSpec => []PaperBookHolds
  <1> DEFINE Inv == scene = "paper" => BookInv
  <1>1. SiteInit => Inv
    BY InitBook DEF SiteInit
  <1>2. Inv /\ [SiteNext]_siteVars => Inv'
    <2> SUFFICES ASSUME Inv, [SiteNext]_siteVars PROVE Inv'
      OBVIOUS
    <2>1. scene' = scene
      BY PaperStepIs
    <2>2. scene = "paper" => BookInv'
      BY PaperStepIs, NextBook
    <2>3. QED
      BY <2>1, <2>2
  <1>3. Inv => PaperBookHolds
    BY BookInvHolds DEF PaperBookHolds
  <1>4. QED
    BY <1>1, <1>2, <1>3, PTL DEF SiteSpec
=============================================================================
