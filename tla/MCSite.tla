-------------------------------- MODULE MCSite --------------------------------
(***************************************************************************)
(* The site on a small instance: two accounts, the topics a vault page is   *)
(* opened on, and a market maker close to the logarithmic one.              *)
(***************************************************************************)
EXTENDS Site, TLC

CONSTANTS a1, a2

\* Topics a vault page may be opened on: late, with two stakers; open, with shares; of
\* another factory; resolved INVALID, with shares, penalties in the pool and two who may
\* claim (3 and 1 of the 5, the last of them the rest).
MCTopics ==
    LET t == [canonical |-> TRUE, late |-> FALSE, resolved |-> FALSE, outcome |-> "PENDING",
              pool |-> 0, left |-> 0, claims |-> 0, claimed |-> {}, price |-> 100,
              stake |-> (a1 :> 2 @@ a2 :> 1), side |-> (a1 :> "YES" @@ a2 :> "NO"),
              fees |-> [a \in Accounts |-> 1], shares |-> [a \in Accounts |-> [s \in {"YES", "NO"} |-> 0]],
              forVault |-> [a \in Accounts |-> 0], forMarket |-> [a \in Accounts |-> 0]]
        held == [t EXCEPT !.shares[a1] = [s \in {"YES", "NO"} |-> IF s = "YES" THEN 1 ELSE 0]]
    IN  {[t EXCEPT !.late = TRUE], [held EXCEPT !.stake[a1] = 0], [t EXCEPT !.canonical = FALSE],
         [held EXCEPT !.late = TRUE, !.resolved = TRUE, !.outcome = "INVALID",
                      !.side[a1] = "INVALID", !.pool = 5, !.left = 5, !.claims = 2]}

\* b ln(1 + e^(-d/b)) is nearly 0.69 b / (1 + 0.72 d/b).
MCSlack(d, b) == (b * ((69000 * b) \div (100 * b + 72 * d))) \div 1000

\* The topics whose market has shares out.
MCLaunches == {t \in MCTopics : \E a \in Accounts : t.shares[a]["YES"] > 0}
=============================================================================
