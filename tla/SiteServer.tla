------------------------------ MODULE SiteServer ------------------------------
(***************************************************************************)
(* What the functions behind the site keep between requests: the history   *)
(* index, which is extended, and a market of the paper server, which is an *)
(* instance.  Site puts them beside the pages.                             *)
(***************************************************************************)
EXTENDS ChainHistory, Integers

CONSTANTS
    Accounts,
    Creator, Grant, K, RTarget, Slack(_, _), Shares, Lots, Budgets,
    Stakes, Bond, TC, Eps, MaxOrders                                \* PaperMarket

VARIABLES acts, time,
          book                                        \* PaperMarket

Paper == INSTANCE PaperMarket WITH Users <- Accounts, None <- Nobody

ASSUME PaperAssumption == Paper!PaperMarketAssumption /\ Paper!StartsAreReached
=============================================================================
