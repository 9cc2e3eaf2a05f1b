----------------------------- MODULE MCPaperStore -----------------------------
(***************************************************************************)
(* Model checking of PaperStore: who sits at which tab.                     *)
(***************************************************************************)
EXTENDS PaperStore, TLC

CONSTANTS u1, u2, t1, t2, m1, m2, i1

OneOwner == t1 :> u1 @@ t2 :> u1
TwoOwners == t1 :> u1 @@ t2 :> u2

(* A server in use: the users have their grants, and every market is open.   *)
(* Where i1 is not among the Ids, markets were opened under ids of the past.  *)
Opener == m1 :> u1 @@ m2 :> u2
Opened(u) == {m \in Markets : Opener[m] = u}
OpenedInit ==
    LET grant == Entry(None, 0, InitialGrant)
    IN /\ granted = Users
       /\ wallet = [u \in Users |-> InitialGrant]
       /\ markets = [m \in Markets |-> NewDocument(Opener[m])]
       /\ requests = [u \in Users |-> [i \in Ids |->
            IF i = i1 /\ Opened(u) # {}
            THEN Request(OrderOf(u, i1, "create", None, 0, 0),
                         CHOOSE m \in Opened(u) : TRUE, NewDocument(u), InitialGrant)
            ELSE None]]
       /\ journal = [u \in Users |-> IF Opened(u) = {} THEN <<grant>>
                       ELSE <<grant, Entry(i1, InitialGrant, InitialGrant)>>]
       /\ due = {}
       /\ EmptyServer

OpenedSpec == OpenedInit /\ [][Next]_vars
FairOpenedSpec == OpenedSpec /\ Fairness
(* From that state, every step is one the ledger may take. *)
RefinesLedgerSteps == [][Ledger!Next]_ledger

SlotSymmetry == Permutations(Slots)
(* When one user owns both tabs; i1 has been used by the opening of a market. *)
OwnerSymmetry == SlotSymmetry \cup Permutations(Tabs) \cup Permutations(Ids \ {i1})
==============================================================================
