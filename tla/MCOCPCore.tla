------------------------------ MODULE MCOCPCore ------------------------------
(***************************************************************************)
(* Model checking of OCPCore with its history.  A topic whose market has    *)
(* graduated is where the interesting life of the vault begins: most runs   *)
(* start there, at the state VaultCoreAdapter.bind and the graduation leave *)
(* behind, and let nobody touch the set-up any more.  The set-up itself is  *)
(* checked from the constructor (HSpec).                                    *)
(***************************************************************************)
EXTENDS OCPCoreHistory, TLC

UserSymmetry == Permutations(Users)

LaunchedInit ==
    /\ EmptyVault
    /\ permissionless = TRUE /\ earlyTerminationModule = TRUE
    /\ market = "formal" /\ marketCoordinator = TRUE
    /\ authorizedMarkets = ExtraMarkets
    /\ earned = [u \in Users |-> ZeroBooks]
    /\ deadlineVotes = totalStake
    /\ uninvited = 0

LaunchedSpec == LaunchedInit /\ [][HNext]_hvars
FairLaunchedSpec == LaunchedSpec /\ Fairness
==============================================================================
