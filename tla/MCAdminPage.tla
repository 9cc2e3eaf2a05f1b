----------------------------- MODULE MCAdminPage -----------------------------
(***************************************************************************)
(* Model checking of AdminPage.  The initial state chooses a scene: one    *)
(* tab alone, with a retry and a second transaction of its account; or a   *)
(* pair of tabs that follow one request.  Rivals are two tabs of which     *)
(* each may ask the wallet.                                                *)
(***************************************************************************)
EXTENDS AdminPage

CONSTANTS t1, t2, v1

VARIABLE scene

\* One question, so that every creation but the first is a duplicate.
MCTabs == {t1, t2}
MCReviews == {v1}
MCQuestion == [v \in MCReviews |-> v1]

\* t1 is alone: t2 is never opened.
Alone == scene = "alone" /\ (Outside \/ InTab(t1))
\* Bounds of the other scenes.
Pair == scene = "pair" /\ Next /\ Len(asked') <= 1 /\ Len(mined') <= 1
Rivals == scene = "rivals" /\ Next /\ Len(mined') <= 1

SceneInit == Init /\ scene \in {"alone", "pair"}
SceneNext == (Alone \/ Pair) /\ UNCHANGED scene
SceneSpec == SceneInit /\ [][SceneNext]_<<vars, scene>> /\ Fairness(t1)

RivalsSpec == scene = "rivals" /\ Init /\ [][Rivals /\ UNCHANGED scene]_<<vars, scene>>

-----------------------------------------------------------------------------
\* Once the nonce is taken for good, a page that is alone finds out and unlocks,
\* or offers to.
RecordIsResolvedAlone == scene = "alone" => RecordIsResolved
==============================================================================
