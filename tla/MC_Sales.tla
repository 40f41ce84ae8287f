------------------------------ MODULE MC_Sales ------------------------------
(* One invoice of two units, two drawers, two concurrent requests.         *)
EXTENDS Sales, TLC

CONSTANTS s1, b1, b2, r1, r2

MCRequests == {r1, r2}
MCBoxes == {b1, b2}

T(method, amount, b) == [method |-> method, amount |-> amount, box |-> b]

\* Unpaid, half in cash and half on credit, half on credit, half by card.
MCTenderLists ==
  { <<>>, <<T("CASH", 1, b1), T("CREDIT", 1, b1)>>, <<T("CREDIT", 1, b1)>>,
    <<T("CARD", 1, NoBox)>> }

MCRefundTargets == {b1, "CREDIT"}

MCCollectBoxes == {b1, NoBox}

Unpaid == { <<>> }
HalfOnCredit == { <<T("CREDIT", 1, b1)>> }
FirstBox == {b1}

Symmetry == Permutations(MCRequests)
=============================================================================
