-------------------------- MODULE MC_GeneralLedger --------------------------
(* A ledger with cash, retained earnings, revenue and expense accounts, one *)
(* document, and two concurrent transactions.                               *)
EXTENDS GeneralLedger, TLC

CONSTANTS cash, retained, revenue, expense, d1, t1, t2

MCPermanent == {cash, retained}
MCTemporary == {revenue, expense}
MCDocuments == {d1}
MCTxs == {t1, t2}

Posting(debited, credited) ==
  [a \in MCPermanent \cup MCTemporary |->
     IF a = debited THEN 1 ELSE IF a = credited THEN -1 ELSE 0]

MCDocumentLines == {Posting(cash, revenue), Posting(expense, cash)}

Symmetry == Permutations(MCTxs)
=============================================================================
