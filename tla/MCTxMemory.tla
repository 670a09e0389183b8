----------------------------- MODULE MCTxMemory -----------------------------
(* Transactions of two units each, or one of two and the others of one.     *)
EXTENDS TxMemory, TLC

CONSTANT Big

OneIsBig == [t \in Txs |-> IF t = Big THEN 2 ELSE 1]
TwoUnits == [t \in Txs |-> 2]
UpToOne == {S \in SUBSET Txs : Cardinality(S) <= 1}
Symmetry == Permutations(Txs)
=============================================================================
