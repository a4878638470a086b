--------------------------- MODULE MCTransactions ---------------------------
(* Two operations and two bytes to a batch: either limit is reached first, *)
(* by one operation and by sums.                                           *)
EXTENDS Transactions
=============================================================================
