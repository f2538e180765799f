-------------------------- MODULE MCPurchaseDelivery --------------------------
(* TLC instances of PurchaseDelivery. *)
EXTENDS PurchaseDelivery, TLC

CONSTANTS m1, m2, b1, d1, d2, w1, w2

\* A contract that names its dataset, and one that names the empty string.
EmptyAndNamed == m1 :> d1 @@ m2 :> Empty

\* Claims of the first transaction, which may be of the other contract, or not be on the
\* chain yet; with a dataset that the contract does not name, or none.
WrongBodies == [tx: {1}, purchase: [merch: {m2}, buyer: {b1}], dataset: {d1, Empty}]

Symmetry == Permutations({w1, w2})
=============================================================================
