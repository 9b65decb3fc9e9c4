------------------------------ MODULE MCPayments ------------------------------
(* Instances of Payments for TLC. *)
EXTENDS Payments, TLC

\* One booking costs 2, any other nothing.
Price == LET dear == CHOOSE b \in Bookings : TRUE
         IN  [b \in Bookings |-> IF b = dear THEN 2 ELSE 0]

\* Amounts of either sign; and with them nothing and a part of a price.
SignedAmounts == {-1, 2}
AllAmounts == {-1, 0, 1, 2}

\* Requests and ids of payments are interchangeable.
Symmetry == Permutations(Requests) \cup Permutations(PaymentIds)
=============================================================================
