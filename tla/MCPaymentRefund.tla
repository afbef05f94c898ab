-------------------------- MODULE MCPaymentRefund --------------------------
(* Instances of PaymentRefund for TLC. *)
EXTENDS PaymentRefund, TLC

\* Requests are interchangeable.
Symmetry == Permutations(Workers)
=============================================================================
