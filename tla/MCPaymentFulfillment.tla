------------------------ MODULE MCPaymentFulfillment ------------------------
(***************************************************************************)
(* PaymentFulfillment on small instances.                                  *)
(***************************************************************************)
EXTENDS PaymentFulfillment, TLC

\* Workers are interchangeable (safety runs only).
WorkerSymmetry == Permutations(Workers)
=============================================================================
