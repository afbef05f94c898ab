----------------------------- MODULE MCBatchImage -----------------------------
(* Two workers that may take the same job.                                 *)
EXTENDS BatchImage

CONSTANTS w1, w2
=============================================================================
