--------------------------- MODULE MCIdempotency ---------------------------
(* Two requests that may carry different payloads under the same key.      *)
EXTENDS Idempotency
=============================================================================
