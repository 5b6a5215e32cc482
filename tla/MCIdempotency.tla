--------------------------- MODULE MCIdempotency ---------------------------
\* Deliveries of one change for TLC.
EXTENDS Idempotency
CONSTANTS r1, r2, r3
=============================================================================
