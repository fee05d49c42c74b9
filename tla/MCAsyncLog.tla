----------------------------- MODULE MCAsyncLog -----------------------------
(* AsyncLog with a few buffers of a few lines. *)
EXTENDS AsyncLog

CONSTANTS b1, b2, b3, b4, b5, b6, b7, b8, b9
=============================================================================
