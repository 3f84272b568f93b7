----------------------------- MODULE MCTaskWork -----------------------------
(* An instance of TaskWork for TLC.                                          *)
EXTENDS TaskWork, TLC

CONSTANTS b0, w1, w2

MCBase == {b0}
=============================================================================
