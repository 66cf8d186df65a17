---------------------------- MODULE MCServerLocks -----------------------------
(* ServerLocks for TLC.                                                     *)
EXTENDS ServerLocks, TLC

CONSTANTS c1, c2, c3

=============================================================================
