---------------------------- MODULE MCSessionLock ----------------------------
(***************************************************************************)
(* Small instances of SessionLock.                                         *)
(***************************************************************************)
EXTENDS SessionLock, TLC

CONSTANTS r1, r2, w1, w2

MCReader == {r1, r2}
MCWriter == {w1, w2}
=============================================================================
