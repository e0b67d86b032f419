----------------------------- MODULE MCDirLock -----------------------------
(* Three instances on one data directory, one of them read-only.           *)
EXTENDS DirLock, TLC

CONSTANTS p1, p2, p3

MCProcs == {p1, p2, p3}
MCReadOnly == {p3}
=============================================================================
