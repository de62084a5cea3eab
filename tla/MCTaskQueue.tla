---------------------------- MODULE MCTaskQueue ----------------------------
(* The queue on instances small enough for TLC.  The sessions are          *)
(* interchangeable.                                                        *)
EXTENDS TaskQueue, TLC

SessionSymmetry == Permutations(Sessions)
=============================================================================
