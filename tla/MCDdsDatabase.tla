---------------------------- MODULE MCDdsDatabase ----------------------------
(* Instances of DdsDatabase for TLC.                                        *)
EXTENDS DdsDatabase, TLC

\* Threads are interchangeable; nodes are not, as Writers names some of them.
ThreadSymmetry == Permutations(Threads)
=============================================================================
