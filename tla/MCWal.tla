------------------------------- MODULE MCWal -------------------------------
(* A small instance of the write-ahead log for TLC. *)
EXTENDS Wal, TLC

\* Two records fit below the segment limit of the instance.
MCSize == [op \in Ops |-> 2]
FlusherSymmetry == Permutations(Flushers)
=============================================================================
