---------------------------- MODULE MCMemtables -----------------------------
(* Small instances of the memtable list for TLC. *)
EXTENDS Memtables, TLC

TableSymmetry == Permutations(Tables)
=============================================================================
