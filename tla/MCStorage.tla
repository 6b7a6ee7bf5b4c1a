----------------------------- MODULE MCStorage ------------------------------
(* Small instances of the storage path for TLC. *)
EXTENDS Storage, TLC

\* Kinds of frames: s1 and s2 send two bytes raw, z1 four bytes compressed to
\* two.  A byte of audio lasts a millisecond, a block two.
MCStreamOf == [k \in Kinds |-> IF k = "s2" THEN "b" ELSE "a"]
MCRawOf == [k \in Kinds |-> IF k = "z1" THEN 4 ELSE 2]
SpacedRef == [s \in Streams |-> IF s = "a" THEN 0 ELSE 100]
SameRef == [s \in Streams |-> 0]
FlusherSymmetry == Permutations(Flushers)
=============================================================================
