----------------------------- MODULE MCLruCache -----------------------------
EXTENDS LruCache
CONSTANTS n1, n2, n3, n4
MCNodes == {n1, n2, n3, n4}
\* Keys 0 and 3 share a bin of the three.
MCHash(key) == key
NodeSymmetry == Permutations(MCNodes)
=============================================================================
