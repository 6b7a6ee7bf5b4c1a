------------------------------- MODULE KvStore ------------------------------
(***************************************************************************)
(* The chained hash table of src/src/kvstore.c, which the sstable cache,   *)
(* the session table and the command table are built on.  A bin is the     *)
(* sequence of its entries, first in the chain first.  What the destroy    *)
(* callback does to a key and a value is the business of the user of the   *)
(* table.                                                                  *)
(***************************************************************************)
EXTENDS Naturals, Sequences, SequencesExt, FiniteSetsExt

CONSTANTS
    BinCount,    \* kv->capacity
    HashOf(_)    \* kv->ops.hash, before it is reduced to a bin

ASSUME BinCountAssumption == BinCount \in Nat \ {0}

Bins == 0 .. BinCount - 1

\* racs_kvstore_create: every bin empty.
KvEmpty == [b \in Bins |-> <<>>]

\* racs_kvstore_get_bin
GetBin(key) == HashOf(key) % BinCount

\* Positions of a key in its bin.
Matches(kv, key) == {i \in DOMAIN kv[GetBin(key)] : kv[GetBin(key)][i].key = key}

KvHas(kv, key) == Matches(kv, key) # {}

\* racs_kvstore_get: the first match in the chain, for a key the table has.
KvGet(kv, key) == kv[GetBin(key)][Min(Matches(kv, key))].value

\* racs_kvstore_delete: the first match is unlinked.
KvDelete(kv, key) ==
    IF KvHas(kv, key)
      THEN [kv EXCEPT ![GetBin(key)] = RemoveAt(@, Min(Matches(kv, key)))]
      ELSE kv

\* racs_kvstore_put: a match is deleted, and the new entry becomes the first of
\* the chain (racs_kvstore_bin_append).
KvPut(kv, key, value) ==
    [KvDelete(kv, key) EXCEPT
        ![GetBin(key)] = <<[key |-> key, value |-> value]>> \o @]

-----------------------------------------------------------------------------
(* What a user of the table relies on *)

KvEntries(kv) == UNION {Range(kv[b]) : b \in Bins}

\* Every entry is in the bin of its key, and no key is in a chain twice.
KvIsMap(kv) ==
    \A b \in Bins : \A i, j \in DOMAIN kv[b] :
        /\ GetBin(kv[b][i].key) = b
        /\ kv[b][i].key = kv[b][j].key => i = j
=============================================================================
