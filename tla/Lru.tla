--------------------------------- MODULE Lru --------------------------------
(***************************************************************************)
(* What the sstable cache promises: it holds the Capacity keys used last,  *)
(* in the order of their last use, each with the value it was first put    *)
(* with.                                                                   *)
(***************************************************************************)
EXTENDS Naturals, Sequences, SequencesExt

CONSTANTS Keys, Values, Capacity

VARIABLES
    order,   \* the keys held, used last first
    value,   \* the value of every key held
    recent   \* the key used last, as a sequence, which is empty before any use

lruVars == <<order, value, recent>>

LruInit == order = <<>> /\ value = <<>> /\ recent = <<>>

Held(key) == Contains(order, key)

\* A use of a key that is held, a get or a put that keeps the old value, puts it
\* in front.
Use(key) ==
    /\ \E i \in DOMAIN order : order[i] = key /\ order' = <<key>> \o RemoveAt(order, i)
    /\ recent' = <<key>>
    /\ UNCHANGED value

\* A put of a key that is not held pushes out the key used longest ago.
Insert(key, v) ==
    /\ ~ Held(key)
    /\ order' = SubSeq(<<key>> \o order, 1,
                       IF Len(order) < Capacity THEN Len(order) + 1 ELSE Capacity)
    /\ value' = [k \in Range(order') |-> IF k = key THEN v ELSE value[k]]
    /\ recent' = <<key>>

LruNext == \E k \in Keys : Use(k) \/ \E v \in Values : Insert(k, v)

LruSpec == LruInit /\ [][LruNext]_lruVars
=============================================================================
