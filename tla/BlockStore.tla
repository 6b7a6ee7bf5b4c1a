----------------------------- MODULE BlockStore -----------------------------
(***************************************************************************)
(* What the storage path promises a client while the server stays up: an   *)
(* append-only set of blocks.  A block is stored once, and only then       *)
(* answered for, after every block appended before it, at a time that does *)
(* not lie before the blocks its stream already has; nothing else ever     *)
(* changes the set, in particular no flush, rotation or truncation.        *)
(***************************************************************************)
EXTENDS Integers

CONSTANT StreamOf   \* stream of each kind of frame

VARIABLES
    stored,         \* the blocks, records with fields id, kind and ts
    acked           \* the blocks whose append was answered

Init == stored = {} /\ acked = {}

Store(b) ==
    /\ \A c \in stored :
         /\ c.id < b.id
         /\ StreamOf[c.kind] = StreamOf[b.kind] => c.ts <= b.ts
    /\ stored' = stored \cup {b}
    /\ acked' = acked \cup {b}

Next == \E b \in stored' \ stored : Store(b)

Spec == Init /\ [][Next]_<<stored, acked>>
=============================================================================
