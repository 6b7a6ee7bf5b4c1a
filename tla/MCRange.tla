------------------------------- MODULE MCRange ------------------------------
EXTENDS Range
\* The streams start at different times, so that their names rarely collide.
MCRef == [s \in Streams |-> IF s = "vocals" THEN 0 ELSE 3]
MCAudio == [k \in Kinds |-> IF k = "sound" THEN 2 ELSE 0]
MCBytes == [k \in Kinds |-> IF k = "sound" THEN 5 ELSE 3]
\* Directories of four and of two units.
MCUnits == <<4, 2, 1>>
=============================================================================
