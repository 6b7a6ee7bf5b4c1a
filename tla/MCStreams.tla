------------------------------ MODULE MCStreams -----------------------------
EXTENDS Streams
\* Both streams fall into one of two bins.
MCHash(key) == IF key = "vocals" THEN 1 ELSE 3
=============================================================================
