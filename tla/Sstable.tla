------------------------------- MODULE Sstable ------------------------------
(***************************************************************************)
(* The layout of an sstable file (src/src/memtable.c): a header with the   *)
(* length of the file, the entries one after the other, an index with the  *)
(* offset of every entry, and the number of entries as a trailer.  A file  *)
(* is its length, the number in its trailer, and what starts at each byte  *)
(* offset of the entries and of the index.                                 *)
(*                                                                         *)
(* An entry is a record with at least stream, ts and bytes, the size of    *)
(* its block.                                                              *)
(***************************************************************************)
EXTENDS Integers, Sequences

HeaderSize == 16
EntryMetadataSize == 31
IndexEntrySize == 24
TrailerSize == 2

\* racs_memtable_to_sstable: the offset of entry i, and behind the last entry
\* the offset of the index (racs_memtable_entry_write advances it).
EntryOffset(table, i) ==
    LET offset[j \in 0 .. Len(table)] ==
            IF j = 0 THEN HeaderSize
            ELSE offset[j - 1] + EntryMetadataSize + table[j].bytes
    IN  offset[i - 1]

\* The file racs_memtable_write makes of a table.
SstableWrite(table) ==
    LET n == Len(table)
        index == EntryOffset(table, n + 1)
    IN  [size |-> index + n * IndexEntrySize + TrailerSize,
         count |-> n,
         entryAt |-> [o \in {EntryOffset(table, i) : i \in 1..n} |->
                        table[CHOOSE i \in 1..n : EntryOffset(table, i) = o]],
         indexAt |-> [o \in {index + (i - 1) * IndexEntrySize : i \in 1..n} |->
                        EntryOffset(table, (o - index) \div IndexEntrySize + 1)]]

\* racs_sstable_read_in_memory: the index is found from the end of the file.
IndexOffset(file, i) ==
    file.size - file.count * IndexEntrySize - TrailerSize + (i - 1) * IndexEntrySize

\* racs_memtable_entry_read of every entry of the index; the checksum was
\* verified when the frame came in, and the file is written by one thread.
SstableRead(file) ==
    [i \in 1 .. file.count |-> file.entryAt[file.indexAt[IndexOffset(file, i)]]]
=============================================================================
