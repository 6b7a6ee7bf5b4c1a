\* Two configured tables, five addresses, tables of two entries: three tables
\* fill up, so two flush threads can be busy while the third table is replaced.
\* No symmetry: the run checks liveness.
CONSTANTS
    Tables = {a, b, c, d, e}
    NULL = NULL
    NumTables = 2
    Capacity = 2
    MaxAppends = 7
SPECIFICATION Spec
INVARIANTS ListInv EntriesConserved
PROPERTY FlushedTablesFreed
CHECK_DEADLOCK FALSE
