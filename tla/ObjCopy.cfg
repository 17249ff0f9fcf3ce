\* copy_clean: every copy, on every graph of two objects of which any may
\* be non-copyable, with a second top-level call (a copy or a
\* MakeImmutable) after it: copies that complete and copies that panic.
CONSTANTS
    LAST_CONSTANT_TNUM = 0  LAST_RECORD_TNUM = 1  LAST_LIST_TNUM = 2
    T_COMOBJ = 3  T_POSOBJ = 4  T_DATOBJ = 5  LAST_REAL_TNUM = 5  COPYING = 5
    o1 = o1  o2 = o2
    n1 = n1  n2 = n2  n3 = n3  n4 = n4
    NULL = NULL  Imm = Imm
    Objs = {o1, o2}
    Fresh = {n1, n2, n3, n4}
    NonCopyable = {}
    MaxSlots = 2
    TypeFilters <- AllFilters
    MaxOps = 2
SPECIFICATION AnyCopyableSpec
\* The model bounds the number of top-level calls by MaxOps; a state in
\* which all of them have returned has no successor.
CHECK_DEADLOCK FALSE
INVARIANT TypeOK
INVARIANT CopyFaithful
INVARIANT CleanRestoresSource
INVARIANT MarkIffForwarded
PROPERTY CopyRefinesAtomic
SYMMETRY HeapSymmetry
