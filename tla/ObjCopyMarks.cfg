\* copy_marks_after_panic: a panicking copy leaves +COPYING marks behind.
CONSTANTS
    LAST_CONSTANT_TNUM = 0  LAST_RECORD_TNUM = 1  LAST_LIST_TNUM = 2
    T_COMOBJ = 3  T_POSOBJ = 4  T_DATOBJ = 5  LAST_REAL_TNUM = 5  COPYING = 5
    o1 = o1  o2 = o2
    n1 = n1  n2 = n2  n3 = n3  n4 = n4
    NULL = NULL  Imm = Imm
    Objs = {o1, o2}
    Fresh = {n1, n2, n3, n4}
    NonCopyable = {o2}
    MaxSlots = 2
    TypeFilters <- AllFilters
    MaxOps = 2
SPECIFICATION Spec
CHECK_DEADLOCK FALSE
INVARIANT NoCopyingMarkAfterCopy
