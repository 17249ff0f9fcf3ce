\* shallow_make_immutable: from hereditary start states, MakeImmutable then
\* DEEP_COPY_OBJ.
CONSTANTS
    LAST_CONSTANT_TNUM = 0  LAST_RECORD_TNUM = 1  LAST_LIST_TNUM = 2
    T_COMOBJ = 3  T_POSOBJ = 4  T_DATOBJ = 5  LAST_REAL_TNUM = 5  COPYING = 5
    o1 = o1  o2 = o2
    n1 = n1  n2 = n2  n3 = n3  n4 = n4
    NULL = NULL  Imm = Imm
    Objs = {o1, o2}
    Fresh = {n1, n2, n3, n4}
    NonCopyable = {}
    MaxSlots = 2
    TypeFilters = {}
    MaxOps = 2
SPECIFICATION HereditarySpec
CHECK_DEADLOCK FALSE
INVARIANT DeepCopyUnaliased
