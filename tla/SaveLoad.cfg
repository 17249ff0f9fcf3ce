\* save_load_round_trip: a workspace of two objects of any kinds, saved in
\* either order, is loaded back object by object.
CONSTANTS
    LAST_CONSTANT_TNUM = 0  LAST_RECORD_TNUM = 1  LAST_LIST_TNUM = 2
    T_COMOBJ = 3  T_POSOBJ = 4  T_DATOBJ = 5  LAST_REAL_TNUM = 5  COPYING = 5
    a = a  b = b  T = T  r1 = r1
    Objs = {a, b}
    Types = {T}
    RNams = {r1}
    Bytes = {0, 1}
    W = 2
    MaxLen = 3
SPECIFICATION Spec
\* A loaded workspace is finished: nothing follows its last object.
CHECK_DEADLOCK FALSE
INVARIANT TypeOK
INVARIANT LoadRebuildsSaved
