\* print_lists: one thread prints and views lists and records only, without
\* interrupts; one of them lies in a region the thread may not read.
CONSTANTS
    t1 = t1  t2 = t2  o1 = o1  o2 = o2  o3 = o3  None = None
    Threads = {t1}
    Objs = {o1, o2, o3}
    Markable = {o1, o2, o3}
    Unreadable = {o3}
    MaxSlots = 2
    MaxDepth = 4
    MaxInterrupts = 0
SPECIFICATION Spec
INVARIANT BackRefDenotes
INVARIANT NoDepthStop
