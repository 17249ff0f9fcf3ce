\* print_break_loop: a print in the break loop of an interrupted print.
CONSTANTS
    t1 = t1  t2 = t2  o1 = o1  o2 = o2  o3 = o3  None = None
    Threads = {t1}
    Objs = {o1, o2}
    Markable = {o1, o2}
    Unreadable = {}
    MaxSlots = 2
    MaxDepth = 4
    MaxInterrupts = 1
SPECIFICATION Spec
INVARIANT BackRefDenotes
