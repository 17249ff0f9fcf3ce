\* print_two_threads: two threads print at once over the shared globals.
CONSTANTS
    t1 = t1  t2 = t2  o1 = o1  o2 = o2  o3 = o3  None = None
    Threads = {t1, t2}
    Objs = {o1, o2}
    Markable = {o1, o2}
    Unreadable = {}
    MaxSlots = 2
    MaxDepth = 4
    MaxInterrupts = 0
SPECIFICATION Spec
INVARIANT PrintStackInBounds
