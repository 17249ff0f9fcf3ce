\* print_mixed: a markable and an unmarkable object, and one interrupt whose break loop prints.
CONSTANTS
    t1 = t1  t2 = t2  o1 = o1  o2 = o2  o3 = o3  None = None
    Threads = {t1}
    Objs = {o1, o2}
    Markable = {o1}
    Unreadable = {}
    MaxSlots = 2
    MaxDepth = 4
    MaxInterrupts = 1
SPECIFICATION Spec
INVARIANT TypeOK
INVARIANT PrintStackInBounds
PROPERTY StackRestored
