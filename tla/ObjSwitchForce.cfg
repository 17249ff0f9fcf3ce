\* force_switch_lost_cell: both threads call FORCE_SWITCH_OBJ.
CONSTANTS
    t1 = t1  t2 = t2
    h1 = h1  h2 = h2  h3 = h3
    r1 = r1  r2 = r2
    Public = Public  None = None
    Threads = {t1, t2}
    Handles = {h1, h2, h3}
    Regions = {r1, r2}
    Owner <- OwnerMap
    ForceThreads = {t1, t2}
SPECIFICATION Spec
INVARIANT HandlesPermuteCells
SYMMETRY HandleSymmetry
