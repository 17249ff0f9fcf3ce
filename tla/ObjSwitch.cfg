\* switch_exclusive: t1 may call SWITCH_OBJ and FORCE_SWITCH_OBJ, t2 only
\* SWITCH_OBJ, on three handles in every start distribution over r1, r2
\* and the public region.
CONSTANTS
    t1 = t1  t2 = t2
    h1 = h1  h2 = h2  h3 = h3
    r1 = r1  r2 = r2
    Public = Public  None = None
    Threads = {t1, t2}
    Handles = {h1, h2, h3}
    Regions = {r1, r2}
    Owner <- OwnerMap
    ForceThreads = {t1}
SPECIFICATION Spec
INVARIANT TypeOK
INVARIANT HandlesPermuteCells
PROPERTY NoForeignWrite
PROPERTY SwitchRefinesAtomic
SYMMETRY HandleSymmetry
