----------------------------- MODULE MCObjCopy -----------------------------
(* Instantiates ObjCopy for TLC.  Two source objects already give a cycle  *)
(* (o1 -> o2 -> o1), a self-loop, a subobject shared by two slots and an   *)
(* unbound slot.  Each copy allocates at most one cell per source object, *)
(* so Fresh holds |Objs| * MaxOps cells.                                   *)
EXTENDS ObjCopy, TLC

CONSTANTS o1, o2, n1, n2, n3, n4

\* Start states in which immutability is hereditary, as it is for values
\* built by the deep operations (Immutable, ImmutableCopyObjHandler).
HereditaryInit ==
    /\ Init
    /\ \A o \in Objs : ~slot0[o].mut =>
          \A x \in Range(sub[o]) \ {NULL} : ~slot0[x].mut

HereditarySpec == HereditaryInit /\ [][Next]_vars /\ Fairness

\* Start states with every choice of non-copyable objects, so that one
\* run meets both the copies that complete and those that panic.
AnyCopyableInit == \E nc \in SUBSET Objs : InitWith(nc)

AnyCopyableSpec == AnyCopyableInit /\ [][Next]_vars /\ Fairness

\* Types of every combination of the two filters.
AllFilters == BOOLEAN \X BOOLEAN

\* The fresh cells NewBag hands out are interchangeable; so are the source
\* objects when Init ranges over every choice of non-copyable ones (a type's identity fam is the
\* object itself and moves with it).  Used for safety runs only.
FreshSymmetry == Permutations(Fresh)
HeapSymmetry  == Permutations(Objs) \cup Permutations(Fresh)
====
