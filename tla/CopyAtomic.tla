----------------------------- MODULE CopyAtomic -----------------------------
(***************************************************************************)
(* What the copy engine promises its callers (spec 4.2, 4.4, 4.6, 7): on a *)
(* heap with no copying marks, CopyObj (IMMUTABLE_COPY_OBJ, DEEP_COPY_OBJ), *)
(* MakeImmutable and CLONE_OBJ are each one atomic step.  A copy adds one  *)
(* new cell for each mutable object reachable from the root through       *)
(* mutable objects, wired as the source is, and changes nothing else; a   *)
(* freeze resets one object's mutability; a type setter replaces one      *)
(* object's type; a clone makes the destination                           *)
(* a shallow copy of the source, or of a deep copy of a mutable source.   *)
(* A panic (a mutable object that is not copyable) is fatal (spec 7), and *)
(* so is a CLONE_OBJ into an immediate value, which the code does not     *)
(* refuse: after either, nothing is promised until a call starts on a     *)
(* heap without marks ("broken").                                          *)
(***************************************************************************)
EXTENDS Naturals, FiniteSets, Functions

CONSTANTS
    Objs,    \* the objects that exist at the start
    Fresh,   \* the cells a copy can be given
    Types    \* the types an object can be given

VARIABLES kind, slot0, sub, alloc, broken

Obj  == Objs \cup Fresh
vars == <<kind, slot0, sub, alloc, broken>>

\* The objects a copy of r duplicates: r if it is mutable, and every
\* mutable subvalue of an object it duplicates.
RECURSIVE Dup(_)
Dup(S) ==
    LET T == S \cup {x \in Obj : (\E o \in S : x \in Range(sub[o])) /\ slot0[x].mut}
    IN IF T = S THEN S ELSE Dup(T)
ToCopy(r) == IF slot0[r].mut THEN Dup({r}) ELSE {}

\* The ways of giving each object of S its own cell not yet allocated.
NewCells(S) == {f \in [S -> Fresh \ alloc] : IsInjective(f)}

\* The heap once each object o of DOMAIN f is copied into f[o] with its
\* mutability set to m; a slot of a copy refers to the copy of a copied
\* object and to the same value otherwise.
Copied(f, m) ==
    LET Img(x)  == IF x \in DOMAIN f THEN f[x] ELSE x
        Orig(c) == CHOOSE o \in DOMAIN f : f[o] = c
    IN [kind  |-> [c \in Obj |-> IF c \in Range(f) THEN kind[Orig(c)] ELSE kind[c]],
        slot0 |-> [c \in Obj |-> IF c \in Range(f) THEN [slot0[Orig(c)] EXCEPT !.mut = m]
                                                    ELSE slot0[c]],
        sub   |-> [c \in Obj |-> IF c \in Range(f)
                                 THEN [j \in DOMAIN sub[Orig(c)] |-> Img(sub[Orig(c)][j])]
                                 ELSE sub[c]]]

SetHeap(h, f) ==
    /\ alloc' = alloc \cup Range(f)
    /\ kind' = h.kind /\ slot0' = h.slot0 /\ sub' = h.sub

Init == alloc = {} /\ broken = FALSE

CopyObj(r, m) ==
    /\ ~broken /\ UNCHANGED broken
    /\ \E f \in NewCells(ToCopy(r)) : SetHeap(Copied(f, m), f)

MakeImmutable(o) ==
    /\ ~broken
    /\ UNCHANGED <<kind, sub, alloc, broken>>
    /\ slot0' = [slot0 EXCEPT ![o].mut = FALSE]

SetType(o, t) ==
    /\ ~broken
    /\ UNCHANGED <<kind, sub, alloc, broken>>
    /\ slot0' = [slot0 EXCEPT ![o] = t]

\* d takes the tag, type and slots of s, or of the deep copy of s.
CloneObj(d, s) ==
    /\ ~broken /\ UNCHANGED broken
    /\ \E f \in NewCells(ToCopy(s)) :
          LET h == Copied(f, TRUE)
              c == IF s \in DOMAIN f THEN f[s] ELSE s
          IN SetHeap([kind  |-> [h.kind EXCEPT ![d] = h.kind[c]],
                      slot0 |-> [h.slot0 EXCEPT ![d] = h.slot0[c]],
                      sub   |-> [h.sub EXCEPT ![d] = h.sub[c]]], f)

\* A copy from some root meets a mutable object that is not copyable.
Panic ==
    /\ ~broken /\ broken' = TRUE
    /\ \E r \in Objs : \E x \in ToCopy(r) : ~slot0[x].cpy

\* CLONE_OBJ into an immediate value: the copy of s is made, then the
\* destination is dereferenced.
CloneIntoImmediate(s) ==
    /\ ~broken /\ broken' = TRUE
    /\ \E f \in NewCells(ToCopy(s)) : SetHeap(Copied(f, TRUE), f)

\* Once broken, any step, including one that starts afresh.
Unpromised == broken

Next ==
    \/ Unpromised
    \/ \E o \in Objs : MakeImmutable(o)
    \/ \E o \in Objs, t \in Types : SetType(o, t)
    \/ \E r \in Objs, m \in BOOLEAN : CopyObj(r, m)
    \/ \E d, s \in Objs : CloneObj(d, s)
    \/ Panic
    \/ \E s \in Objs : CloneIntoImmediate(s)

Spec == Init /\ [][Next]_vars
====
