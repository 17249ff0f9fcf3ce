----------------------------- MODULE PrintView -----------------------------
(***************************************************************************)
(* PrintObj and ViewObj of objects.c: the ancestor stack kept in the       *)
(* globals PrintObjDepth, PrintObjThis, PrintObjIndex, PrintObjThiss[],    *)
(* PrintObjIndices[] and LastPV, driven by the print and view bodies of    *)
(* the objects' types, which set the selector with SET_PRINT_OBJ_INDEX and *)
(* call back into PrintObj / ViewObj for each subobject (spec 6).          *)
(*                                                                         *)
(* One step is the whole prologue of a call (up to its dispatch, its `~`   *)
(* path or its depth notice), one call a body makes, or the epilogue of a  *)
(* call.  The globals are plain C globals, shared by every thread.         *)
(* An interrupt seen at the top of PrintObj enters ErrorReturnVoid's break *)
(* loop, in which the user may print and view, and "return;" resumes the   *)
(* print with PrintObjDepth reset to its saved value.  A call on an object *)
(* the thread may not read (CheckRead) returns before its prologue.        *)
(***************************************************************************)
EXTENDS Naturals, Sequences, FiniteSets

CONSTANTS
    Threads,
    Objs,
    Markable,      \* objects whose TNUM is in FIRST_RECORD..LAST_LIST_TNUM
    Unreadable,    \* objects in a region the printing threads may not read
    MaxSlots,      \* the most subobjects an object has
    MaxDepth,      \* MAXPRINTDEPTH
    MaxInterrupts, \* bound on the interrupts seen in a behaviour
    None           \* PrintObjThis before anything was printed

ASSUME /\ Markable \subseteq Objs /\ Unreadable \subseteq Objs
       /\ MaxDepth \in Nat \ {0} /\ MaxSlots \in Nat /\ MaxInterrupts \in Nat
       /\ None \notin Objs

Slots == 0..(MaxDepth - 1)

\* A call in progress.  fn: PrintObj or ViewObj; pv: its local lastPV;
\* fromview: the PrintObj a view body made on the object it views; pc:
\* "body" while its body runs, "backref" after printing `~` and a path,
\* "stopped" after the depth notice, "break" for the break loop of an
\* interrupted PrintObj (obj, top and idx are then those of that call,
\* depth the PrintObjDepth it saved); mode: what the view body does;
\* i: the body's loop index; top: a top-level (GAP level) call; path:
\* the selectors printed after `~`; saved: the globals at the call.
Frame == [fn : {"print", "view"}, obj : Objs, pv : 0..2, fromview : BOOLEAN,
          pc : {"body", "backref", "stopped", "break"},
          mode : {"children", "print"}, i : Nat, top : BOOLEAN,
          path : Seq(Nat), saved : [this : Objs \cup {None}, index : Nat,
                                    depth : Nat, pv : 0..2]]

VARIABLES
    sub,                   \* the subobjects of each object
    depth, this, index,    \* PrintObjDepth, PrintObjThis, PrintObjIndex
    thiss, indices,        \* PrintObjThiss[], PrintObjIndices[]
    lastPV,                \* LastPV: 0, 1 (print) or 2 (view)
    stack,                 \* stack[t]: the calls thread t is in
    ints                   \* interrupts seen so far

vars == <<sub, depth, this, index, thiss, indices, lastPV, stack, ints>>

\* Mutant: only the immediate parent PrintObjThiss[d-2] is compared.
IsMarkedParentOnly(x, d, th) == x \in Markable /\ d >= 2 /\ th[d - 2] = x

\* IS_MARKED: a markable object that is one of the saved ancestors
\* PrintObjThiss[0 .. d-2] (the entry d-1 is the object itself).
IS_MARKED(x, d, th) == x \in Markable /\ \E j \in Slots : j <= d - 2 /\ th[j] = x

\* Mutant: the path loop prints PrintObjIndices[i+1] for PrintObjThiss[i].
PathToShifted(x, th, ix) ==
    LET k == CHOOSE k \in Slots : th[k] = x /\ \A j \in 0..(k - 1) : th[j] # x
    IN [n \in 1..k |-> ix[n]]

\* The selectors the path loop prints: PrintObjIndices[0 .. k-1] for the
\* first k with PrintObjThiss[k] = x.
PathTo(x, th, ix) ==
    LET k == CHOOSE k \in Slots : th[k] = x /\ \A j \in 0..(k - 1) : th[j] # x
    IN [n \in 1..k |-> ix[n - 1]]

\* Mutant: dispatch while PrintObjDepth <= MAXPRINTDEPTH.
DispatchOkLe(d) == d <= MaxDepth

\* if (PrintObjDepth < MAXPRINTDEPTH) dispatch, else the depth notice.
DispatchOk(d) == d < MaxDepth

\* The object printed is the one ViewObj is viewing: no frame is pushed.
FromView(fn, pv, o) == fn = "print" /\ pv = 2 /\ o = this

\* The frame of a call whose prologue has made x the current object at
\* depth d2 with the arrays th, ix: the call goes on with its body, the
\* `~` path or the depth notice.
NewFrame(fn, o, pv, fv, x, d2, th, ix, mode, top, idx, d) ==
    LET mark == IS_MARKED(x, d2, th) IN
    [fn |-> fn, obj |-> o, pv |-> pv, fromview |-> fv,
     pc |-> IF mark THEN "backref" ELSE IF DispatchOk(d2) THEN "body" ELSE "stopped",
     mode |-> mode, i |-> 1, top |-> top,
     path |-> IF mark THEN PathTo(x, th, ix) ELSE <<>>,
     saved |-> [this |-> this, index |-> idx, depth |-> d, pv |-> pv]]

\* The prologue of PrintObj(o) on thread t with PrintObjDepth d and
\* PrintObjIndex idx (the selector its caller set); `below` are the calls
\* under it.
Enter(t, o, top, below, idx, d) ==
    LET fv   == FromView("print", lastPV, o)
        save == ~fv /\ d > 0
        th   == IF save THEN [thiss EXCEPT ![d - 1] = this] ELSE thiss
        ix   == IF save THEN [indices EXCEPT ![d - 1] = idx] ELSE indices
        d2   == IF fv THEN d ELSE d + 1
        x    == IF fv THEN this ELSE o
    IN /\ depth' = d2
       /\ this' = x
       /\ index' = IF fv THEN idx ELSE 0
       /\ thiss' = th
       /\ indices' = ix
       /\ lastPV' = 1
       /\ stack' = [stack EXCEPT ![t] = Append(below,
             NewFrame("print", o, lastPV, fv, x, d2, th, ix, "children", top, idx, d))]

\* The prologue of ViewObj(o): as PrintObj's, without the fromview case,
\* and with LastPV = 2.  A view body either views the subobjects or, as
\* the default ViewObj method does, prints its object.
ViewEnter(t, o, top, below, idx, d) ==
    LET th == IF d > 0 THEN [thiss EXCEPT ![d - 1] = this] ELSE thiss
        ix == IF d > 0 THEN [indices EXCEPT ![d - 1] = idx] ELSE indices
    IN /\ depth' = d + 1
       /\ this' = o
       /\ index' = 0
       /\ thiss' = th
       /\ indices' = ix
       /\ lastPV' = 2
       /\ \E mode \in {"children", "print"} :
            stack' = [stack EXCEPT ![t] = Append(below,
               NewFrame("view", o, lastPV, FALSE, o, d + 1, th, ix, mode, top, idx, d))]

\* CheckRead fails on an object in a region the thread may not read:
\* PrintInaccessibleObject prints a placeholder and the call returns
\* before its prologue.  The selector its caller set stays in
\* PrintObjIndex, and PrintObjDepth is the value d the call started with.
SkipInaccessible(t, below, idx, d) ==
    /\ depth' = d
    /\ index' = idx
    /\ stack' = [stack EXCEPT ![t] = below]
    /\ UNCHANGED <<this, thiss, indices, lastPV>>

\* PrintObj / ViewObj from CheckRead on, with PrintObjDepth d.
Proceed(t, fn, o, top, below, idx, d) ==
    CASE o \in Unreadable -> SkipInaccessible(t, below, idx, d)
      [] fn = "print"    -> Enter(t, o, top, below, idx, d)
      [] fn = "view"     -> ViewEnter(t, o, top, below, idx, d)

\* PrintObj(o) first checks for an interrupt (SyIsIntr): ErrorReturnVoid
\* then runs a break loop (a "break" frame) before the rest of the call.
PrintObjCall(t, o, top, below, idx) ==
    \/ /\ Proceed(t, "print", o, top, below, idx, depth)
       /\ UNCHANGED ints
    \/ /\ ints < MaxInterrupts
       /\ ints' = ints + 1
       /\ index' = idx
       /\ stack' = [stack EXCEPT ![t] = Append(below,
             [fn |-> "print", obj |-> o, pv |-> 0, fromview |-> FALSE,
              pc |-> "break", mode |-> "children", i |-> depth, top |-> top,
              path |-> <<>>,
              saved |-> [this |-> this, index |-> idx, depth |-> depth, pv |-> lastPV]])]
       /\ UNCHANGED <<depth, this, thiss, indices, lastPV>>

\* ViewObj(o) has no interrupt check.
ViewObjCall(t, o, top, below, idx) ==
    /\ Proceed(t, "view", o, top, below, idx, depth)
    /\ UNCHANGED ints

Call(t, fn, o, top, below, idx) ==
    IF fn = "print" THEN PrintObjCall(t, o, top, below, idx)
                    ELSE ViewObjCall(t, o, top, below, idx)

Front(s) == SubSeq(s, 1, Len(s) - 1)
Idle(t)  == IF stack[t] = <<>> THEN TRUE ELSE stack[t][Len(stack[t])].pc = "break"

Init ==
    /\ sub \in [Objs -> UNION {[1..n -> Objs] : n \in 0..MaxSlots}]
    /\ depth = 0
    /\ this = None
    /\ index = 0
    /\ thiss = [j \in Slots |-> None]
    /\ indices = [j \in Slots |-> 0]
    /\ lastPV = 0
    /\ stack = [t \in Threads |-> <<>>]
    /\ ints = 0

\* PrintObjHandler / FuncViewObj: a GAP-level Print or View, from the
\* prompt or from a break loop.
TopCall(t, fn, o) ==
    /\ Idle(t)
    /\ Call(t, fn, o, TRUE, stack[t], index)
    /\ UNCHANGED sub

\* The user types "return;" in the break loop: PrintObjDepth = i, and the
\* interrupted PrintObj goes on with CheckRead and its prologue.
BreakReturn(t) ==
    LET f == stack[t][Len(stack[t])] IN
    /\ stack[t] # <<>> /\ f.pc = "break"
    /\ Proceed(t, "print", f.obj, f.top, Front(stack[t]), index, f.i)
    /\ UNCHANGED <<sub, ints>>

\* Mutant: the body passes a one-too-large selector.
SetIndexOff(f) == f.i + 1

\* FuncSET_PRINT_OBJ_INDEX(i), which a body calls before printing its
\* i-th subobject.
SET_PRINT_OBJ_INDEX(f) == f.i

\* One call the body of the top frame makes: PrintObj / ViewObj of its
\* next subobject, or, for the default view method, PrintObj of itself.
BodyCall(t) ==
    LET f == stack[t][Len(stack[t])] IN
    /\ stack[t] # <<>> /\ f.pc = "body"
    /\ \/ /\ f.mode = "children" /\ f.i <= Len(sub[f.obj])
          /\ Call(t, f.fn, sub[f.obj][f.i], FALSE,
                  Append(Front(stack[t]), [f EXCEPT !.i = @ + 1]),
                  SET_PRINT_OBJ_INDEX(f))
       \/ /\ f.mode = "print" /\ f.i = 1
          /\ Call(t, "print", f.obj, FALSE,
                  Append(Front(stack[t]), [f EXCEPT !.i = 2]), index)
    /\ UNCHANGED sub

BodyDone(f) ==
    \/ f.pc \in {"backref", "stopped"}
    \/ f.pc = "body" /\ f.mode = "children" /\ f.i > Len(sub[f.obj])
    \/ f.pc = "body" /\ f.mode = "print" /\ f.i > 1

\* Mutant: the superobject is restored from PrintObjThiss[PrintObjDepth]
\* (the old depth minus one, read before the decrement).
ExitRestoreOff(t) ==
    LET f == stack[t][Len(stack[t])] IN
    /\ stack[t] # <<>> /\ BodyDone(f)
    /\ IF f.fromview
       THEN UNCHANGED <<depth, this, index>>
       ELSE /\ depth' = depth - 1
            /\ IF depth - 1 > 0
               THEN this' = thiss[depth - 1] /\ index' = indices[depth - 1]
               ELSE UNCHANGED <<this, index>>
    /\ lastPV' = f.pv
    /\ stack' = [stack EXCEPT ![t] = Front(stack[t])]
    /\ UNCHANGED <<sub, thiss, indices, ints>>

\* The epilogue of ViewObj (and of PrintObj, unless fromview): leave the
\* object and restore the superobject and its selector from the arrays.
PopObj ==
    /\ depth' = depth - 1
    /\ IF depth - 1 > 0
       THEN this' = thiss[depth - 2] /\ index' = indices[depth - 2]
       ELSE UNCHANGED <<this, index>>

\* The epilogue of PrintObj / ViewObj: pop the frame unless it was the
\* view's own PrintObj, then restore LastPV.
Exit(t) ==
    LET f == stack[t][Len(stack[t])] IN
    /\ stack[t] # <<>> /\ BodyDone(f)
    /\ IF f.fromview THEN UNCHANGED <<depth, this, index>> ELSE PopObj
    /\ lastPV' = f.pv
    /\ stack' = [stack EXCEPT ![t] = Front(stack[t])]
    /\ UNCHANGED <<sub, thiss, indices, ints>>

Next ==
    \/ \E t \in Threads, fn \in {"print", "view"}, o \in Objs : TopCall(t, fn, o)
    \/ \E t \in Threads : BodyCall(t) \/ Exit(t) \/ BreakReturn(t)

Spec == Init /\ [][Next]_vars
-----------------------------------------------------------------------------
TypeOK ==
    /\ sub \in [Objs -> UNION {[1..n -> Objs] : n \in 0..MaxSlots}]
    /\ depth \in Nat /\ index \in 0..MaxSlots
    /\ this \in Objs \cup {None}
    /\ thiss \in [Slots -> Objs \cup {None}]
    /\ indices \in [Slots -> 0..MaxSlots]
    /\ lastPV \in 0..2
    /\ stack \in [Threads -> Seq(Frame)]
    /\ ints \in 0..MaxInterrupts

\* The object the selectors p lead to from r (None if one does not exist).
RECURSIVE Follow(_, _)
Follow(r, p) ==
    IF p = <<>> THEN r
    ELSE IF p[1] \in DOMAIN sub[r] THEN Follow(sub[r][p[1]], Tail(p)) ELSE None

\* The object of the innermost GAP-level call at or below frame j of t.
Root(t, j) ==
    stack[t][CHOOSE k \in 1..j : stack[t][k].top /\ \A m \in (k + 1)..j : ~stack[t][m].top].obj

(***************************************************************************)
(* BackRefDenotes: when PrintObj / ViewObj prints `~` followed by a path,  *)
(* `~` stands for the object the user asked to print (spec 4.3) and the    *)
(* path selects, from it, the very object met again.  This rests on the    *)
(* saved PrintObjThiss / PrintObjIndices forming, at every moment, the     *)
(* chain of superobjects and selectors from that object down.              *)
(***************************************************************************)
BackRefDenotes ==
    \A t \in Threads : \A j \in DOMAIN stack[t] :
        stack[t][j].pc = "backref" =>
            Follow(Root(t, j), stack[t][j].path) = stack[t][j].obj

(***************************************************************************)
(* NoDepthStop: printing a self-referential structure ends with a back-    *)
(* reference, never with "printing stopped, too many recursion levels"     *)
(* (spec 8) when MAXPRINTDEPTH exceeds the length of any path without a   *)
(* repeated object; IS_MARKED only detects repetitions of objects whose   *)
(* TNUM is in the markable range.                                          *)
(***************************************************************************)
NoDepthStop ==
    \A t \in Threads : \A j \in DOMAIN stack[t] : stack[t][j].pc # "stopped"

(***************************************************************************)
(* StackRestored: when a PrintObj or ViewObj call returns, PrintObjDepth   *)
(* and LastPV are what they were when it was called and, below the top     *)
(* level, so is the superobject PrintObjThis, and PrintObjIndex unless the *)
(* call was the view's own PrintObj: the body that called it can go on     *)
(* with its next selector.                                                 *)
(***************************************************************************)
StackRestored ==
    [][\A t \in Threads :
         Len(stack'[t]) < Len(stack[t]) =>
            LET f == stack[t][Len(stack[t])] IN
            /\ depth' = f.saved.depth
            /\ lastPV' = f.saved.pv
            /\ depth' > 0 => this' = f.saved.this
            /\ depth' > 0 /\ ~f.fromview => index' = f.saved.index]_vars

(***************************************************************************)
(* PrintStackInBounds: PrintObjDepth never exceeds MAXPRINTDEPTH, so the  *)
(* stores into PrintObjThiss[PrintObjDepth-1] and PrintObjIndices stay     *)
(* inside the arrays.                                                      *)
(***************************************************************************)
PrintStackInBounds == depth <= MaxDepth
====
