------------------------------ MODULE ObjCopy ------------------------------
(***************************************************************************)
(* The structural copy engine of objects.c: CopyObj and the COPY_OBJ /     *)
(* CLEAN_OBJ bodies of positional (T_POSOBJ), component (T_COMOBJ) and     *)
(* data (T_DATOBJ) objects, together with MakeImmutable.                   *)
(*                                                                         *)
(* The C recursion is an explicit stack of frames.  A "copy" frame is one  *)
(* activation of CopyObjPosObj / CopyObjComObj / CopyObjDatObj whose loop  *)
(* over the subvalues is at index i; a "clean" frame is one activation of  *)
(* CleanObjPosObjCopy / CleanObjComObjCopy / CleanObjDatObjCopy.  One step *)
(* is one iteration of such a loop, so the forwarding pointers and the     *)
(* +COPYING tags are visible in every intermediate state.                  *)
(*                                                                         *)
(* Heap cell o: kind[o] is its TNUM without the COPYING offset and         *)
(* copying[o] says whether the offset is applied; slot0[o] is ADDR_OBJ(o)[0]*)
(* which holds either the type (a record with the IsMutableObjFilt and     *)
(* IsCopyableObjFilt bits, which is what IS_MUTABLE_OBJ and                *)
(* IS_COPYABLE_OBJ test for these kinds) or, while o is being copied, the  *)
(* forwarding plist <<old slot 0, copy>>; sub[o] are the slots 1..n (the   *)
(* record components of a comobj; a datobj holds raw data only).           *)
(***************************************************************************)
EXTENDS Naturals, Sequences, FiniteSets, Functions, KernelTables

CONSTANTS
    Objs,         \* the objects that exist before any copy is made
    Fresh,        \* cells NewBag can hand out for copies
    NULL,         \* an unbound slot of a positional object (the C value 0)
    Imm,          \* an immediate value (a small integer or an FFE)
    NonCopyable,  \* objects whose type lacks IsCopyableObjFilt
    MaxSlots,     \* the largest number of subvalues an object has
    TypeFilters,  \* the <<mutable, copyable>> filters a type set by
                  \* SET_TYPE_* may carry
    MaxOps        \* bound on the number of top-level operations

ASSUME /\ Objs \cap Fresh = {}
       /\ NULL \notin Objs \cup Fresh
       /\ Imm \notin Objs \cup Fresh \cup {NULL}
       /\ NonCopyable \subseteq Objs
       /\ MaxSlots \in Nat /\ MaxOps \in Nat
       /\ TypeFilters \subseteq BOOLEAN \X BOOLEAN

Obj   == Objs \cup Fresh
Kinds == {"posobj", "comobj", "datobj"}

\* A type descriptor: its identity and the two filters the kernel tests.
Type == [fam : Objs \cup {NULL}, mut : BOOLEAN, cpy : BOOLEAN]
\* The forwarding plist left in slot 0: <<original slot 0, the copy>>.
Fwd  == [orig : Type, copy : Fresh]

Frame == [op : {"copy", "clean"}, obj : Obj, copy : Fresh \cup {NULL}, i : Nat]

VARIABLES
    kind, slot0, copying, sub,  \* the heap
    alloc,                      \* the cells of Fresh already allocated
    stack,                      \* the C call stack of copy / clean bodies
    pc,                         \* "idle", "copy", "clean", "clone" or
                                \* "undefined"
    ops,                        \* top-level operations started so far
    \* history of the current / last CopyObj call, for the properties only
    call,                       \* [obj, mut, heap at entry, alloc at entry]
    result,                     \* what CopyObj returned (NULL while running)
    dst,                        \* the destination of a running CLONE_OBJ
    outcome                     \* of the last top-level operation, if a
                                \* CopyObj: "ok" or "panic", if a CLONE_OBJ:
                                \* "cloned"; else "none"

heap == [kind |-> kind, slot0 |-> slot0, copying |-> copying, sub |-> sub, alloc |-> alloc]
vars == <<kind, slot0, copying, sub, alloc, stack, pc, ops, call, result, dst, outcome>>

(***************************************************************************)
(* Dispatch through the registry (KernelTables).  TNUM_OBJ(x) is the tag  *)
(* of x's kind, moved by COPYING while x is marked.  IS_MUTABLE_OBJ and    *)
(* IS_COPYABLE_OBJ select IsMutableObjObject / IsCopyableObjObject for an *)
(* external tag, which test the filters of the type in slot 0; they are   *)
(* only applied to unmarked objects here.  COPY_OBJ(x, m) runs            *)
(* CopyObjFuncs[TNUM_OBJ(x)]: a CopyObj*Copy body returns the copy        *)
(* recorded in the forwarding plist; CopyObjPosObj / ComObj / DatObj       *)
(* return an immutable x unchanged, ErrorQuit ("Panic: encountered        *)
(* mutable, non-copyable object") on a non-copyable one and otherwise     *)
(* make a new cell; CopyObjError panics and CopyObjConstant returns x.     *)
(***************************************************************************)
TNUM_OBJ(x) == KindTnum[kind[x]] + (IF copying[x] THEN COPYING ELSE 0)

IS_MUTABLE_OBJ(x)  == IsMutableObjFuncs[TNUM_OBJ(x)] = "IsMutableObjObject" /\ slot0[x].mut
IS_COPYABLE_OBJ(x) == IsCopyableObjFuncs[TNUM_OBJ(x)] = "IsCopyableObjObject" /\ slot0[x].cpy

ForwardBodies == {"CopyObjPosObjCopy", "CopyObjComObjCopy", "CopyObjDatObjCopy"}
NewCellBodies == {"CopyObjPosObj", "CopyObjComObj", "CopyObjDatObj"}

Forwarded(x)  == CopyObjFuncs[TNUM_OBJ(x)] \in ForwardBodies
CopiesAnew(x) == CopyObjFuncs[TNUM_OBJ(x)] \in NewCellBodies
CopyReturns(x) ==
    \/ Forwarded(x)
    \/ CopyObjFuncs[TNUM_OBJ(x)] = "CopyObjConstant"
    \/ CopiesAnew(x) /\ ~IS_MUTABLE_OBJ(x)
CopyPanics(x) ==
    \/ CopyObjFuncs[TNUM_OBJ(x)] = "CopyObjError"
    \/ CopiesAnew(x) /\ IS_MUTABLE_OBJ(x) /\ ~IS_COPYABLE_OBJ(x)
MustAlloc(x) == CopiesAnew(x) /\ IS_MUTABLE_OBJ(x) /\ IS_COPYABLE_OBJ(x)

\* Mutant: CopyObj*Copy returning ELM_PLIST(.., 1), the saved type, not
\* the copy.
CopyResultElm1(x) == IF Forwarded(x) THEN slot0[x].orig ELSE x
CopyResult(x) == IF Forwarded(x) THEN slot0[x].copy ELSE x

\* The NewBag / forwarding part of CopyObjPosObj, CopyObjComObj and
\* CopyObjDatObj: allocate c for x, copy slot 0 into it (resetting the
\* mutability filter when m is FALSE), leave the forwarding plist in x and
\* retag x with +COPYING.  The caller gives c its (still unset) slots.
\* Mutant: the else branch without RESET_FILTER_OBJ.
AllocCopyKeepMut(x, c, m) ==
    /\ kind'    = [kind EXCEPT ![c] = kind[x]]
    /\ slot0'   = [slot0 EXCEPT ![c] = slot0[x],
                                ![x] = [orig |-> slot0[x], copy |-> c]]
    /\ copying' = [copying EXCEPT ![x] = TRUE]
    /\ alloc'   = alloc \cup {c}

\* Mutant: the forwarding plist and the +COPYING retag done only after the
\* subvalue loop, so a cycle reaches the object before it is marked.
AllocCopyLate(x, c, m) ==
    /\ kind'    = [kind EXCEPT ![c] = kind[x]]
    /\ slot0'   = [slot0 EXCEPT ![c] = [slot0[x] EXCEPT !.mut = m]]
    /\ UNCHANGED copying
    /\ alloc'   = alloc \cup {c}

AllocCopy(x, c, m) ==
    /\ kind'    = [kind EXCEPT ![c] = kind[x]]
    /\ slot0'   = [slot0 EXCEPT ![c] = [slot0[x] EXCEPT !.mut = m],
                                ![x] = [orig |-> slot0[x], copy |-> c]]
    /\ copying' = [copying EXCEPT ![x] = TRUE]
    /\ alloc'   = alloc \cup {c}

\* CleanObjFuncs[TNUM_OBJ(x)] is a CleanObj*Copy body.
CleansMark(x) ==
    CleanObjFuncs[TNUM_OBJ(x)] \in {"CleanObjPosObjCopy", "CleanObjComObjCopy", "CleanObjDatObjCopy"}

UnsetSlots(x)    == [j \in DOMAIN sub[x] |-> NULL]
CopyFrame(x, c)  == [op |-> "copy", obj |-> x, copy |-> c, i |-> 1]
CleanFrame(x)    == [op |-> "clean", obj |-> x, copy |-> NULL, i |-> 1]
Top              == stack[Len(stack)]
Below            == SubSeq(stack, 1, Len(stack) - 1)

\* CLEAN_OBJ(x) with the frames `below` still pending, dispatched through
\* CleanObjFuncs[TNUM_OBJ(x)] (no CleanObjError cell is reachable: only
\* the three structural kinds are in the heap): CleanObj*Copy
\* restores slot 0 from the forwarding plist and drops +COPYING before it
\* recurses; CleanObjPosObj / ComObj / DatObj on an unmarked object do
\* nothing.
\* Mutant: CleanObj*Copy restoring slot 0 without the loop over subvalues.
CleanNoRecurse(x, below) ==
    IF CleansMark(x)
    THEN /\ slot0'   = [slot0 EXCEPT ![x] = @.orig]
         /\ copying' = [copying EXCEPT ![x] = FALSE]
         /\ stack'   = below
    ELSE /\ UNCHANGED <<slot0, copying>>
         /\ stack' = below

CLEAN_OBJ(x, below) ==
    IF CleansMark(x)
    THEN /\ slot0'   = [slot0 EXCEPT ![x] = @.orig]
         /\ copying' = [copying EXCEPT ![x] = FALSE]
         /\ stack'   = Append(below, CleanFrame(x))
    ELSE /\ UNCHANGED <<slot0, copying>>
         /\ stack' = below

\* ErrorQuit("Panic: encountered mutable, non-copyable object"): the long
\* jump leaves every mark and forwarding plist made so far in place.
Panic ==
    /\ stack' = <<>>
    /\ pc' = "idle"
    /\ outcome' = "panic"

\* CopyObj returns once its clean walk is done: to the GAP level, or to
\* FuncCLONE_OBJ when that called it (dst' # NULL).
CopyObjReturns(done) ==
    /\ pc' = IF ~done THEN "clean" ELSE IF dst' = NULL THEN "idle" ELSE "clone"
    /\ outcome' = IF done /\ dst' = NULL THEN "ok" ELSE "none"

-----------------------------------------------------------------------------
\* The subvalues a kind of object can have: a comobj's components are
\* always bound, a posobj slot may be unbound, a datobj holds raw data.
SlotChoices(k) ==
    CASE k = "comobj" -> UNION {[1..n -> Objs] : n \in 0..MaxSlots}
      [] k = "posobj" -> UNION {[1..n -> Objs \cup {NULL}] : n \in 0..MaxSlots}
      [] k = "datobj" -> {<<>>}

\* What an object that exists at the start can look like.
ObjShape == UNION {[kind : {k}, mut : BOOLEAN, sub : SlotChoices(k)] : k \in Kinds}

\* The start states in which the objects of nc have a non-copyable type.
InitWith(nc) ==
    /\ \E d \in [Objs -> ObjShape] :
           /\ kind  = [o \in Obj |-> IF o \in Objs THEN d[o].kind ELSE "datobj"]
           /\ slot0 = [o \in Obj |->
                          IF o \in Objs
                          THEN [fam |-> o, mut |-> d[o].mut, cpy |-> o \notin nc]
                          ELSE [fam |-> NULL, mut |-> FALSE, cpy |-> TRUE]]
           /\ sub   = [o \in Obj |-> IF o \in Objs THEN d[o].sub ELSE <<>>]
    /\ copying = [o \in Obj |-> FALSE]
    /\ alloc = {}
    /\ stack = <<>>
    /\ pc = "idle"
    /\ ops = 0
    /\ call = [obj |-> NULL, mut |-> FALSE, heap |-> heap]
    /\ result = NULL
    /\ dst = NULL
    /\ outcome = "none"

Init == InitWith(NonCopyable)

-----------------------------------------------------------------------------
(***************************************************************************)
(* ImmutableCopyObjHandler / MutableCopyObjHandler -> CopyObj(r, m): the   *)
(* first COPY_OBJ(r, m).  An immutable root is returned as it is and the   *)
(* CLEAN_OBJ(r) that follows finds nothing to clean.                       *)
(***************************************************************************)
CopyObjBody(r, m) ==
    /\ call' = [obj |-> r, mut |-> m, heap |-> heap]
    /\ \/ /\ CopyReturns(r)
          /\ result' = CopyResult(r)
          /\ CLEAN_OBJ(r, <<>>)
          /\ CopyObjReturns(stack' = <<>>)
          /\ UNCHANGED <<kind, sub, alloc>>
       \/ /\ CopyPanics(r)
          /\ Panic
          /\ UNCHANGED <<kind, slot0, copying, sub, alloc, result>>
       \/ /\ MustAlloc(r)
          /\ \E c \in Fresh \ alloc :
                /\ AllocCopy(r, c, m)
                /\ sub' = [sub EXCEPT ![c] = UnsetSlots(r)]
                /\ stack' = <<CopyFrame(r, c)>>
          /\ pc' = "copy"
          /\ result' = NULL
          /\ outcome' = "none"

CopyObj(r, m) ==
    /\ pc = "idle"
    /\ ops < MaxOps
    /\ ops' = ops + 1
    /\ dst' = NULL
    /\ CopyObjBody(r, m)

(***************************************************************************)
(* One iteration of the "copy the subvalues" loop of CopyObjPosObj (which  *)
(* skips unbound slots) or CopyObjComObj: COPY_OBJ(x, mut) on the i-th     *)
(* subvalue x.  When x needs no new cell the result is stored in the copy  *)
(* at once; otherwise a new activation starts and stores its result when  *)
(* it returns (CopyObjReturn).                                             *)
(***************************************************************************)
CopyObjSubvalue ==
    /\ pc = "copy"
    /\ LET f == Top
           x == sub[f.obj][f.i]
           next == Append(Below, [f EXCEPT !.i = @ + 1])
       IN /\ f.i <= Len(sub[f.obj])
          /\ \/ /\ x = NULL
                /\ stack' = next
                /\ UNCHANGED <<kind, slot0, copying, sub, alloc, pc, outcome>>
             \/ /\ x # NULL /\ CopyReturns(x)
                /\ sub' = [sub EXCEPT ![f.copy][f.i] = CopyResult(x)]
                /\ stack' = next
                /\ UNCHANGED <<kind, slot0, copying, alloc, pc, outcome>>
             \/ /\ x # NULL /\ CopyPanics(x)
                /\ Panic
                /\ UNCHANGED <<kind, slot0, copying, sub, alloc>>
             \/ /\ x # NULL /\ MustAlloc(x)
                /\ \E c \in Fresh \ alloc :
                      /\ AllocCopy(x, c, call.mut)
                      /\ sub' = [sub EXCEPT ![c] = UnsetSlots(x)]
                      /\ stack' = Append(stack, CopyFrame(x, c))
                /\ UNCHANGED <<pc, outcome>>
    /\ UNCHANGED <<ops, call, result, dst>>

(***************************************************************************)
(* A copy body has run through its subvalues (a datobj has none: its raw  *)
(* data is copied with the cell) and returns its copy: into slot i of the *)
(* caller's copy, or to CopyObj, which then calls CLEAN_OBJ on the root.   *)
(***************************************************************************)
CopyObjReturn ==
    /\ pc = "copy"
    /\ UNCHANGED dst
    /\ LET f == Top IN
       /\ f.i > Len(sub[f.obj])
       /\ IF Len(stack) > 1
          THEN LET p == stack[Len(stack) - 1] IN
               /\ sub' = [sub EXCEPT ![p.copy][p.i] = f.copy]
               /\ stack' = Append(SubSeq(stack, 1, Len(stack) - 2), [p EXCEPT !.i = @ + 1])
               /\ UNCHANGED <<slot0, copying, pc, result, outcome>>
          ELSE /\ result' = f.copy
               /\ CLEAN_OBJ(call.obj, <<>>)
               /\ CopyObjReturns(stack' = <<>>)
               /\ UNCHANGED sub
    /\ UNCHANGED <<kind, alloc, ops, call>>

(***************************************************************************)
(* One iteration of the loop of CleanObjPosObjCopy (bound slots only) or  *)
(* CleanObjComObjCopy: CLEAN_OBJ on the i-th subvalue.                     *)
(***************************************************************************)
CleanObjSubvalue ==
    /\ pc = "clean"
    /\ LET f == Top
           x == sub[f.obj][f.i]
           next == Append(Below, [f EXCEPT !.i = @ + 1])
       IN /\ f.i <= Len(sub[f.obj])
          /\ IF x = NULL
             THEN stack' = next /\ UNCHANGED <<slot0, copying>>
             ELSE CLEAN_OBJ(x, next)
    /\ UNCHANGED <<kind, sub, alloc, pc, ops, call, result, dst, outcome>>

\* A clean body returns; when the root's returns, CopyObj returns its copy.
CleanObjReturn ==
    /\ pc = "clean"
    /\ UNCHANGED dst
    /\ Top.i > Len(sub[Top.obj])
    /\ stack' = Below
    /\ CopyObjReturns(Below = <<>>)
    /\ UNCHANGED <<kind, slot0, copying, sub, alloc, ops, call, result>>

(***************************************************************************)
(* FuncMakeImmutable -> MakeImmutable(o): if o is mutable, the body for    *)
(* its kind resets IsMutableObjFilt on o alone (the loop over subobjects  *)
(* is commented out in MakeImmutableComObj / MakeImmutablePosObj).  The    *)
(* library hook PostMakeImmutable is taken to be its default, a no-op.     *)
(* On an object a panicked copy left with +COPYING, IS_MUTABLE_OBJ reads  *)
(* IsMutableObjFuncs past its end (the table has LAST_REAL_TNUM+1 cells): *)
(* undefined behaviour, after which the model stops ("undefined").        *)
(***************************************************************************)
MakeImmutable(o) ==
    /\ pc = "idle"
    /\ ops < MaxOps
    /\ ops' = ops + 1
    /\ \/ /\ TNUM_OBJ(o) \notin DOMAIN IsMutableObjFuncs
          /\ pc' = "undefined"
          /\ UNCHANGED <<slot0, outcome>>
       \/ /\ TNUM_OBJ(o) \in DOMAIN IsMutableObjFuncs /\ IS_MUTABLE_OBJ(o)
          /\ MakeImmutableObjFuncs[TNUM_OBJ(o)] \in
                {"MakeImmutableComObj", "MakeImmutablePosObj", "MakeImmutableDatObj"}
          /\ slot0' = [slot0 EXCEPT ![o].mut = FALSE]
          /\ outcome' = "none"
          /\ UNCHANGED pc
    /\ UNCHANGED <<kind, copying, sub, alloc, stack, call, result, dst>>

(***************************************************************************)
(* SET_TYPE_COMOBJ / SET_TYPE_POSOBJ / SET_TYPE_DATOBJ(o, t) on an object  *)
(* of the handler's own kind (retagging another kind reinterprets the     *)
(* words of its bag, whose layout the model does not hold).  The new type *)
(* is one of o's family: the library changes types by setting and        *)
(* resetting filters.  TYPE_<kind>(o) = t writes slot 0 and RetypeBag     *)
(* sets the plain tag, so on an object a panicked copy left marked the    *)
(* forwarding plist is overwritten and +COPYING dropped.                  *)
(***************************************************************************)
\* Mutant: TYPE_<kind>(o) = t without the RetypeBag to the plain tag.
SetTypeRetagKeepMark(o, t) ==
    /\ slot0'   = [slot0 EXCEPT ![o] = t]
    /\ UNCHANGED copying

SetTypeRetag(o, t) ==
    /\ slot0'   = [slot0 EXCEPT ![o] = t]
    /\ copying' = [copying EXCEPT ![o] = FALSE]

FamilyTypes(o) == {[fam |-> o, mut |-> p[1], cpy |-> p[2]] : p \in TypeFilters}

\* The switch of SET_TYPE_COMOBJ_Handler acts on T_PREC and T_COMOBJ only
\* (T_ACOMOBJ is not in the heap): a marked comobj is left as it is.
SET_TYPE_COMOBJ(o, t) ==
    /\ kind[o] = "comobj"
    /\ IF TNUM_OBJ(o) = T_COMOBJ THEN SetTypeRetag(o, t)
                               ELSE UNCHANGED <<slot0, copying>>

\* The default branch of SET_TYPE_POSOBJ_Handler (the atomic tags are not
\* in the heap).
SET_TYPE_POSOBJ(o, t) == kind[o] = "posobj" /\ SetTypeRetag(o, t)

SET_TYPE_DATOBJ(o, t) == kind[o] = "datobj" /\ SetTypeRetag(o, t)

\* SET_TYPE_OBJ(o, t) calls SetTypeObjFuncs[TNUM_OBJ(o)]: SetTypeComObj,
\* SetTypePosObj or SetTypeDatObj writes slot 0 and leaves the tag as it
\* is.  The table has LAST_REAL_TNUM+1 cells, so on an object a panicked
\* copy left marked the call goes through a pointer read past its end.
SET_TYPE_OBJ(o, t) ==
    \/ /\ TNUM_OBJ(o) \notin DOMAIN SetTypeObjFuncs
       /\ pc' = "undefined"
       /\ UNCHANGED <<slot0, copying>>
    \/ /\ TNUM_OBJ(o) \in DOMAIN SetTypeObjFuncs
       /\ SetTypeObjFuncs[TNUM_OBJ(o)] \in {"SetTypeComObj", "SetTypePosObj", "SetTypeDatObj"}
       /\ slot0' = [slot0 EXCEPT ![o] = t]
       /\ UNCHANGED <<copying, pc>>

SetType(o, t) ==
    /\ pc = "idle"
    /\ ops < MaxOps
    /\ ops' = ops + 1
    /\ \/ (SET_TYPE_COMOBJ(o, t) \/ SET_TYPE_POSOBJ(o, t) \/ SET_TYPE_DATOBJ(o, t)) /\ UNCHANGED pc
       \/ SET_TYPE_OBJ(o, t)
    /\ outcome' = "none"
    /\ UNCHANGED <<kind, sub, alloc, stack, call, result, dst>>

(***************************************************************************)
(* FuncCLONE_OBJ(dst, src).  An immediate src is refused with              *)
(* ErrorReturnVoid and nothing changes; dst is not checked (that check is *)
(* commented out).  A mutable src is first replaced by CopyObj(src, 1);   *)
(* IS_MUTABLE_OBJ on a src a panicked copy left marked is undefined.      *)
(***************************************************************************)
CloneObj(d, s) ==
    /\ pc = "idle"
    /\ ops < MaxOps
    /\ ops' = ops + 1
    /\ \/ /\ s = Imm
          /\ outcome' = "none"
          /\ UNCHANGED <<kind, slot0, copying, sub, alloc, stack, pc, call, result, dst>>
       \/ /\ s # Imm /\ TNUM_OBJ(s) \notin DOMAIN IsMutableObjFuncs
          /\ pc' = "undefined"
          /\ UNCHANGED <<kind, slot0, copying, sub, alloc, stack, call, result, dst, outcome>>
       \/ /\ s # Imm /\ TNUM_OBJ(s) \in DOMAIN IsMutableObjFuncs /\ IS_MUTABLE_OBJ(s)
          /\ dst' = d
          /\ CopyObjBody(s, TRUE)
       \/ /\ s # Imm /\ TNUM_OBJ(s) \in DOMAIN IsMutableObjFuncs /\ ~IS_MUTABLE_OBJ(s)
          /\ dst' = d
          /\ call' = [obj |-> s, mut |-> TRUE, heap |-> heap]
          /\ result' = s
          /\ pc' = "clone"
          /\ UNCHANGED <<kind, slot0, copying, sub, alloc, stack, outcome>>

(***************************************************************************)
(* The shallow clone that ends FuncCLONE_OBJ: ResizeBag and RetypeBag make *)
(* dst the size and TNUM of the (copied) src and every word of its bag is  *)
(* copied, slot 0 (the type) included.  On an immediate dst, ResizeBag    *)
(* dereferences a value that is not a bag: undefined.                     *)
(***************************************************************************)
\* Mutant: the word loop of FuncCLONE_OBJ starting past slot 0, so dst
\* keeps its own type.
CloneObjFinishKeepType ==
    /\ pc = "clone"
    /\ \/ /\ dst = Imm
          /\ pc' = "undefined"
          /\ UNCHANGED <<kind, slot0, copying, sub, outcome>>
       \/ /\ dst # Imm
          /\ kind'    = [kind EXCEPT ![dst] = kind[result]]
          /\ copying' = [copying EXCEPT ![dst] = copying[result]]
          /\ sub'     = [sub EXCEPT ![dst] = sub[result]]
          /\ UNCHANGED slot0
          /\ pc' = "idle"
          /\ outcome' = "cloned"
    /\ UNCHANGED <<alloc, stack, ops, call, result, dst>>

CloneObjFinish ==
    /\ pc = "clone"
    /\ \/ /\ dst = Imm
          /\ pc' = "undefined"
          /\ UNCHANGED <<kind, slot0, copying, sub, outcome>>
       \/ /\ dst # Imm
          /\ kind'    = [kind EXCEPT ![dst] = kind[result]]
          /\ slot0'   = [slot0 EXCEPT ![dst] = slot0[result]]
          /\ copying' = [copying EXCEPT ![dst] = copying[result]]
          /\ sub'     = [sub EXCEPT ![dst] = sub[result]]
          /\ pc' = "idle"
          /\ outcome' = "cloned"
    /\ UNCHANGED <<alloc, stack, ops, call, result, dst>>

Next ==
    \/ \E r \in Objs, m \in BOOLEAN : CopyObj(r, m)
    \/ CopyObjSubvalue
    \/ CopyObjReturn
    \/ CleanObjSubvalue
    \/ CleanObjReturn
    \/ \E o \in Objs : MakeImmutable(o)
    \/ \E o \in Objs : \E t \in FamilyTypes(o) : SetType(o, t)
    \/ \E d, s \in Objs \cup {Imm} : CloneObj(d, s)
    \/ CloneObjFinish

\* The loop iterations and returns of a running copy are the continuation
\* of one C call on one thread; nothing in them blocks.
Fairness == WF_vars(CopyObjSubvalue \/ CopyObjReturn \/ CleanObjSubvalue \/ CleanObjReturn)

Spec == Init /\ [][Next]_vars /\ Fairness

-----------------------------------------------------------------------------
TypeOK ==
    /\ kind \in [Obj -> Kinds]
    /\ slot0 \in [Obj -> Type \cup Fwd]
    /\ copying \in [Obj -> BOOLEAN]
    /\ sub \in [Obj -> UNION {[1..n -> Obj \cup {NULL}] : n \in 0..MaxSlots}]
    /\ alloc \subseteq Fresh
    /\ stack \in Seq(Frame)
    /\ pc \in {"idle", "copy", "clean", "clone", "undefined"}
    /\ ops \in 0..MaxOps
    /\ result \in Obj \cup {NULL}
    /\ dst \in Objs \cup {Imm, NULL}
    /\ outcome \in {"none", "ok", "panic", "cloned"}

\* The objects a copy of r must duplicate in heap h: r if it is mutable,
\* and every mutable subvalue of an object it duplicates.
RECURSIVE Grow(_, _)
Grow(S, h) ==
    LET T == S \cup {x \in Obj : /\ \E o \in S : x \in Range(h.sub[o])
                                 /\ h.slot0[x].mut}
    IN IF T = S THEN S ELSE Grow(T, h)
ToCopy(r, h) == IF h.slot0[r].mut THEN Grow({r}, h) ELSE {}

\* The last top-level call, a CopyObj (outcome "ok") or a CLONE_OBJ
\* ("cloned"), has returned normally, and it was made on a heap with no
\* +COPYING marks left over from an earlier call.
ReturnedFromCleanHeap(outs) ==
    /\ pc = "idle" /\ outcome \in outs
    /\ \A o \in Obj : ~call.heap.copying[o]

(***************************************************************************)
(* CopyFaithful: the copy CopyObj(r, m) returns is the source graph with  *)
(* every mutable object reachable through mutable objects replaced by one *)
(* new cell of the same kind and type, its mutability set to m: each such *)
(* object is copied exactly once however many slots (or cycles) lead to   *)
(* it, so sharing is preserved, and immutable subvalues are shared with   *)
(* the source.  This is what the forwarding plists in slot 0 and the      *)
(* CopyObj*Copy bodies are for.                                           *)
(***************************************************************************)
CopyFaithful ==
    ReturnedFromCleanHeap({"ok"}) =>
      LET h == call.heap
          S == ToCopy(call.obj, h)
      IN \E f \in Bijection(S, alloc \ h.alloc) :
           /\ result = IF S = {} THEN call.obj ELSE f[call.obj]
           /\ \A o \in S :
                /\ kind[f[o]] = h.kind[o]
                /\ slot0[f[o]] = [h.slot0[o] EXCEPT !.mut = call.mut]
                /\ sub[f[o]] = [j \in DOMAIN h.sub[o] |->
                                  IF h.sub[o][j] \in S THEN f[h.sub[o][j]]
                                                       ELSE h.sub[o][j]]

(***************************************************************************)
(* CleanRestoresSource: once CopyObj has returned, the CLEAN_OBJ walk     *)
(* from the root has found every object COPY_OBJ retagged: no object is   *)
(* left with the +COPYING offset and every object that existed before the *)
(* call has its original slot 0 (its type) back and its slots untouched,  *)
(* but for the destination of a CLONE_OBJ.                                *)
(***************************************************************************)
CleanRestoresSource ==
    ReturnedFromCleanHeap({"ok", "cloned"}) =>
      /\ \A o \in Obj : ~copying[o]
      /\ \A o \in (Objs \cup call.heap.alloc) \ {dst} :
           /\ slot0[o] = call.heap.slot0[o]
           /\ sub[o] = call.heap.sub[o]

(***************************************************************************)
(* NoCopyingMarkAfterCopy: whenever no copy is running, no object carries *)
(* the +COPYING offset (spec 4.2: the marks "must never persist after a   *)
(* top-level copy operation completes").  The ErrorQuit in CopyObjPosObj, *)
(* CopyObjComObj and CopyObjDatObj leaves CopyObj without CLEAN_OBJ.      *)
(***************************************************************************)
(***************************************************************************)
(* MarkIffForwarded: an object carries the +COPYING offset exactly when   *)
(* its slot 0 holds a forwarding plist (spec 4.2: the mark is "a tag      *)
(* offset ... together with a forwarding record").  COPY_OBJ writes both, *)
(* CLEAN_OBJ removes both, CLONE_OBJ copies both into dst, and a type     *)
(* setter on a marked object (after a panic) must either overwrite the    *)
(* plist and drop the mark, as SET_TYPE_POSOBJ and SET_TYPE_DATOBJ do, or  *)
(* leave both, as SET_TYPE_COMOBJ does: a mark over a type would make the *)
(* next CopyObj*Copy or CleanObj*Copy read the type as a plist.           *)
(***************************************************************************)
MarkIffForwarded == \A o \in Obj : copying[o] <=> slot0[o] \in Fwd

NoCopyingMarkAfterCopy == pc = "idle" => \A o \in Obj : ~copying[o]

\* The objects reachable from x through any slots of heap h.
RECURSIVE Closure(_, _)
Closure(S, h) ==
    LET T == S \cup UNION {Range(h.sub[o]) \ {NULL} : o \in S}
    IN IF T = S THEN S ELSE Closure(T, h)
Reach(x, h) == Closure({x}, h)

(***************************************************************************)
(* DeepCopyUnaliased: DEEP_COPY_OBJ (CopyObj with mut = 1) returns a value *)
(* that shares no mutable object with the source, so that a change made   *)
(* through the copy is never seen through the source.  It rests on        *)
(* immutability being hereditary, which MakeImmutable's comment promises  *)
(* ("all subobjects") but its bodies do not do.                           *)
(***************************************************************************)
DeepCopyUnaliased ==
    (ReturnedFromCleanHeap({"ok"}) /\ call.mut) =>
      \A y \in Reach(result, heap) \cap Reach(call.obj, call.heap) :
         ~slot0[y].mut

(***************************************************************************)
(* CloneDiscardsCopy: CLONE_OBJ(dst, src) with a mutable src makes dst     *)
(* take the place of the structural copy of src, so nothing reachable     *)
(* from dst still refers to that intermediate copy.  The comment on       *)
(* FuncCLONE_OBJ warns that cloning `[1,~]` breaks.                        *)
(***************************************************************************)
CloneDiscardsCopy ==
    (ReturnedFromCleanHeap({"cloned"}) /\ call.heap.slot0[call.obj].mut) =>
      result \notin Reach(dst, heap)

(***************************************************************************)
(* CopyTerminates: every CopyObj call returns or panics, even on cyclic   *)
(* and shared graphs: a +COPYING object is never copied a second time.    *)
(***************************************************************************)
CopyTerminates == pc \in {"copy", "clean"} ~> pc \notin {"copy", "clean"}

(***************************************************************************)
(* The refinement mapping to CopyAtomic.  While a call runs (its copy,    *)
(* clean or clone steps) its caller still sees the heap the call started  *)
(* from; the call's effect appears, all at once, in the step that returns *)
(* to the GAP level.  The heap is "broken" once the model has reached      *)
(* undefined behaviour, or when the heap a caller sees carries +COPYING   *)
(* marks, which only a panicked copy leaves.                              *)
(***************************************************************************)
AbsHeap == IF pc \in {"copy", "clean", "clone"} THEN call.heap ELSE heap
Broken  == pc = "undefined" \/ \E o \in Obj : AbsHeap.copying[o]

Atomic == INSTANCE CopyAtomic
            WITH kind <- AbsHeap.kind, slot0 <- AbsHeap.slot0, sub <- AbsHeap.sub,
                 alloc <- AbsHeap.alloc, broken <- Broken, Types <- Type

(***************************************************************************)
(* CopyRefinesAtomic: seen from the GAP level, every CopyObj, MakeImmutable,*)
(* SET_TYPE_* and CLONE_OBJ on an unmarked heap is one atomic step of     *)
(* CopyAtomic:                                                             *)
(* the copy adds exactly the cells its graph needs and changes no other   *)
(* object, and CLONE_OBJ leaves dst a word-for-word image of the (copied) *)
(* source, tag and type included; only a panic or undefined behaviour     *)
(* leaves the promises.                                                    *)
(***************************************************************************)
\* Atomic!Spec, written with the stuttering case first so that TLC tries
\* it before the abstract actions.
CopyRefinesAtomic == Atomic!Init /\ [][UNCHANGED Atomic!vars \/ Atomic!Next]_Atomic!vars
====
