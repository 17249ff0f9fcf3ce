# TLA+ models of GAP's `objects.c`

This directory holds TLA+ models of `src/src/objects.c`: the kernel layer of
GAP that dispatches the generic object operations on type tags (TNUMs) and
implements the structural copy, the freezer, printing and viewing, the
save/load bodies and the HPC-GAP identity exchange for the three "structural"
object kinds: component objects (`T_COMOBJ`), positional objects (`T_POSOBJ`)
and data objects (`T_DATOBJ`).

## 1. Survey

### 1.1 Components

| Component | Code | State | Operations | Interacts with |
|---|---|---|---|---|
| Type-tag dispatch registry | `TypeObjFuncs`, `IsMutableObjFuncs`, `CopyObjFuncs`, `CleanObjFuncs`, `PrintObjFuncs`, `SaveObjFuncs`, ... and `InitKernel` | one function table per operation, indexed by TNUM (the copy tables also by TNUM+COPYING) | filled once by `InitKernel`; read by every operation | every other component |
| Deep-copy / clean engine | `CopyObj`, `CopyObjPosObj/ComObj/DatObj`, `CopyObj*Copy`, `CleanObj*`, `CleanObj*Copy`, `Immutable/MutableCopyObjHandler` | slot 0 of each object (its type, or during a copy the forwarding plist `<<old type, copy>>`), the TNUM (+COPYING while copied), the slots, the heap cells allocated | `COPY_OBJ` (recursive), `CLEAN_OBJ` (recursive), the two GAP-level handlers | the registry (dispatch on a +COPYING tag), the freezer (mutability filter), clone |
| Immutability freezer | `MakeImmutable`, `MakeImmutableComObj/PosObj/DatObj`, `FuncMakeImmutable` | the IsMutableObjFilt bit of the type in slot 0 | reset the filter of one object | the copy engine reads the filter |
| Clone | `FuncCLONE_OBJ` | dst's bag: size, TNUM and every word | reject an immediate src; structural copy of a mutable src; word-for-word copy into dst | calls `CopyObj` |
| Identity exchange | `FuncSWITCH_OBJ`, `FuncFORCE_SWITCH_OBJ` | the bag's data pointer `PTR_BAG` and region `DS_BAG` of each handle; the owner thread of each region | read both pointers and regions, check ownership, write both handles | region ownership of other threads |
| Print / view engine | `PrintObj`, `ViewObj`, `IS_MARKED`, `PrintInaccessibleObject`, `FuncSET_PRINT_OBJ_INDEX` | the global ancestor stack `PrintObjThiss[MAXPRINTDEPTH]`, `PrintObjIndices`, `PrintObjDepth`, `PrintObjThis`, `PrintObjIndex`, `LastPV`, the local `fromview` | push, dispatch, pop; back-reference `~` for an ancestor; depth limit | type print bodies call back into `PrintObj` / `ViewObj` |
| Save / load bodies | `SaveComObj/PosObj/DatObj`, `LoadComObj/PosObj/DatObj` | the stream of sub-object references and words | emit and read, in a fixed order | the serialisation framer (outside this file) |
| Shallow copy, type accessors, predicates | `ShallowCopyObjDefault`, `TypeComObj`, `SET_TYPE_*`, `IS_*OBJ`, `LEN_POSOBJ`, `IsIdenticalHandler` | slot 0, the TNUM | single reads and writes | none beyond the registry |

### 1.2 The hard behaviours

- **Recursion over arbitrary graphs.** The copy is recursive over cyclic and
  shared object graphs. It avoids looping or duplicating only because the
  forwarding plist and the +COPYING retag happen *before* the subvalue loop.
  The clean walk must then find every retagged object again from the same
  root.
- **Partial failure.** `ErrorQuit` on a mutable non-copyable subobject
  long-jumps out of the middle of a copy: no `CLEAN_OBJ` runs, and the marks
  stay. Every later `IS_MUTABLE_OBJ` on a marked object indexes a table sized
  `LAST_REAL_TNUM+1` with a larger tag.
- **Clone.** `CLONE_OBJ` composes a structural copy with a shallow word copy.
  The copy's self-references survive into dst. `dst` is not checked at all.
- **Hereditary immutability.** The copy trusts that an immutable object has
  no mutable children (it returns immutable objects unchanged), but
  `MakeImmutable` is shallow.
- **Identity exchange between threads.** Each switch reads both handles,
  checks ownership, then writes four words with no lock. `FORCE_SWITCH_OBJ`
  lets two threads do this on the same public (region-less) objects at once.
- **Printing.** The print stack is made of plain globals, shared by
  `PrintObj` and `ViewObj` and by all threads. It has a fixed depth. Its
  back-reference test `IS_MARKED` looks only at the entries below the top.
  `LastPV` / `fromview` decide whether a `PrintObj` called from a view body
  reuses the view's frame.

### 1.3 What makes each component correct

- **Copy engine.**
  - The result is the source graph with every mutable object reachable
    through mutable objects replaced by exactly one new cell. Sharing and
    cycles are preserved, and immutable subobjects are shared.
  - After the call, no object carries +COPYING, and every original has its
    type and slots back.
  - Every copy terminates.
- **Freezer.** A frozen object has no mutable descendants, so that a deep copy
  shares nothing mutable with its source.
- **Clone.**
  - dst becomes a copy of src that refers to nothing of the intermediate
    copy.
  - An immediate argument is refused recoverably.
- **Identity exchange.**
  - The handles always hold a permutation of the original (pointer, region)
    cells: no cell is duplicated or lost.
  - A thread never writes a handle in a region another thread owns.
  - Switching twice restores both handles.
- **Print / view.**
  - The ancestor stack is back at its depth when a print returns.
  - A cycle prints a back-reference and terminates.
  - The depth never exceeds `MAXPRINTDEPTH`.
- **Save / load.** `load(save(x))` rebuilds `x`.

## 2. Plan and status

Modules, in the order they were built (most important behaviour first):

| Module | Models | Status |
|---|---|---|
| `KernelTables.tla` | the dispatch tables `InitKernel` fills, one constant function per operation | done |
| `ObjCopy.tla`, `MCObjCopy.tla` | the copy / clean engine, the freezer and clone over one heap, dispatching through `KernelTables` | done |
| `CopyAtomic.tla` | what copy, freeze and clone promise the GAP level: one atomic step each; `ObjCopy` is shown to refine it | done |
| `SwitchAtomic.tla` | what an identity exchange promises: one atomic swap | done |
| `ObjSwitch.tla`, `MCObjSwitch.tla` | `SWITCH_OBJ` / `FORCE_SWITCH_OBJ` run by two threads, each read or write of a handle one step; shown to refine `SwitchAtomic` | done |
| `PrintView.tla`, `MCPrintView.tla` | the global print / view stack, the bodies that recurse through it, interrupts and their break loop, several threads | done |
| `SaveLoad.tla`, `MCSaveLoad.tla` | the save and load bodies as operators on the stream, run by the workspace framer over several objects | done |

What the plan still leaves:
- **A liveness property for printing.** It would need fairness for the user's `return;` in the break loop, which nothing in the code guarantees.
- **The `quit;` exit from the break loop.** This is a partial failure that leaves the print globals pushed.

## 3. `ObjCopy` and how it corresponds to the code

**State.** Heap cell `o` has the following variables:
- `kind[o]` is its TNUM without the COPYING offset, and `copying[o]` says
  whether the offset is applied.
- `slot0[o]` is `ADDR_OBJ(o)[0]`: either a type record `[fam, mut, cpy]`
  (its identity and the IsMutableObjFilt / IsCopyableObjFilt bits) or the
  forwarding plist `[orig, copy]`.
- `sub[o]` holds slots 1..n: bound objects for a comobj, objects or `NULL`
  for a posobj, nothing for a datobj, whose raw data travel with the cell.
- `alloc` is the set of cells of `Fresh` that `NewBag` has handed out.

The C recursion is `stack`, a sequence of frames. There is one frame per
activation of a copy body (holding its copy and its loop index) or of a clean
body.

**Actions.**

| Action | Code |
|---|---|
| `CopyObj(r, m)` | `Immutable/MutableCopyObjHandler` then `CopyObj` |
| `CopyObjBody` | the top activation: immediate return, panic, or `NewBag` + forwarding plist + retag |
| `CopyObjSubvalue` | one iteration of the subvalue loop of `CopyObjPosObj` / `CopyObjComObj`: skip an unbound slot, store the result of `CopyObj*Copy` or of an immutable subvalue, panic, or start a new activation |
| `CopyObjReturn` | a copy body returns its copy into its caller's slot; for the root, `CopyObj` calls `CLEAN_OBJ` |
| `CleanObjSubvalue` | one iteration of `CleanObjPosObjCopy` / `CleanObjComObjCopy` |
| `CleanObjReturn` | a clean body returns |
| `MakeImmutable(o)` | `FuncMakeImmutable` |
| `SetType(o, t)`, with `SET_TYPE_COMOBJ`, `SET_TYPE_POSOBJ`, `SET_TYPE_DATOBJ`, `SET_TYPE_OBJ` | the GAP-level handlers `SET_TYPE_COMOBJ_Handler` / `POSOBJ` / `DATOBJ`, on an object of the handler's own kind, and `SetTypeObjHandler` |
| `CloneObj(d, s)`, `CloneObjFinish` | `FuncCLONE_OBJ` before and after its `CopyObj` |

**Dispatch.** `TNUM_OBJ(x)` is the tag of x's kind from `KernelTables`,
moved by `COPYING` while x is marked. `COPY_OBJ`, `CLEAN_OBJ`,
`IS_MUTABLE_OBJ`, `IS_COPYABLE_OBJ` and `MakeImmutable` look the body up in
their table, as the C macros do. For example, `Forwarded(x)` holds when
`CopyObjFuncs[TNUM_OBJ(x)]` is a `CopyObj*Copy` body, and `CopiesAnew(x)`
when it is `CopyObjPosObj` / `ComObj` / `DatObj`. A tag past the end of
`IsMutableObjFuncs` (LAST_REAL_TNUM+1 cells) is what makes `IS_MUTABLE_OBJ`
on a marked object undefined.

**Type setters.** `SetType(o, t)` gives `o` a type `t` of its own family.
The type's filters come from `TypeFilters`. The library changes types this
way when it sets or resets a filter.
- `SET_TYPE_COMOBJ` acts only on the tags `T_PREC` and `T_COMOBJ`. On a
  comobj that a panicked copy left marked, it does nothing.
- `SET_TYPE_POSOBJ` (its default branch) and `SET_TYPE_DATOBJ` write slot 0
  and `RetypeBag` whatever the tag. On a marked object they overwrite the
  forwarding plist and drop +COPYING.

`MarkIffForwarded` (checked in `copy_clean`) says that an object is marked
exactly when its slot 0 holds a forwarding plist. A setter that wrote the type
but kept the mark would leave the next `CopyObj*Copy` reading a type as a
plist. The filter change that `SET_TYPE_COMOBJ` silently drops on a marked
comobj is reached but not stated as a property: it follows a panic, after
which spec 7 promises nothing.

- `SET_TYPE_OBJ` goes through `SetTypeObjFuncs`. `SetTypeComObj`,
  `SetTypePosObj` and `SetTypeDatObj` write slot 0 and leave the tag alone.
  The table has LAST_REAL_TNUM+1 cells, so on a marked object the call is
  undefined (`pc = "undefined"`).

A retag of another kind is left out. It reinterprets the words of a bag
whose layout the model does not hold.

**History.** The variables `call`, `result`, `dst` and `outcome` record the
running top-level call, the heap it started from and how it ended. Only the
properties read them.

**Undefined behaviour.** Two operations have no defined outcome, and the
model goes to `pc = "undefined"` and stops there:
- `IS_MUTABLE_OBJ` and `SET_TYPE_OBJ` on a marked object;
- `ResizeBag` on an immediate `dst` of `CLONE_OBJ`. Its check is commented
  out at lines 1577-1585, so every clone into an immediate reaches this
  state, and no run is spent on a property that only restates the missing
  guard.

**Refinement.** `CopyAtomic` states what the GAP level is promised:
- `CopyObj(r, m)` adds one new cell per object of `ToCopy(r)`, wired as the
  source, and changes nothing else;
- `MakeImmutable(o)` resets one mutability bit, and `SetType(o, t)`
  replaces one type;
- `CLONE_OBJ(d, s)` makes `d` a word-for-word image of `s`, or of the deep
  copy of a mutable `s`, slot 0 included;
- a panic (`Panic`) and a clone into an immediate (`CloneIntoImmediate`) make
  the heap `broken`. After that nothing is promised (`Unpromised`), until a
  call starts on a heap without marks.

The mapping (`AbsHeap`, `Broken` in `ObjCopy.tla`) is as follows:
- while a copy, clean or clone step runs, the abstract heap is the heap the
  call started from (`call.heap`);
- otherwise it is the concrete heap;
- `broken` holds at `pc = "undefined"`, or when that heap carries a
  +COPYING mark.

So the whole multi-step call shows up as one abstract step, the one that
returns to the GAP level. `CopyRefinesAtomic` is `Atomic!Spec`, written
with the stuttering case first so that TLC tries it before the abstract
actions. It is checked in `copy_clean`.

## 4. `ObjSwitch`, `SwitchAtomic` and the refinement

**State.**
- `ptr[h]` and `ds[h]` are `PTR_BAG(h)` and `DS_BAG(h)`.
- Each thread has a `pc` and the C locals `ptr1, ptr2, ds1, ds2` of the call
  it runs.
- `Owner` (a constant) is `ds->owner`, and `Public` is a NULL region.
- `home` is a history variable: the region each data cell started in.

**Actions.**
- `Call` takes the two handles.
- `ReadPtr1`, `ReadPtr2` and `ReadDs1` are the three reads.
- `ReadDs2` reads the last region and runs the owner checks:
  - `SwitchCheck` for `SWITCH_OBJ`: both regions owned, lines 1635-1638;
  - `ForceCheck` for `FORCE_SWITCH_OBJ`: public or owned, lines 1678-1681.
- `WriteDs2`, `WritePtr2`, `WriteDs1` and `WritePtr1` are the four stores,
  in the code's order.

Every read and every write is its own step, because the code takes no lock.

**Refinement.** `SwitchAtomic` says a switch is one atomic swap of both
cells, by a thread allowed to write both. The mapping `AbsPtr` / `AbsDs`
shows each handle of a pending switch, one in its write phase, with the value
that switch read, until its last store. `SwitchRefinesAtomic ==
Atomic!Spec` is checked as a `PROPERTY`.

**Divergence not checked.** The code's `SWITCH_OBJ` needs *both* regions
owned. The spec (4.4) says *at least one*. The model follows the code, and
the abstract spec states the code's stronger check.

## 5. `PrintView` and how it corresponds to the code

**State.** The globals `PrintObjDepth`, `PrintObjThis`, `PrintObjIndex`,
`PrintObjThiss[]`, `PrintObjIndices[]` and `LastPV` are `depth`, `this`,
`index`, `thiss`, `indices` and `lastPV`. They are shared by every thread,
as in the code. `stack[t]` holds the calls thread `t` is in. Each frame
holds:
- the C local `lastPV` (`pv`) and `fromview`;
- whether the body runs, printed `~` and a path (`backref`), or printed the
  depth notice (`stopped`);
- for an interrupted `PrintObj`, a `break` frame holding its saved `i`.

**Actions.**
- `TopCall` is `PrintObjHandler` / `FuncViewObj`, from the prompt or from a
  break loop.
- `Call` is `PrintObjCall` or `ViewObjCall`. `PrintObjCall` first checks for
  an interrupt (`SyIsIntr` then `ErrorReturnVoid`'s break loop); `ViewObj`
  has no such check. Both then run `Proceed`.
- `Proceed` is `CheckRead`. On an object in `Unreadable`,
  `SkipInaccessible` returns at once (`PrintInaccessibleObject`), with no
  frame pushed and no global changed. Otherwise it runs `Enter` for a
  print and `ViewEnter` for a view.
- `Enter` is the whole prologue of `PrintObj`, lines 924-966:
  - `fromview`;
  - the save of the superobject;
  - the push;
  - `NewFrame`: `IS_MARKED`, the path loop `PathTo`, or the `DispatchOk`
    depth test.
- `ViewEnter` is the prologue of `ViewObj`, lines 1059-1093. It is
  `PrintObj`'s without the `fromview` case, and it sets `LastPV = 2`. The
  code keeps the two as separate copies ("This should really be merged
  with PrintObj"), and so does the model.
- `BreakReturn` is the user's `return;`, which sets `PrintObjDepth = i` and
  continues the prologue.
- `Exit` is the epilogue, lines 969-983. `PopObj`, which it calls unless
  `fromview`, is the epilogue that `ViewObj` has, lines 1095-1103.
- `BodyCall` is one call a type's print or view body makes:
  `SET_PRINT_OBJ_INDEX(i)` then `PrintObj` / `ViewObj` of the i-th
  subobject, or, for the default view method, `PrintObj` of the object
  itself.

The bodies live outside this file. They are modelled from spec 6 and marked
so in `PROJECT.json`.

## 6. `SaveLoad` and how it corresponds to the code

**Dispatch.** The framer writes `KindTnum[kind]` as an object's tag.
`SaveBody` and `LoadBody` pick the body by name from `SaveObjFuncs` /
`LoadObjFuncs` of `KernelTables`.

**The bodies.** `SaveComObj`, `SavePosObj`, `SaveDatObj`, `LoadComObj`,
`LoadPosObj` and `LoadDatObj` are operators:
- a save body gives the items it appends;
- a load body takes the stream and a position, and gives the object it
  rebuilds and the position after it.

**Stream items.** An item is a reference (`SaveSubObj`) or a word
(`SaveUInt`).
- A reference is the identity of the object. The framer's numbering is taken
  as given.
- A data object's word is the tuple of its `W` bytes. So the rounded-up word
  count `ceil(SIZE_OBJ / W) - 1` and the padding of a partial last word are
  modelled by what they do.

**The framer.** It lives outside this file and is modelled from spec 4.5:
- `SaveObj` writes a header (kind and `SIZE_OBJ`) and the save body;
- `StartLoad` begins reading once everything is written;
- `LoadObj` reads a header and runs the load body.

`marks` is a history variable recording where each header went.

## 7. Runs

| Run | Config | Bounds | Checks | Result |
|---|---|---|---|---|
| `copy_clean` | `ObjCopy.cfg` | 2 objects, 4 fresh cells, 2 slots, 2 top-level calls, any objects non-copyable | `TypeOK`, `CopyFaithful`, `CleanRestoresSource`, `MarkIffForwarded`, `CopyRefinesAtomic` | pass, 765k states, about 2 min |
| `copy_terminates` | `ObjCopyLive.cfg` | 1 call | `CopyTerminates` | pass |
| `panic_leaves_marks` | `ObjCopyMarks.cfg` | `o2` non-copyable | `NoCopyingMarkAfterCopy` | violation |
| `freeze_shallow` | `ObjCopyFreeze.cfg` | hereditary start states, no type changes (`TypeFilters = {}`) | `DeepCopyUnaliased` | violation |
| `clone_self_reference` | `ObjCopyClone.cfg` | 1 call | `CloneDiscardsCopy` | violation |
| `switch_exclusive` | `ObjSwitch.cfg` | 2 threads (t1 may force), 3 handles, 2 owned regions + public | `TypeOK`, `HandlesPermuteCells`, `NoForeignWrite`, `SwitchRefinesAtomic` | pass, 330k states |
| `force_switch_lost_cell` | `ObjSwitchForce.cfg` | both threads force | `HandlesPermuteCells` | violation |
| `print_lists` | `PrintView.cfg` | 1 thread, 3 markable objects (`o3` unreadable), 2 slots, depth 4 | `BackRefDenotes`, `NoDepthStop` | pass, 319k states |
| `print_mixed` | `PrintViewMixed.cfg` | `o2` unmarkable, 1 interrupt | `TypeOK`, `PrintStackInBounds`, `StackRestored` | pass, 329k states |
| `print_break_loop` | `PrintViewBreak.cfg` | 1 interrupt | `BackRefDenotes` | violation |
| `print_two_threads` | `PrintViewThreads.cfg` | 2 threads | `PrintStackInBounds` | violation |
| `save_load_round_trip` | `SaveLoad.cfg` | 2 objects of any kind, 1 type, 1 record name, bytes {0,1}, `W = 2`, up to 3 components / slots / payload bytes | `TypeOK`, `LoadRebuildsSaved` | pass, 117k states |

**Why the bounds are enough.**
- **Copy.** Two objects with two slots each already give a self-loop, a
  two-cycle, two slots sharing one child, a mutable object under an immutable
  one, and a non-copyable object below a copyable one. Those are the cases
  the forwarding scheme and the clean walk must handle. Two calls let a copy
  follow a freeze, a type change, a panic or a clone, and let a type change
  follow a panic.
  - `freeze_shallow` allows no type change. Setting an immutable type on a
    parent breaks hereditary immutability just as the shallow
    `MakeImmutable` does, and the finding is about `MakeImmutable`.
- **Switch.** Two owned regions and the public one give every combination
  of the ownership checks. Only two forcing threads can share a handle:
  `SWITCH_OBJ` refuses public handles, and both functions refuse another
  thread's region.
  - In `switch_exclusive` only t1 forces, so t1 works on public and r1
    handles and t2 on r2 handles. The run checks each call's reads, checks
    and four stores, not a race between the threads.
  - In `force_switch_lost_cell` both threads force. Three handles let the
    two switches overlap on one public handle while each touches another
    one, and that race is what the violation shows.
- **Print.** With two objects, the longest path without a repeated object
  has two levels, so `MAXPRINTDEPTH = 4` separates "a cycle is caught" from
  "the depth notice is reached" (the code's 1024 plays the same role).
  `print_lists` keeps every object markable. Its third object is unreadable,
  so the readable paths are still two levels deep, and `CheckRead`'s early
  return sits between them. With a component or positional
  object, the TNUMs outside `IS_MARKABLE`'s range, a self-containing object
  reaches the depth notice. Spec 4.3 restricts back-references to the
  markable range, so this is the code's documented behaviour, although
  spec 8's claim about self-referential structures reads more broadly.
- **Save / load.** Up to three payload bytes with a two-byte word give data
  objects of zero, one and two words, with and without padding. Two objects
  saved in either order put a body after another object's body.

**Symmetry.** All of it is used only in safety runs:
- the fresh cells are interchangeable;
- so are the source objects when `Init` ranges over every choice of
  non-copyable ones;
- so are the switch handles.

**Checking deadlock.** `MaxOps` is a modelling bound, so the copy runs do not
check deadlock. A workspace that has been loaded is finished, so the
save/load run does not check it either. The switch and print runs do, since
a new call is always possible.

**Fairness.**
- **Copy.** The loop iterations and returns of a running copy are weakly
  fair. They continue one C call on one thread, and nothing in them blocks.
  Top-level calls get no fairness.
- **Switch.** Each thread's steps are weakly fair, but no switch run checks
  a liveness property.
- **Print.** No fairness is assumed, because a break loop waits for the user.

## 8. Findings

- **`panic_leaves_marks`.** An `ErrorQuit` inside a copy leaves the
  +COPYING marks and forwarding plists on the objects copied so far. The spec
  (4.2) makes their absence a system invariant. The next `IS_MUTABLE_OBJ` on
  such an object is undefined behaviour.
- **`freeze_shallow`.** `MakeImmutable` is shallow, though its comment says
  it marks all subobjects. After a freeze, `MutableCopy` of the frozen object
  returns the object itself, with its mutable children shared.
- **`clone_self_reference`.** The clone of a mutable self-referential object
  refers to the discarded intermediate copy (the code's own WARNING about
  `[1,~]`).
- **`force_switch_lost_cell`.** Two `FORCE_SWITCH_OBJ` calls on public
  handles interleave their unlocked reads and stores. One data cell ends up
  in two handles and another in none. The same race also lets a thread write
  a handle that the other thread's switch has just moved into a region that
  other thread owns. TLC also finds `NoForeignWrite` violated under this
  config, but no run records that: the run checks `HandlesPermuteCells`
  only. `NoForeignWrite` holds in `switch_exclusive`.
- **`print_break_loop`.** A `Print` in the break loop of an interrupted print
  runs on the interrupted print's stack. Its `~` paths start from the
  interrupted root.
- **`print_two_threads`.** The print globals are not per thread. Two threads
  add up their depths, and `PrintObjThiss[PrintObjDepth-1]` is written past
  the array.

## 9. Not modelled

- **Five of the eleven dispatch tables** (`TypeObjFuncs`, `SetTypeObjFuncs`,
  `ShallowCopyObjFuncs`, `PrintObjFuncs`, `PrintPathFuncs`). `KernelTables`
  defines them, but no module dispatches through them:
  - their bodies are GAP-level methods outside this repository
    (`TypeComObj` reads slot 0; `ShallowCopyObjObject` and
    `PrintObjObject` call an operation);
  - or they serve record and list tags (`ShallowCopyObjDefault`), whose
    bags no module holds.
- **Type readers and the retags of another kind.**
  - `TYPE_OBJ`, the `IS_*OBJ` handlers, `LEN_POSOBJ` and `IsIdentical`
    change no state.
  - `SET_TYPE_POSOBJ` on a comobj or datobj, and `SET_TYPE_DATOBJ` on a
    posobj, reinterpret a bag's words. That would need a bag layout.
  - The atomic tags `T_ACOMOBJ` / `T_APOSOBJ` are not in any heap.
- **Composition of the copy engine with save and print.** After a panicked
  copy, saving or printing a marked object reaches an unfilled cell of
  `SaveObjFuncs` / `PrintObjFuncs`. No module holds both a marked heap and
  the save or print engine (see the hazards in `PROJECT.json`).
- **Garbage collection** (`CHANGED_BAG`) and the contents of raw data.
- **The error handler's recovery.** The copy model treats `ErrorQuit` as
  leaving the operation. The print model takes only `return;` from the break
  loop.
- **The serialisation framer's encoding of items** and its numbering of
  objects. Spec 4.5's "save never allocates" concerns `SaveSubObj`, which is
  outside this file.
