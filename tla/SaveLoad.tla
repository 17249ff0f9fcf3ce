----------------------------- MODULE SaveLoad ------------------------------
(***************************************************************************)
(* The save and load bodies of the three structural kinds, SaveComObj /    *)
(* LoadComObj, SavePosObj / LoadPosObj and SaveDatObj / LoadDatObj, run   *)
(* by the workspace framer (spec 4.5): it writes each object's tag and    *)
(* byte size and calls the body SaveObjFuncs selects; on loading it reads *)
(* the tag and size, gives the object a bag of that tag and size and      *)
(* calls the body LoadObjFuncs selects (the tables are KernelTables').    *)
(* The stream is a sequence of items written by SaveSubObj (a reference)  *)
(* and SaveUInt (a word); a word of a data object is the tuple of its W   *)
(* bytes.  A reference is the identity of the object referred to; the     *)
(* framer's numbering of objects is taken as given.                       *)
(***************************************************************************)
EXTENDS Naturals, Sequences, SequencesExt, KernelTables

CONSTANTS
    Objs,      \* the objects of the workspace
    Types,     \* their types (the references in slot 0)
    RNams,     \* record names
    Bytes,     \* the byte values
    W,         \* sizeof(UInt) = sizeof(Obj), in bytes
    MaxLen     \* the most components, slots or payload bytes of an object

ASSUME W \in Nat \ {0} /\ MaxLen \in Nat

Kinds == {"comobj", "posobj", "datobj"}
Ref   == Objs \cup Types

\* An object as the framer and the load body see it: its kind, type and
\* byte size SIZE_OBJ, and its contents: the <<rnam, value>> pairs of a
\* component object (whose size its load body does not read), the slots
\* of a positional object, the payload bytes of a data object (its bag
\* past the type word).
Obj ==
    [kind : {"comobj"}, type : Types, size : {W}, body : SeqOf(RNams \X Ref, MaxLen)]
    \cup {[kind |-> "posobj", type |-> t, size |-> (Len(b) + 1) * W, body |-> b] :
            t \in Types, b \in SeqOf(Ref, MaxLen)}
    \cup {[kind |-> "datobj", type |-> t, size |-> W + Len(b), body |-> b] :
            t \in Types, b \in SeqOf(Bytes, MaxLen)}

Sub(x)  == [tag |-> "sub", v |-> x]     \* SaveSubObj(x)
UInt(x) == [tag |-> "uint", v |-> x]    \* SaveUInt(x)

-----------------------------------------------------------------------------
(* The save bodies: the items each appends to the stream.  A data object's *)
(* bag is read word by word, len = ceil(SIZE_OBJ / W) - 1 words after the  *)
(* type, so its last word takes pad, the bytes of the bag's last word past *)
(* SIZE_OBJ (whatever the bag holds there).                                *)

SaveComObj(o) ==
    <<Sub(o.type), UInt(Len(o.body))>>
      \o FlattenSeq([i \in 1..Len(o.body) |-> <<UInt(o.body[i][1]), Sub(o.body[i][2])>>])

SavePosObj(o) ==
    <<Sub(o.type)>> \o [i \in 1..(o.size \div W - 1) |-> Sub(o.body[i])]

DatLen(size) == (size + W - 1) \div W - 1

SaveDatObj(o, pad) ==
    LET bytes == o.body \o pad IN
    <<Sub(o.type)>> \o [i \in 1..DatLen(o.size) |-> UInt(SubSeq(bytes, (i - 1) * W + 1, i * W))]

\* The bytes of the last word past SIZE_OBJ.
PadLen(o) == IF o.kind = "datobj" THEN DatLen(o.size) * W - (o.size - W) ELSE 0

\* SaveObjFuncs[TNUM_OBJ(o)] run on o.
SaveBody(o, pad) ==
    LET body == SaveObjFuncs[KindTnum[o.kind]] IN
    CASE body = "SaveComObj" -> SaveComObj(o)
      [] body = "SavePosObj" -> SavePosObj(o)
      [] body = "SaveDatObj" -> SaveDatObj(o, pad)

-----------------------------------------------------------------------------
(* The load bodies: from the items s starting at position p, into a bag of *)
(* the kind and size the framer read, the object they rebuild and the     *)
(* position after the last item read.                                     *)

LoadComObj(s, p) ==
    LET len == s[p + 1].v IN
    [obj  |-> [kind |-> "comobj", type |-> s[p].v, size |-> W,
               body |-> [i \in 1..len |-> <<s[p + 2 * i].v, s[p + 2 * i + 1].v>>]],
     next |-> p + 2 + 2 * len]

\* Mutant: slot i is loaded from the item before it (ADDR_OBJ(posobj)[i-1]).
LoadPosObjOff(s, p, size) ==
    LET len == size \div W - 1 IN
    [obj  |-> [kind |-> "posobj", type |-> s[p].v, size |-> size,
               body |-> [i \in 1..len |-> s[p + i - 1].v]],
     next |-> p + 1 + len]

\* Mutant: the loaded object keeps the size of an empty bag.
LoadPosObjSizeW(s, p, size) ==
    LET len == size \div W - 1 IN
    [obj  |-> [kind |-> "posobj", type |-> s[p].v, size |-> W,
               body |-> [i \in 1..len |-> s[p + i].v]],
     next |-> p + 1 + len]

LoadPosObj(s, p, size) ==
    LET len == size \div W - 1 IN
    [obj  |-> [kind |-> "posobj", type |-> s[p].v, size |-> size,
               body |-> [i \in 1..len |-> s[p + i].v]],
     next |-> p + 1 + len]

LoadDatObj(s, p, size) ==
    LET len   == DatLen(size)
        bytes == FlattenSeq([i \in 1..len |-> s[p + i].v])
    IN [obj  |-> [kind |-> "datobj", type |-> s[p].v, size |-> size,
                  body |-> SubSeq(bytes, 1, size - W)],
        next |-> p + 1 + len]

\* LoadObjFuncs[tnum] run on a bag of that tag and size.
LoadBody(tnum, s, p, size) ==
    LET body == LoadObjFuncs[tnum] IN
    CASE body = "LoadComObj" -> LoadComObj(s, p)
      [] body = "LoadPosObj" -> LoadPosObj(s, p, size)
      [] body = "LoadDatObj" -> LoadDatObj(s, p, size)

-----------------------------------------------------------------------------
VARIABLES
    heap,     \* the objects of the workspace
    stream,   \* the items written so far
    saved,    \* the objects in the order they were saved
    marks,    \* history: the position of each saved object's header
    pos,      \* the next item the loader reads
    loaded,   \* the objects rebuilt so far, in load order
    phase     \* "save" or "load"

vars == <<heap, stream, saved, marks, pos, loaded, phase>>

Init ==
    /\ heap \in [Objs -> Obj]
    /\ stream = <<>> /\ saved = <<>> /\ marks = <<>>
    /\ pos = 1 /\ loaded = <<>>
    /\ phase = "save"

\* The framer saves object o: its tag and size, then its save body.
SaveObj(o) ==
    /\ phase = "save"
    /\ o \notin Range(saved)
    /\ \E pad \in [1..PadLen(heap[o]) -> Bytes] :
          stream' = stream \o <<[tag |-> "hdr", v |-> <<KindTnum[heap[o].kind], heap[o].size>>]>>
                           \o SaveBody(heap[o], pad)
    /\ saved' = Append(saved, o)
    /\ marks' = Append(marks, Len(stream) + 1)
    /\ UNCHANGED <<heap, pos, loaded, phase>>

\* The workspace is written: the loader starts at its first item.
StartLoad ==
    /\ phase = "save" /\ Range(saved) = Objs
    /\ phase' = "load"
    /\ UNCHANGED <<heap, stream, saved, marks, pos, loaded>>

\* The framer reads a header, makes a bag of that tag and size and runs
\* the load body.
LoadObj ==
    /\ phase = "load" /\ pos <= Len(stream)
    /\ LET h == stream[pos].v
           r == LoadBody(h[1], stream, pos + 1, h[2])
       IN /\ loaded' = Append(loaded, r.obj)
          /\ pos' = r.next
    /\ UNCHANGED <<heap, stream, saved, marks, phase>>

Next == (\E o \in Objs : SaveObj(o)) \/ StartLoad \/ LoadObj

Spec == Init /\ [][Next]_vars
-----------------------------------------------------------------------------
TypeOK ==
    /\ heap \in [Objs -> Obj]
    /\ saved \in Seq(Objs) /\ loaded \in Seq(Obj)
    /\ pos \in Nat \ {0}
    /\ phase \in {"save", "load"}

(***************************************************************************)
(* LoadRebuildsSaved: each load body reads exactly the items its save body *)
(* wrote, so the loader stays on the headers the framer wrote, and each   *)
(* object loaded equals the object saved there (spec 4.5 and 8): the      *)
(* same type, components, slots and payload bytes, whatever the padding   *)
(* of a data object's last word held.                                     *)
(***************************************************************************)
LoadRebuildsSaved ==
    /\ Len(loaded) <= Len(saved)
    /\ pos = IF Len(loaded) < Len(saved) THEN marks[Len(loaded) + 1] ELSE Len(stream) + 1
    /\ \A i \in 1..Len(loaded) : loaded[i] = heap[saved[i]]
====
