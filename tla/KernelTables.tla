---------------------------- MODULE KernelTables -----------------------------
(***************************************************************************)
(* The type-tag dispatch registry of objects.c: the tables InitKernel     *)
(* fills, one per generic operation, each a C array of function pointers  *)
(* indexed by TNUM_OBJ.  A table is a function from its cells to the name *)
(* of the body installed there; a cell InitKernel never writes keeps the  *)
(* zero of a static array ("none").  InitKernel runs once, before any     *)
(* other operation, and no code of objects.c writes a table afterwards,   *)
(* so the tables are constants of every other module.                     *)
(*                                                                         *)
(* The numbering of the tags comes from objects.h: ranges of constant,    *)
(* record, list and external tags, contiguous and in that order from      *)
(* FIRST_REAL_TNUM = 0, with the three structural tags among the external *)
(* ones, and the COPYING offset that moves a record, list or external tag *)
(* past LAST_REAL_TNUM.                                                    *)
(***************************************************************************)
EXTENDS Naturals, FiniteSets, TLC

CONSTANTS
    LAST_CONSTANT_TNUM, LAST_RECORD_TNUM, LAST_LIST_TNUM, LAST_REAL_TNUM,
    T_COMOBJ, T_POSOBJ, T_DATOBJ,
    COPYING

ASSUME /\ LAST_CONSTANT_TNUM < LAST_RECORD_TNUM
       /\ LAST_RECORD_TNUM < LAST_LIST_TNUM
       /\ LAST_LIST_TNUM < LAST_REAL_TNUM
       /\ {T_COMOBJ, T_POSOBJ, T_DATOBJ} \subseteq LAST_LIST_TNUM + 1 .. LAST_REAL_TNUM
       /\ Cardinality({T_COMOBJ, T_POSOBJ, T_DATOBJ}) = 3
       /\ COPYING > LAST_REAL_TNUM - (LAST_CONSTANT_TNUM + 1)

RealTnums     == 0 .. LAST_REAL_TNUM
ConstantTnums == 0 .. LAST_CONSTANT_TNUM
RecordTnums   == LAST_CONSTANT_TNUM + 1 .. LAST_RECORD_TNUM
ListTnums     == LAST_RECORD_TNUM + 1 .. LAST_LIST_TNUM
ExternalTnums == LAST_LIST_TNUM + 1 .. LAST_REAL_TNUM

\* The tags of the three structural kinds.
KindTnum == [comobj |-> T_COMOBJ, posobj |-> T_POSOBJ, datobj |-> T_DATOBJ]

\* A static array of n function pointers before InitKernel writes it.
Cells(n) == [t \in 0 .. n - 1 |-> "none"]

\* The loop "for (t = ...) Funcs[t] = body" over the tags in S.
Fill(S, body) == [t \in S |-> body]

(* Each table below lists its installs latest first: f @@ g keeps f where  *)
(* both are defined, so a later assignment of InitKernel overrides an     *)
(* earlier one.                                                            *)

TypeObjFuncs ==
    (T_COMOBJ :> "TypeComObj") @@ (T_POSOBJ :> "TypePosObj")
    @@ (T_DATOBJ :> "TypeDatObj") @@ Fill(RealTnums, "TypeObjError")
    @@ Cells(LAST_REAL_TNUM + 1)

SetTypeObjFuncs ==
    (T_COMOBJ :> "SetTypeComObj") @@ (T_POSOBJ :> "SetTypePosObj")
    @@ (T_DATOBJ :> "SetTypeDatObj") @@ Fill(RealTnums, "SetTypeObjError")
    @@ Cells(LAST_REAL_TNUM + 1)

IsMutableObjFuncs ==
    Fill(ExternalTnums, "IsMutableObjObject") @@ Fill(ConstantTnums, "IsMutableObjNot")
    @@ Fill(RealTnums, "IsMutableObjError") @@ Cells(LAST_REAL_TNUM + 1)

IsCopyableObjFuncs ==
    Fill(ExternalTnums, "IsCopyableObjObject") @@ Fill(ConstantTnums, "IsCopyableObjNot")
    @@ Fill(RealTnums, "IsCopyableObjError") @@ Cells(LAST_REAL_TNUM + 1)

ShallowCopyObjFuncs ==
    Fill(ExternalTnums, "ShallowCopyObjObject")
    @@ Fill(RecordTnums \cup ListTnums, "ShallowCopyObjDefault")
    @@ Fill(ConstantTnums, "ShallowCopyObjConstant")
    @@ Fill(RealTnums, "ShallowCopyObjError") @@ Cells(LAST_REAL_TNUM + 1)

CopyObjFuncs ==
    (T_POSOBJ :> "CopyObjPosObj") @@ (T_POSOBJ + COPYING :> "CopyObjPosObjCopy")
    @@ (T_COMOBJ :> "CopyObjComObj") @@ (T_COMOBJ + COPYING :> "CopyObjComObjCopy")
    @@ (T_DATOBJ :> "CopyObjDatObj") @@ (T_DATOBJ + COPYING :> "CopyObjDatObjCopy")
    @@ Fill(ConstantTnums, "CopyObjConstant") @@ Fill(RealTnums, "CopyObjError")
    @@ Cells(LAST_REAL_TNUM + COPYING + 1)

CleanObjFuncs ==
    (T_POSOBJ :> "CleanObjPosObj") @@ (T_POSOBJ + COPYING :> "CleanObjPosObjCopy")
    @@ (T_COMOBJ :> "CleanObjComObj") @@ (T_COMOBJ + COPYING :> "CleanObjComObjCopy")
    @@ (T_DATOBJ :> "CleanObjDatObj") @@ (T_DATOBJ + COPYING :> "CleanObjDatObjCopy")
    @@ Fill(ConstantTnums, "CleanObjConstant") @@ Fill(RealTnums, "CleanObjError")
    @@ Cells(LAST_REAL_TNUM + COPYING + 1)

PrintObjFuncs  == Fill(RealTnums, "PrintObjObject") @@ Cells(LAST_REAL_TNUM + 1)
PrintPathFuncs == Fill(RealTnums, "PrintPathError") @@ Cells(LAST_REAL_TNUM + 1)

SaveObjFuncs ==
    (T_COMOBJ :> "SaveComObj") @@ (T_POSOBJ :> "SavePosObj")
    @@ (T_DATOBJ :> "SaveDatObj") @@ Fill(RealTnums, "SaveObjError") @@ Cells(256)

LoadObjFuncs ==
    (T_COMOBJ :> "LoadComObj") @@ (T_POSOBJ :> "LoadPosObj")
    @@ (T_DATOBJ :> "LoadDatObj") @@ Fill(RealTnums, "LoadObjError") @@ Cells(256)

MakeImmutableObjFuncs ==
    (T_COMOBJ :> "MakeImmutableComObj") @@ (T_POSOBJ :> "MakeImmutablePosObj")
    @@ (T_DATOBJ :> "MakeImmutableDatObj") @@ Fill(RealTnums, "MakeImmutableError")
    @@ Cells(LAST_REAL_TNUM + 1)
====
