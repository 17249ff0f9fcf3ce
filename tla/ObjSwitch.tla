----------------------------- MODULE ObjSwitch ------------------------------
(***************************************************************************)
(* FuncSWITCH_OBJ and FuncFORCE_SWITCH_OBJ as HPC-GAP threads run them.    *)
(* A handle h is a bag whose header holds PTR_BAG(h), the data cell, and  *)
(* DS_BAG(h), its region.  A call reads PTR_BAG(obj1), PTR_BAG(obj2),     *)
(* DS_BAG(obj1) and DS_BAG(obj2), checks the owner of each region and     *)
(* then writes DS_BAG(obj2), PTR_BAG(obj2), DS_BAG(obj1), PTR_BAG(obj1),   *)
(* in that order and without a lock: each read and each write is a step.  *)
(* A call with an immediate argument returns before it reads anything, a   *)
(* stuttering step, and is left out.  Region owners do not change while    *)
(* the calls run (regions are handed over by other kernel code).           *)
(***************************************************************************)
EXTENDS Naturals, Functions, TLC

CONSTANTS
    Threads, Handles,
    Regions,       \* the regions that have an owner
    Public,        \* DS_BAG of a public object (a NULL Region*)
    Owner,         \* Owner[r] = ds->owner, the thread that owns region r
    ForceThreads,  \* the threads that call FORCE_SWITCH_OBJ
    None           \* an unset local of an idle thread

ASSUME /\ Public \notin Regions
       /\ Owner \in [Regions -> Threads]
       /\ ForceThreads \subseteq Threads
       /\ None \notin Handles \cup Regions \cup {Public}

Region == Regions \cup {Public}
\* The pcs of a call that has passed its checks and writes the handles.
WritePhase == {"wds2", "wptr2", "wds1", "wptr1"}

VARIABLES
    ptr, ds,         \* PTR_BAG and DS_BAG of every handle
    pc,              \* pc[t]: "idle" or the next read / write of thread t
    op,              \* "switch" or "force"
    obj1, obj2,      \* the arguments
    ptr1, ptr2,      \* the locals ptr1, ptr2, ds1, ds2 of the running call
    ds1, ds2,
    home             \* history: the region each data cell started in

locals == <<op, obj1, obj2, ptr1, ptr2, ds1, ds2>>
vars   == <<ptr, ds, pc, locals, home>>

OwnedBy(t, r) == r # Public /\ Owner[r] = t
\* Mutant: the SWITCH_OBJ check without its `!ds ||` (public accepted).
SwitchCheckNoNull(t, r) == r = Public \/ OwnedBy(t, r)
\* if (!ds || ds->owner != TLS) ErrorQuit(..) in FuncSWITCH_OBJ
SwitchCheck(t, r) == OwnedBy(t, r)
\* Mutant: FORCE_SWITCH_OBJ with its ownership checks left out.
ForceCheckNone(t, r) == TRUE
\* if (ds && ds->owner != TLS) ErrorQuit(..) in FuncFORCE_SWITCH_OBJ
ForceCheck(t, r) == r = Public \/ OwnedBy(t, r)
Check(t, r) == IF op[t] = "switch" THEN SwitchCheck(t, r) ELSE ForceCheck(t, r)

\* The call of thread t returns (or ErrorQuit leaves it); its locals die.
Return(t) ==
    /\ pc' = [pc EXCEPT ![t] = "idle"]
    /\ op' = [op EXCEPT ![t] = None]
    /\ obj1' = [obj1 EXCEPT ![t] = None]
    /\ obj2' = [obj2 EXCEPT ![t] = None]
    /\ ptr1' = [ptr1 EXCEPT ![t] = None]
    /\ ptr2' = [ptr2 EXCEPT ![t] = None]
    /\ ds1' = [ds1 EXCEPT ![t] = None]
    /\ ds2' = [ds2 EXCEPT ![t] = None]

Init ==
    /\ ptr = [h \in Handles |-> h]
    /\ ds \in [Handles -> Region]
    /\ home = ds
    /\ pc = [t \in Threads |-> "idle"]
    /\ op = [t \in Threads |-> None]
    /\ obj1 = [t \in Threads |-> None]
    /\ obj2 = [t \in Threads |-> None]
    /\ ptr1 = [t \in Threads |-> None]
    /\ ptr2 = [t \in Threads |-> None]
    /\ ds1 = [t \in Threads |-> None]
    /\ ds2 = [t \in Threads |-> None]

\* Thread t enters FuncSWITCH_OBJ or FuncFORCE_SWITCH_OBJ.
Call(t, o, a, b) ==
    /\ pc[t] = "idle"
    /\ o = "switch" \/ t \in ForceThreads
    /\ pc' = [pc EXCEPT ![t] = "ptr1"]
    /\ op' = [op EXCEPT ![t] = o]
    /\ obj1' = [obj1 EXCEPT ![t] = a]
    /\ obj2' = [obj2 EXCEPT ![t] = b]
    /\ UNCHANGED <<ptr, ds, ptr1, ptr2, ds1, ds2, home>>

\* ptr1 = PTR_BAG(obj1); ptr2 = PTR_BAG(obj2); ds1 = DS_BAG(obj1).
ReadPtr1(t) ==
    /\ pc[t] = "ptr1"
    /\ ptr1' = [ptr1 EXCEPT ![t] = ptr[obj1[t]]]
    /\ pc' = [pc EXCEPT ![t] = "ptr2"]
    /\ UNCHANGED <<ptr, ds, op, obj1, obj2, ptr2, ds1, ds2, home>>

ReadPtr2(t) ==
    /\ pc[t] = "ptr2"
    /\ ptr2' = [ptr2 EXCEPT ![t] = ptr[obj2[t]]]
    /\ pc' = [pc EXCEPT ![t] = "ds1"]
    /\ UNCHANGED <<ptr, ds, op, obj1, obj2, ptr1, ds1, ds2, home>>

ReadDs1(t) ==
    /\ pc[t] = "ds1"
    /\ ds1' = [ds1 EXCEPT ![t] = ds[obj1[t]]]
    /\ pc' = [pc EXCEPT ![t] = "ds2"]
    /\ UNCHANGED <<ptr, ds, op, obj1, obj2, ptr1, ptr2, ds2, home>>

\* ds2 = DS_BAG(obj2) and the two ownership checks, which read only the
\* locals and the (constant) owners.  A failed check is ErrorQuit: the
\* call is abandoned before it writes anything.
ReadDs2(t) ==
    /\ pc[t] = "ds2"
    /\ LET d2 == ds[obj2[t]] IN
       \/ /\ Check(t, ds1[t]) /\ Check(t, d2)
          /\ ds2' = [ds2 EXCEPT ![t] = d2]
          /\ pc' = [pc EXCEPT ![t] = "wds2"]
          /\ UNCHANGED <<op, obj1, obj2, ptr1, ptr2, ds1>>
       \/ /\ ~(Check(t, ds1[t]) /\ Check(t, d2))
          /\ Return(t)
    /\ UNCHANGED <<ptr, ds, home>>

\* DS_BAG(obj2) = ds1; PTR_BAG(obj2) = ptr1; DS_BAG(obj1) = ds2.
WriteDs2(t) ==
    /\ pc[t] = "wds2"
    /\ ds' = [ds EXCEPT ![obj2[t]] = ds1[t]]
    /\ pc' = [pc EXCEPT ![t] = "wptr2"]
    /\ UNCHANGED <<ptr, locals, home>>

\* Mutant: PTR_BAG(obj2) = ds1, the wrong local.
WritePtr2Slip(t) ==
    /\ pc[t] = "wptr2"
    /\ ptr' = [ptr EXCEPT ![obj2[t]] = ds1[t]]
    /\ pc' = [pc EXCEPT ![t] = "wds1"]
    /\ UNCHANGED <<ds, locals, home>>

WritePtr2(t) ==
    /\ pc[t] = "wptr2"
    /\ ptr' = [ptr EXCEPT ![obj2[t]] = ptr1[t]]
    /\ pc' = [pc EXCEPT ![t] = "wds1"]
    /\ UNCHANGED <<ds, locals, home>>

\* Mutant: DS_BAG(obj1) = ds1, a copy-and-paste slip.
WriteDs1Slip(t) ==
    /\ pc[t] = "wds1"
    /\ ds' = [ds EXCEPT ![obj1[t]] = ds1[t]]
    /\ pc' = [pc EXCEPT ![t] = "wptr1"]
    /\ UNCHANGED <<ptr, locals, home>>

WriteDs1(t) ==
    /\ pc[t] = "wds1"
    /\ ds' = [ds EXCEPT ![obj1[t]] = ds2[t]]
    /\ pc' = [pc EXCEPT ![t] = "wptr1"]
    /\ UNCHANGED <<ptr, locals, home>>

\* PTR_BAG(obj1) = ptr2, and the call returns; its locals die with it.
WritePtr1(t) ==
    /\ pc[t] = "wptr1"
    /\ ptr' = [ptr EXCEPT ![obj1[t]] = ptr2[t]]
    /\ Return(t)
    /\ UNCHANGED <<ds, home>>

Step(t) ==
    \/ ReadPtr1(t) \/ ReadPtr2(t) \/ ReadDs1(t) \/ ReadDs2(t)
    \/ WriteDs2(t) \/ WritePtr2(t) \/ WriteDs1(t) \/ WritePtr1(t)

Next ==
    \/ \E t \in Threads, o \in {"switch", "force"}, a, b \in Handles : Call(t, o, a, b)
    \/ \E t \in Threads : Step(t)

\* Nothing inside a call blocks: a thread that has entered one runs on.
Spec == Init /\ [][Next]_vars /\ \A t \in Threads : WF_vars(Step(t))
-----------------------------------------------------------------------------
TypeOK ==
    /\ ptr \in [Handles -> Handles]
    /\ ds \in [Handles -> Region]
    /\ pc \in [Threads -> {"idle", "ptr1", "ptr2", "ds1", "ds2"} \cup WritePhase]
    /\ op \in [Threads -> {"switch", "force", None}]
    /\ obj1 \in [Threads -> Handles \cup {None}] /\ obj2 \in [Threads -> Handles \cup {None}]
    /\ ptr1 \in [Threads -> Handles \cup {None}] /\ ptr2 \in [Threads -> Handles \cup {None}]
    /\ ds1 \in [Threads -> Region \cup {None}] /\ ds2 \in [Threads -> Region \cup {None}]

(***************************************************************************)
(* HandlesPermuteCells: whenever no switch is running, the handles hold    *)
(* each data cell exactly once, each with the region it started in: the    *)
(* four unlocked writes of the switches that ran have only permuted the    *)
(* (PTR_BAG, DS_BAG) pairs, never lost, duplicated or split one.           *)
(***************************************************************************)
HandlesPermuteCells ==
    (\A t \in Threads : pc[t] = "idle") =>
        /\ ptr \in Bijection(Handles, Handles)
        /\ \A h \in Handles : ds[h] = home[ptr[h]]

\* The handle the next write of thread t goes to.
Target(t) == IF pc[t] \in {"wds2", "wptr2"} THEN obj2[t] ELSE obj1[t]
Writable(t, h) == ds[h] = Public \/ OwnedBy(t, ds[h])

(***************************************************************************)
(* NoForeignWrite: a switch writes DS_BAG or PTR_BAG of a handle only      *)
(* while the handle is public or in a region its thread owns (spec 5: the  *)
(* region is the unit of mutual exclusion).  The check is made on the      *)
(* regions read before the writes, with no lock held between.              *)
(***************************************************************************)
NoForeignWrite ==
    [][\A t \in Threads :
         (pc[t] \in WritePhase /\ pc'[t] # pc[t]) => Writable(t, Target(t))]_vars

\* Refinement mapping: a switch that has passed its checks takes effect at
\* its last write; until then each of its two handles is seen with the
\* (pointer, region) pair the switch read from it.
Pending(t) == pc[t] \in WritePhase
Held(t)    == (obj1[t] :> <<ptr1[t], ds1[t]>>) @@ (obj2[t] :> <<ptr2[t], ds2[t]>>)
AbsCell(h) ==
    IF \E t \in Threads : Pending(t) /\ h \in DOMAIN Held(t)
    THEN LET t == CHOOSE t \in Threads : Pending(t) /\ h \in DOMAIN Held(t)
         IN Held(t)[h]
    ELSE <<ptr[h], ds[h]>>
AbsPtr == [h \in Handles |-> AbsCell(h)[1]]
AbsDs  == [h \in Handles |-> AbsCell(h)[2]]

Atomic == INSTANCE SwitchAtomic WITH ptr <- AbsPtr, ds <- AbsDs

(***************************************************************************)
(* SwitchRefinesAtomic: the unlocked four-write switches implement the     *)
(* atomic exchange of SwitchAtomic, each made by a thread allowed to make *)
(* it at the moment it takes effect.                                      *)
(***************************************************************************)
SwitchRefinesAtomic == Atomic!Spec
====
