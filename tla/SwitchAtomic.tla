---------------------------- MODULE SwitchAtomic ----------------------------
(***************************************************************************)
(* What SWITCH_OBJ and FORCE_SWITCH_OBJ promise (spec 4.4): an identity    *)
(* exchange of two handles is one atomic step that swaps the bag's data    *)
(* pointer and its region between the handles, made by a thread that may  *)
(* write both.  SWITCH_OBJ needs both regions owned by the caller;         *)
(* FORCE_SWITCH_OBJ, open to the threads in ForceThreads, also accepts the *)
(* public region.                                                          *)
(***************************************************************************)
CONSTANTS
    Threads, Handles,
    Regions,       \* the regions that have an owner
    Public,        \* DS_BAG of an object in no region (a NULL Region*)
    Owner,         \* Owner[r]: the thread that owns region r
    ForceThreads   \* the threads that call FORCE_SWITCH_OBJ

VARIABLES ptr, ds

OwnedBy(t, r)   == r # Public /\ Owner[r] = t
\* The ownership checks of FuncSWITCH_OBJ and FuncFORCE_SWITCH_OBJ.
SwitchOk(t, r)  == OwnedBy(t, r)
ForceOk(t, r)   == r = Public \/ OwnedBy(t, r)

Swap(a, b) ==
    /\ ptr' = [ptr EXCEPT ![b] = ptr[a], ![a] = ptr[b]]
    /\ ds'  = [ds EXCEPT ![b] = ds[a], ![a] = ds[b]]

Init ==
    /\ ptr = [h \in Handles |-> h]
    /\ ds \in [Handles -> Regions \cup {Public}]

Next ==
    \E t \in Threads, a, b \in Handles :
        /\ \/ SwitchOk(t, ds[a]) /\ SwitchOk(t, ds[b])
           \/ t \in ForceThreads /\ ForceOk(t, ds[a]) /\ ForceOk(t, ds[b])
        /\ Swap(a, b)

Spec == Init /\ [][Next]_<<ptr, ds>>
====
