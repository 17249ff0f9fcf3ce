---------------------------- MODULE MCObjSwitch -----------------------------
(* Instantiates ObjSwitch for TLC: two threads, each owning one region,   *)
(* and three handles, so that two calls can share a handle while a third  *)
(* handle lets one of them touch a different region.                      *)
EXTENDS ObjSwitch

CONSTANTS t1, t2, h1, h2, h3, r1, r2

OwnerMap == (r1 :> t1) @@ (r2 :> t2)

\* Handles are interchangeable: each starts holding its own data cell and
\* the start regions range over all distributions.
HandleSymmetry == Permutations(Handles)
====
