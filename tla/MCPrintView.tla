---------------------------- MODULE MCPrintView -----------------------------
(* Instantiates PrintView for TLC: two objects with up to two subobjects   *)
(* each give a self-loop, a two-cycle and a shared subobject; MAXPRINTDEPTH *)
(* is cut to 4, longer than any path through two objects with one repeat. *)
EXTENDS PrintView

CONSTANTS t1, t2, o1, o2, o3
====
