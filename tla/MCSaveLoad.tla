---------------------------- MODULE MCSaveLoad ------------------------------
(* Instantiates SaveLoad for TLC: two objects of one type, one record     *)
(* name, two byte values and a two-byte word.  Up to three components,    *)
(* slots or payload bytes give data objects of zero, one and two words,   *)
(* with and without a padded last word.                                   *)
EXTENDS SaveLoad

CONSTANTS a, b, T, r1
====
