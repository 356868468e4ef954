---------------------------- MODULE MCTableFiles ----------------------------
(***************************************************************************)
(* An instance of TableFiles: short keys that share a prefix, several of   *)
(* which fit into a block, and long ones that fill a block each; keys that *)
(* are prefixes of each other, that differ by one in a byte and by more,   *)
(* and that start with the largest byte.                                   *)
(***************************************************************************)
EXTENDS TableFiles

MCKeyBytes == <<<<1>>, <<1, 1>>, <<1, 2>>, <<7, 7, 7, 7, 7, 7, 7>>, <<8, 8, 8, 8, 8, 8, 8>>>>
MCSearchKeys == ToSet(MCKeyBytes)
==============================================================================
