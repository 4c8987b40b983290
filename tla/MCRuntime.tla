----------------------------- MODULE MCRuntime -----------------------------
(***************************************************************************)
(* A triangle of three packages whose lowest edge is not a build           *)
(* dependency.                                                             *)
(***************************************************************************)
EXTENDS Runtime

BuildEdges == {<<3, 2>>, <<3, 1>>}
OtherEdges == {<<2, 1>>}
=============================================================================
