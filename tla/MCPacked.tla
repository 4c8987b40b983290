------------------------------ MODULE MCPacked ------------------------------
(***************************************************************************)
(* Two tarballs of one dev area, the second packed after its package "art" *)
(* was edited and "fhicl" picked.                                          *)
(***************************************************************************)
EXTENDS Packed

CONSTANTS t1, t2, l1, l2

Contents == t1 :> <<<<"area", "art-1">>, <<"store", "fhicl">>, <<"store", "root">>>>
         @@ t2 :> <<<<"area", "art-2">>, <<"area", "fhicl-2">>, <<"store", "root">>>>
=============================================================================
