----------------------------- MODULE MCDevBuild -----------------------------
(***************************************************************************)
(* Three packages in a chain or a triangle, with at most one edge that is  *)
(* not a build dependency; or where drift dropped a dependency, gained one *)
(* or dropped and regained one; or where the third package is new.         *)
(***************************************************************************)
EXTENDS DevBuild

Chain == {<<2, 1>>, <<3, 2>>}
Triangle == Chain \cup {<<3, 1>>}

\* Edges E of the specs, of which O are not build dependencies and G are gained.
Wired(B, E, O, G, N) ==
    [base |-> B, build |-> E \ O, other |-> O, gained |-> G, new |-> N]

AsInBase == {Wired(Chain, Chain, O, {}, {}) : O \in {{}, {<<2, 1>>}}}
            \cup {Wired(Triangle, Triangle, O, {}, {}) : O \in {{}, {<<3, 1>>}}}
Drifted == {Wired(Triangle, Chain, {}, {}, {}), Wired(Triangle, Triangle, {}, {<<2, 1>>}, {})}
           \cup {Wired(Chain, Triangle, O, {<<3, 1>>}, {}) : O \in {{}, {<<3, 1>>}}}
WithNew == {Wired({<<2, 1>>}, Triangle, O, {<<3, 1>>, <<3, 2>>}, {3}) :
               O \in {{}, {<<3, 1>>, <<3, 2>>}}}

SomeWirings == AsInBase \cup Drifted \cup WithNew
=============================================================================
