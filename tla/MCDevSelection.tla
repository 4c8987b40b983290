--------------------------- MODULE MCDevSelection ---------------------------
(* The stores checked: every acyclic graph on the hashes of the cfg.  The   *)
(* labelling is not topological, so sorted() visits dependents before their *)
(* dependencies in some and after them in others.                           *)
EXTENDS DevSelection

AllDags == {E \in SUBSET {e \in Hash \X Hash : e[1] # e[2]} : Acyclic(E)}
=============================================================================
