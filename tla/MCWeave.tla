------------------------------ MODULE MCWeave ------------------------------
EXTENDS Weave

\* All graphs on numbered hashes whose edges lead to lower ones.
AllDags == SUBSET {e \in Hash \X Hash : e[2] < e[1]}
=============================================================================
