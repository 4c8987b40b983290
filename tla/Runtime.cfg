CONSTANTS Pkg = {1, 2, 3}
          Build <- BuildEdges
          Other <- OtherEdges
          Appends = {2}
          MaxEvals = 3
SPECIFICATION Spec
INVARIANTS TypeOK DevInFront DroppedGoesBehind OnlyLinkedIsUnbuilt
PROPERTY EvalAgainChangesNothing
CHECK_DEADLOCK FALSE
