CONSTANTS Proc = {p}
          Tree = {t1, t2, t3, t4}
          Content = {a, b, c}
          Conflicting = {c}
          NoTree = NoTree
          NoContent = NoContent
          MaxMishaps = 2
SPECIFICATION Spec
INVARIANTS TypeOK ViewIsWhole LitterIsBounded
PROPERTIES SwapsOnlyToWanted FailureLeavesView
