CONSTANTS Proc = {p, q}
          Tree = {t1, t2, t3}
          Content = {a, b}
          Conflicting = {}
          NoTree = NoTree
          NoContent = NoContent
          MaxMishaps = 0
SPECIFICATION Spec
PROPERTY FailureLeavesView
