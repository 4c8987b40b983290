CONSTANTS t1 = t1
          t2 = t2
          Tarball = {t1, t2}
          l1 = l1
          l2 = l2
          Place = {l1, l2}
          Elsewhere = Elsewhere
          None = None
          Resolved <- Contents
          MaxUses = 3
SPECIFICATION TargetSpec
INVARIANTS TargetTypeOK UsesItsOwn
CHECK_DEADLOCK FALSE
