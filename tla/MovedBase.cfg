CONSTANTS Proc = {p}
          r1 = r1  r2 = r2  r3 = r3  a = a
          Root = {r1, r2, r3}
          Name = {a}
          NamesOf <- ThreeRoots
          MaxEvents = 1
SPECIFICATION Spec
INVARIANT WarnsWhenMoved
CHECK_DEADLOCK FALSE
