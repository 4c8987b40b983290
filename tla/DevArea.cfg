CONSTANTS Proc = {p, q}
          r1 = r1  r2 = r2  r3 = r3  a = a
          Root = {r1, r2}
          Name = {a}
          NamesOf <- OneOfTwo
          MaxEvents = 2
SYMMETRY Processes
SPECIFICATION Spec
INVARIANTS TypeOK PicksFitBase RecordsChoices
CHECK_DEADLOCK FALSE
