CONSTANTS v1 = v1  v2 = v2  dev_path = dev_path
          d1 = d1  d2 = d2  gcc = gcc  mpi = mpi
          Variant = {v1, v2, dev_path}
          Dependency = {d1, d2, gcc, mpi}
          Reserved = {dev_path}
          Abi = {gcc}
          Virtual = {mpi}
          MAX_PASSES = 4
          Recipes <- OneCondition
          Starts <- CopiedNodes
SYMMETRY Alike
SPECIFICATION Spec
INVARIANTS TypeOK BreakMeansInLine EnoughPasses Protected DriftNamesEveryChange
CHECK_DEADLOCK FALSE
