CONSTANTS Hash = {1, 2, 3, 4}
          Dags <- AllDags
SPECIFICATION Spec
INVARIANTS TypeOK StaysInBase
PROPERTIES ImplementsPlan Terminates
CHECK_DEADLOCK FALSE
