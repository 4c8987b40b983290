CONSTANTS Hash = {1, 2, 3, 4}
          Dags <- AllDags
SPECIFICATION Spec
INVARIANTS TypeOK CopiedFromDev OnlyAboveIsRewired
CHECK_DEADLOCK FALSE
