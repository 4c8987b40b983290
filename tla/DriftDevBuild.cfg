CONSTANTS Base = {1, 2, 3, 4}
          Abi = {4}
          New = {5, 6}
          Store = {7}
          MaxUnusual = 1
          Scenarios <- AllScenarios
          Recipes <- EditedAcyclic
SPECIFICATION Spec
INVARIANT DriftPicksUpDevBuild
CHECK_DEADLOCK FALSE
