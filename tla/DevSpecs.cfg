CONSTANTS Base = {1, 2, 3, 4}
          Abi = {4}
          New = {5, 6}
          Store = {6, 7}
          MaxUnusual = 2
          Scenarios <- AllScenarios
          Recipes <- Edited
SPECIFICATION Spec
INVARIANTS TypeOK InheritedDev NoOldCopyBetween OrderedAfterDependencies InstalledOnlyBeforeDev CompilersStay OldBuildsComeWithTools
CHECK_DEADLOCK FALSE
