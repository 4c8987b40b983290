CONSTANTS Pkg = {1, 2, 3}
          Wirings <- SomeWirings
          MaxEdits = 1
SPECIFICATION Spec
INVARIANTS TypeOK PrefixHasItsDependencies FullBuildIsCurrent EnvMatchesSelection
PROPERTY OthersAreLeftAlone
CHECK_DEADLOCK FALSE
