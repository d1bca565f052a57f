CONSTANTS
  Scenarios <- MCScenarios
  Contents <- MCContents
  Workers = {1, 2}
  Concurrencies = {1, 2}
  MaxLaunches = 2
  Threshold = 0
SPECIFICATION SyncSpec
INVARIANTS PassHonest FreshIsFresh
PROPERTIES OthersFinish
CHECK_DEADLOCK FALSE
