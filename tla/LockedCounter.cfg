\* Two programs, three children; forks may fail, one child may be killed.
CONSTANTS N = 3
          ITERATIONS = 2
          DELTA = 2
          ForkCanFail = TRUE
          MaxDeaths = 1
          Mechanisms = {"fcntl", "mutex"}
SPECIFICATION FairSpec
INVARIANTS CounterInv NoLostUpdate PrintsExpected
PROPERTIES CompletesUnlessOrphaned OrphanedMutexBlocks
CHECK_DEADLOCK FALSE
