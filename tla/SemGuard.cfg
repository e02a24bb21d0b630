\* Three children, two of which may be killed anywhere.
CONSTANTS N = 3
          ITERATIONS = 2
          DELTA = 1
          ForkCanFail = TRUE
          MaxDeaths = 2
SPECIFICATION FairSpec
INVARIANT SemaphoreAccounts
PROPERTY ImplementsLockedCounter
CHECK_DEADLOCK FALSE
