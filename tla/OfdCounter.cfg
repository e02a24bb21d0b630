\* Two children that share one open file description: the OFD lock excludes nobody.
CONSTANTS N = 2
          ITERATIONS = 2
          DELTA = 1
          ForkCanFail = FALSE
          MaxDeaths = 0
          Mechanisms = {"ofd"}
SPECIFICATION Spec
INVARIANT PrintsExpected
CHECK_DEADLOCK FALSE
