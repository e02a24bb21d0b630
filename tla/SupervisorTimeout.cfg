\* A signal that interrupts poll() is reported as a timeout.
CONSTANTS RESTART_LIMIT = 2
          Tty = TRUE
          ForkCanFail = FALSE
          SlowWorkers = FALSE
          MaxStray = 0
SPECIFICATION Spec
INVARIANT TimeoutMeansNoSignal
CHECK_DEADLOCK FALSE
