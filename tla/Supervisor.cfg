\* Output into a file or pipe, forks that may fail, workers that may be slower
\* than the timeout, and SIGCHLDs from elsewhere.
CONSTANTS RESTART_LIMIT = 4
          Tty = FALSE
          ForkCanFail = TRUE
          SlowWorkers = TRUE
          MaxStray = 2
SPECIFICATION Spec
INVARIANTS WakeupNotLost NoWorkerAbandoned ReportsAccounted
CHECK_DEADLOCK FALSE
