\* fork() succeeds: are the FIFOs removed?
CONSTANTS ROUNDS = 3
          READ_MAX = 5
          ForkCanFail = FALSE
SPECIFICATION FairSpec
PROPERTY FifosRemoved
CHECK_DEADLOCK FALSE
