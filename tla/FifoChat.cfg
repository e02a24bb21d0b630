\* Twice the three rounds of the program; fork() may fail.
CONSTANTS ROUNDS = 6
          READ_MAX = 5
          ForkCanFail = TRUE
SPECIFICATION FairSpec
INVARIANTS NoBrokenPipe ReadsWhole AllRead
PROPERTIES EndsUnlessCoalesced
CHECK_DEADLOCK FALSE
