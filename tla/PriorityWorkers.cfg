\* A queue with room for everything, as in the program, and one so small that
\* main() and the workers block in msgsnd.
CONSTANTS WORKERS = 3
          JOBS = 6
          JOB_SIZE = 8
          RESULT_SIZE = 24
          QBYTES = {72, 144}
          ForkCanFail = TRUE
SPECIFICATION FairSpec
INVARIANTS TypeOK EachJobInOnePlace StopsWithoutWork SendNeverBlocks
PROPERTIES CompletesOrFull MissingWorkerBlocks
CHECK_DEADLOCK FALSE
