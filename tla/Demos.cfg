\* All programs, at the sizes they have.  Any fork may fail, also several, two children
\* may be killed, and stdout is a terminal or not.
CONSTANTS Programs = {"barrier", "pingpong", "latch", "request", "ordered", "ranges", "flock",
                      "duplex", "pipeline", "halfclose", "forking", "udp", "abstract", "epoll",
                      "dgram", "fdpass", "eventfd", "select", "many", "edge", "timed",
                      "suspend", "restart", "masked", "payload", "realtime", "notify",
                      "selfpipe", "signalfd"}
          MaxChildren = 4
          WORKERS = 3
          ROUNDS = 3
          ForkCanFail = TRUE
          MaxDeaths = 2
SPECIFICATION FairSpec
INVARIANTS InOrder NoLockCycle SignalsKept
PROPERTIES Completes Settles NoOrphanWaits AfterFailedFork
CHECK_DEADLOCK FALSE
