\* Three starts, one of which may be killed, and any of their children.
CONSTANTS P = 3
          ForkCanFail = TRUE
          MaxKills = 1
SPECIFICATION FairSpec
INVARIANTS OneMorePerRemoval ChildRejected
PROPERTIES RejectedByLiving AllEnd
CHECK_DEADLOCK FALSE
