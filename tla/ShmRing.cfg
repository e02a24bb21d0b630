\* A ring of three slots and seven numbers: the indices wrap twice and both
\* processes block on a full and on an empty ring.
CONSTANTS CAPACITY = 3
          ITEMS = 7
          ForkCanFail = TRUE
SPECIFICATION FairSpec
INVARIANT RingInv
PROPERTIES ImplementsFifo ConsumerCompletes OrphanProducerStops
CHECK_DEADLOCK FALSE
