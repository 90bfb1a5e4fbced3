\* Failures and interrupts while the parts are brought up.
CONSTANTS QueueDepth = 1
          MaxEvents = 2
SPECIFICATION FairSpec
INVARIANTS TypeOK NothingTooEarly
PROPERTY BootServes
CHECK_DEADLOCK FALSE
