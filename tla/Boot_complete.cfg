\* Is everything initialized when the start reports success?
CONSTANTS QueueDepth = 1
          MaxEvents = 2
SPECIFICATION Spec
INVARIANT AllInitialized
CHECK_DEADLOCK FALSE
