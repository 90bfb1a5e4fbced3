\* Requests, alerts, full queues, failed transmissions, a restart, time.
CONSTANTS BmcDepth = 2
          NicDepth = 1
          FlashDepth = 1
          LivenessTimeout = 1
          TickMod = 2
          SEL_MAX_ENTRIES = 2
          Blank = blank
          EventTypes = {"HW_ERROR", "LIVENESS"}
          EventData = {0}
          Stamps = {0, 1}
          BMC = bmc
          Eids = {bmc}
          RequestKinds <- TwoKinds
          MaxBlocks = 3
          MaxAlerts = 1
          MaxRestarts = 1
SPECIFICATION FairSpec
INVARIANTS TypeOK AnsweredInOrder UpdateAnswerTrue UpdatesAccounted AlertsAccounted
PROPERTIES LivenessExact QueuesDrained UpdatesBegun ImplementsLog
