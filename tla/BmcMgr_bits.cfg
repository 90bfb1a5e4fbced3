\* Does a request wake the task?
CONSTANTS BmcDepth = 2
          NicDepth = 1
          FlashDepth = 1
          LivenessTimeout = 1
          TickMod = 2
          SEL_MAX_ENTRIES = 2
          Blank = blank
          EventTypes = {"HW_ERROR", "LIVENESS"}
          EventData = {0}
          Stamps = {0, 1}
          BMC = bmc
          Eids = {bmc}
          RequestKinds <- Kinds
          MaxBlocks = 1
          MaxAlerts = 0
          MaxRestarts = 0
SPECIFICATION Spec
INVARIANT ArrivalSetsBit
