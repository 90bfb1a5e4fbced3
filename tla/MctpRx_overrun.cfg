\* Messages longer than a packet's payload.
CONSTANTS QueueDepth = 1
          BlockSize = 32
          ReasmSize = 256
          PacketSize = 64
          Lengths <- Full
          MaxMessage = 288
          ContinuousSeq = TRUE
          MayAbort = FALSE
          Tolerance = 3
          MaxPackets = 3
          MaxRestarts = 0
SPECIFICATION Spec
INVARIANTS AssembledFits
CHECK_DEADLOCK FALSE
