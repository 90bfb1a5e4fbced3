\* Messages start at any number; single losses; blocks of every length class.
CONSTANTS QueueDepth = 1
          BlockSize = 10
          ReasmSize = 16
          PacketSize = 12
          Lengths <- Mixed
          MaxMessage = 20
          ContinuousSeq = FALSE
          MayAbort = FALSE
          Tolerance = 1
          MaxPackets = 4
          MaxRestarts = 0
SPECIFICATION Spec
INVARIANTS TypeOK Intact NothingRefused
CHECK_DEADLOCK FALSE
