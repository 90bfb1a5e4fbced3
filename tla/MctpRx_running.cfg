\* Sequence numbers run on across messages; bursts of losses; aborted messages.
CONSTANTS QueueDepth = 1
          BlockSize = 32
          ReasmSize = 256
          PacketSize = 64
          Lengths <- Short
          MaxMessage = 64
          ContinuousSeq = TRUE
          MayAbort = TRUE
          Tolerance = 3
          MaxPackets = 7
          MaxRestarts = 1
SPECIFICATION Spec
INVARIANTS Intact NothingRefused
CHECK_DEADLOCK FALSE
