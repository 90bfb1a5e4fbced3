\* From packets to answers, across losses, aborted messages and a restart.
CONSTANTS QueueDepth = 1
          BlockSize = 32
          ReasmSize = 256
          PacketSize = 64
          Lengths <- Short
          MaxMessage = 64
          ContinuousSeq = TRUE
          MayAbort = TRUE
          Tolerance = 3
          MaxPackets = 4
          MaxRestarts = 1
          FlashDepth = 1
          MessageKinds = {"sensor", "update"}
SPECIFICATION FairFirmware
INVARIANTS FrameFits
PROPERTIES ImplementsServer RequestServed
CHECK_DEADLOCK FALSE
