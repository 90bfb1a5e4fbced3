\* Failing transfers, timeouts, reboots; aligned and unaligned images.
CONSTANTS QueueDepth = 2
          PageSize = 2
          SectorSize = 4
          ChipSize = 8
          AddrSpace = 16
          Offsets <- AnyOffset
          Sizes <- AnySize
          MaxCommands = 2
          MaySpiFail = TRUE
          MayTimeout = TRUE
SPECIFICATION FairSpec
INVARIANTS AlignedImageWritten OnlyCoveredChange NothingIgnored FlagAgrees
PROPERTY ImplementsFlashTask
CHECK_DEADLOCK FALSE
