\* Aligned images; a second update after a timeout.
CONSTANTS QueueDepth = 2
          PageSize = 2
          SectorSize = 4
          ChipSize = 8
          AddrSpace = 16
          Offsets <- TwoSectors
          Sizes <- OneSize
          MaxCommands = 2
          MaySpiFail = FALSE
          MayTimeout = TRUE
SPECIFICATION Spec
INVARIANT ImageWritten
CHECK_DEADLOCK FALSE
