\* Two sensors, one reader: torn reads, lost triggers, the refinement, progress.
CONSTANTS Count = 2
          TickMod = 2
          Deliveries <- TwoReplies
          Readers = {bmc}
          SensorTask = sensor
          Free = free
          Nothing = nothing
SPECIFICATION FairSpec
INVARIANTS TypeOK ServedCoherent NoLostTrigger
PROPERTIES ImplementsCache PollFollows ReadCompletes
