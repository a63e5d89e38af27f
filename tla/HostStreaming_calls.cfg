\* Three transfers; sessions started, stopped, killed and closed, resubmissions fail.
CONSTANTS
  TRANSFER_COUNT = 3
  MaxCalls = 6
  MaxPackets = 4
  MaxKills = 2
  MaxFailures = 2
SPECIFICATION FairSpec
INVARIANTS TypeOK SubmittedIdle SessionRuns
PROPERTIES CallsReturn
CHECK_DEADLOCK FALSE
