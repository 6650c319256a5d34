SPECIFICATION FairSpec
CONSTANTS
  MaxAttempts = 3
  MaxUnread = 3
INVARIANTS
  TypeOK
  OneAttemptAtATime
  NothingLeftOpen
  WholeOrCut
PROPERTIES
  EveryWaitEnds
