CONSTANTS
  w1 = w1
  w2 = w2
  w3 = w3
  j1 = j1
  j2 = j2
  j3 = j3
  j4 = j4
  Worker <- MCWorker
  Owner = Owner
  Job <- MCJob
  NoJob = NoJob
SPECIFICATION FairPoolSpec
INVARIANTS
  PoolTypeOK
  NoLostNotification
  JobsStartInOrder
  NoSleeperAtJoin
  NoUseAfterDestruction
PROPERTIES
  JobsStart
  DestructorReturns
CHECK_DEADLOCK FALSE
