SPECIFICATION MCSpec
CONSTANTS
  w1 = w1
  w2 = w2
  p1 = p1
  p2 = p2
  Workers <- MCWorkers
  Producers <- MCProducers
  Sizes = {0, 1, 2}
  QueueSizes = {0, 1}
  MaxTasks = 3
  t1 = t1
  t2 = t2
  t3 = t3
  Threads <- MCThreads
  MayCall <- MCMayCall
  Kinds = {"BlockingQueue", "BoundedBlockingQueue", "CountDownLatch"}
  Capacity = 1
  Counts = {1, 2}
  MaxCalls = 4
  Free = Free
  NoValue = 0
INVARIANTS QueueKept HolderTrue
PROPERTIES AllGoesOn ImplementsCalls WaitsEnd
CHECK_DEADLOCK FALSE
