SPECIFICATION PollerFairSpec
CONSTANTS
  Fds <- MCFds
  Kinds = {"epoll", "poll"}
  MayResume = {"epoll"}
  Removes = {"own"}
  kInitEventListSize = 1
  None = None
INVARIANT KernelAgrees
PROPERTY NothingPassedOver
