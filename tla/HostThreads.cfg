SPECIFICATION FairSpec
CONSTANTS
  Owner = Owner
  Closer = Closer
  Threads = {Owner, Closer}
  MaxEvents = 2
  MaxChildren = 2
  MaxPage = 2
  MaxRequests = 1
INVARIANTS NoUntrackedChild
PROPERTIES WorkerReturns
CONSTRAINT PagesOfOne
CHECK_DEADLOCK FALSE
