SPECIFICATION FairSpec
CONSTANTS
  Owner = Owner
  Closer = Closer
  Threads = {Owner, Closer}
  MaxEvents = 3
  MaxChildren = 1
  MaxPage = 0
  MaxRequests = 1
PROPERTIES CloserReturns
