SPECIFICATION Spec
CONSTANTS
  Owner = Owner
  Closer = Closer
  Threads = {Owner}
  MaxEvents = 2
  MaxChildren = 2
  MaxPage = 1
  MaxRequests = 2
INVARIANTS AnswersAreOwn
PROPERTIES ServiceSpec
CHECK_DEADLOCK FALSE
