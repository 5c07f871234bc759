SPECIFICATION FairSpec
CONSTANTS
  Threads = {t1, t2}
  Nobody = Nobody
  MaxActive = 2
  MaxPlays = 3
INVARIANTS NoOrphan Bounded Truthful
PROPERTIES LockIsReleased
