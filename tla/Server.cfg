\* Two handlers race on a cache of one thread, from which they evict each other's
\* threads; threads panic; one request does not decode.
SPECIFICATION FairSpec
CONSTANTS
  Workers = {w1, w2}
  Requests = {1, 2, 3, 6}
  ConfigOf <- MCConfigOf
  Undecodable = {6}
  CacheSize = 1
  Kinds = {"Success"}
  None = None
INVARIANTS OwnedOnce CachedThreadsIdle ParallelismBounded CacheBounded
PROPERTIES ImplementsService ImplementsFairService OrphansExit
CHECK_DEADLOCK FALSE
