CONSTANTS
  Threads = {t1, t2}
  MaxCalls = 3
  MaxSnap = 2
  Window = 2
  MaxRequests = 2
  Attempts = 2
  Delay = 1
  TTL = 1
SPECIFICATION FairSpec
INVARIANTS WindowBound KnownPriceServed PricesAreDated
PROPERTY CallsEnd
