CONSTANTS
  a = a
  b = b
  Readers = {a, b}
  Kind <- PollAndSSE
  MaxLog = 2
  MaxGen = 2
  MaxRead = 2
  CacheMax = 1
  MayClose = TRUE
SPECIFICATION Spec
INVARIANTS InOrderDelivery NoLostWakeup
CHECK_DEADLOCK FALSE
