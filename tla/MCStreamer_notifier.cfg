CONSTANTS
  None = None
  Clients = {c1, c2, c3}
  Pids = {"p"}
  MaxU = 2
  Requests <- ProducerRequests
  Mode = "notifier"
  MaxBurst = 2
  MaxSent = 4
  MaxCrashes = 1
  CommitMayFail = TRUE
  GetMayFail = FALSE
SPECIFICATION FairSpec
INVARIANTS AckedDurable ReadAfterAck ProducerMatchesLog ExactlyOnce
PROPERTIES DurableIsFinal TailNeverRegresses ImplementsDurableLog EveryAppendAnswered
