CONSTANTS
  None = None
  Clients = {c1, c2}
  Pids = {"p"}
  MaxU = 2
  Requests <- PlainRequests
  Mode = "sync"
  MaxBurst = 2
  MaxSent = 5
  MaxCrashes = 1
  CommitMayFail = TRUE
  GetMayFail = FALSE
SPECIFICATION Spec
INVARIANTS DenseLog WriterSeqOrdered
