CONSTANTS
  Caller = {"a", "b"}
  Length = {1}
  TickLength = 1
  Batch <- Batches
  MaxRetries <- Retries
  MaxCalls = 2
  MaxFaults = 1
  Handler = {"h1", "h2"}
  MaxLength = 1
  MaxErrors = 1
  Setup <- Setups
  Self = "p"
  Peer = {"p", "q", "r"}
  ChanSize = 2
  MaxArrivals = 2
SPECIFICATION Spec
INVARIANTS TypeOK MetricsExact ExactlyOnce SnapshotCountsStamped ReceivedExact PeersHaveMessages
PROPERTY CancelEnds
CHECK_DEADLOCK FALSE
