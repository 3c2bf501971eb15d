SPECIFICATION FairSpec
CONSTANTS
  UpstreamTimeout = 4
  IdleTimeout = 3
  MaxChunks = 3
INVARIANTS TypeOK SilenceIsMeasured
PROPERTIES IsOneExchange ReasonIsTrue ExchangeEnds
