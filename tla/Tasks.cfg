SPECIFICATION TasksSpec
CONSTANTS
  None = none
  MaxRetries = 1
  MaxPending = 2
  MaxInstructions = 3
  MaxControls = 1
  MaxStreams = 2
  alice = alice
  bot = bot
  Nothing = nothing
  Humans = {g1, g2}
  MaxChunks = 2
  MaxRevision = 2
  MaxUpdates = 2
  Bundles <- TwoBundles
  g1 = g1
  g2 = g2
  b1 = b1
  b2 = b2
SYMMETRY Symmetry
INVARIANTS TypesOK ExchangesStay OnlyThatTurnIsCancelled HandledOnce BundleReadable AcceptedStays
CHECK_DEADLOCK FALSE
