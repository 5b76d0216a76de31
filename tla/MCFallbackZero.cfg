\* What HasConnectedWith answers.
CONSTANTS
    ConnIndexes = {c0}
    First = c0
    BufferSize = 2
    Selectors = {"default"}
    Retries = 1
    MaxEdgeAddrRetries = 1
    Refreshes = 0
SPECIFICATION FallbackSpec
INVARIANTS
    HasConnectedWithIsTrue
