\* Pipes of one unit, a request of two, up to three units of output; one unit of a stream is too many.
\* A run that has returned stops.
SPECIFICATION LiveSpec
CHECK_DEADLOCK FALSE
CONSTANTS
  Cap = 1
  Input = 2
  MaxMade = 3
  OutputLimit = 2
  Chunk = 2
INVARIANTS TypeOK BystandersLive EvidenceWhole
PROPERTIES RunReturns ChildReaped
