SPECIFICATION MeterSpec
CONSTANTS
  None = None
  MaxEvents = 2
  Streams <- MCStreams
INVARIANTS
  ChunkingDoesNotMatter
  FinishedStreamIsMetered
