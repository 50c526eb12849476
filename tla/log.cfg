SPECIFICATION FairSpec
CONSTANTS
  QueueCapacity = 2
  MaxFileLines = 2
  RotatedFileCount = 2
  OldLines = 1
  Readers = {r1}
  MaxEvents = 4
  MaxFailures = 2
INVARIANTS AccountingExact FilesInOrder DrainedMeansOnDisk
PROPERTIES NobodyWaitsForever
CHECK_DEADLOCK FALSE
