CONSTANTS
  MaxRecords = 5
  Limit = 3
  TooLong = {}
  QueueLimit = 3
  BatchSize = 2
  AckLimit = 3
  Foreign = {}
  MaxJournal = 5
SPECIFICATION UndisturbedSpec
PROPERTY NothingStranded
CHECK_DEADLOCK FALSE
