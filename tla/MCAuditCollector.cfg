CONSTANTS
  MaxRecords = 5
  Limit = 3
  TooLong = {3}
  QueueLimit = 2
  BatchSize = 2
  AckLimit = 2
  Foreign = {6}
  MaxJournal = 4
SPECIFICATION FairSpec
INVARIANTS
  JournalIsSound
PROPERTIES
  ImplementsDurableSink
  EveryRecordAnswered
