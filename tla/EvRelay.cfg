\* Two clients, slots 0 and 1 and 2, of four in the array; 7 is behind it.
CONSTANTS
  Client = {c1, c2}
  Server = server
  NULL = null
  Number = {0, 1, 2, 7}
  Id = {1, 7}
  Name = {"blocked", "far"}
  Table <- MCTable
  CACHELEN = 3
  AnswerSize <- MCAnswerSize
  Batch = 3
  MaxQueries = 2
  MaxAnswers = 2
  MaxInbox = 2
SPECIFICATION FairSpec
INVARIANTS
  MixupNeedsSharedSlot
  CrashNeedsFlagOrGarbling
  RelayedAnswersIntact
PROPERTY TableQueriesAnswered
CHECK_DEADLOCK FALSE
