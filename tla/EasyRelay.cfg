\* Two clients, a blocked name and one for the server, two slots.
CONSTANTS
  blocked = blocked
  known = known
  Client = {c1, c2}
  NULL = NULL
  Id = {1, 2}
  Name = {blocked, known}
  Address = {7}
  Table <- MCTable
  CACHE_LEN = 2
  Lifetimes = {1, 2}
  MaxQueries = 2
  MaxAnswers = 2
  MaxInbox = 3
  MaxClock = 4
SPECIFICATION Spec
INVARIANTS
  AnswersFindOwner
  RepliesWereAsked
  MixupNeedsSharedSlot
  AnswersFresh
SYMMETRY Symmetry
CHECK_DEADLOCK FALSE
