\* Types of two to six bits, a width of six, a buffer of sixteen characters.
CONSTANTS
  CharBits = 2
  ShortBits = 3
  IntBits = 4
  LongBits = 5
  WideBits = 6
  MAX_WIDTH = 6
  StrSize = 16
  StrSpare = 5
  MaxConversions = 1
  Literals <- MCLiterals
  Options <- MCOptions
  Integer <- MCInteger
  Strings <- MCStrings
  Doubles <- MCDoubles
  Blocks <- MCBlocks
  Messages <- MCMessages
  MaxHits = 4
  Labels <- MCLabels
  QTypes <- MCQTypes
  Addresses <- MCAddresses
  TTLs <- MCTTLs
  ANS_LEN = 72
  MaxDatagrams = 2
  User = {u1, u2}
  TheServer = server
  Domain = {"one", "two", "three"}
  Mangled = "mangled"
  LabelCount <- MCLabelCount
  TableFile <- MCTableFile
  HashCode <- MCHashCode
  List = {"b1", "b2"}
  MaxAsked = 2
  MaxAnswered = 2
SPECIFICATION Spec
INVARIANTS
  DamageSeen
  FieldsFaithful
  ReplyReadsBack
  CachedAsSaid
  ServedUnlessOvertaken
PROPERTY StampPerLine
CHECK_DEADLOCK FALSE
