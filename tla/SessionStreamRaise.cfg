CONSTANTS
  MaxEntries = 2
  LearningThreshold = 2
  Fields <- MCFields
  FieldType <- MCFieldType
  LearnFields <- MCFields
  Half = 128
  Values <- MCValues
  Messages <- MCMessagesRaise
  Table0 <- MCTable0
  MaxCalls = 4
SPECIFICATION Spec
INVARIANTS TablesWellFormed FaithfulDelivery
CHECK_DEADLOCK FALSE
