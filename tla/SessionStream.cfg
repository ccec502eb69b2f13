CONSTANTS
  MaxEntries = 2
  LearningThreshold = 2
  Fields <- MCFields
  FieldType <- MCFieldType
  LearnFields <- MCFields
  Half = 128
  Values <- MCValues
  Messages <- MCMessages
  Table0 <- MCTable0
  MaxCalls = 4
SPECIFICATION Spec
INVARIANTS TypeOK Lockstep
PROPERTY StreamSpec
CHECK_DEADLOCK FALSE
