CONSTANTS
  MaxEntries = 2
  LearningThreshold = 1
  Fields <- MCFields
  FieldType <- MCFieldType
  LearnFields <- MCFields
  Half = 128
  Values <- MCValues
  Messages <- MCMessages
  Table0 <- EmptyTable
  MaxCalls = 3
SPECIFICATION Spec
INVARIANT RoundTrip
CHECK_DEADLOCK FALSE
