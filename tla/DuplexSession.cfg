CONSTANTS
  Schemas = {"s1", "s2"}
  Initiators = {"client", "server"}
  MaxInitiations = 2
  MaxResets = 1
  Fields <- MCFields
  FieldType <- MCFieldType
  MaxEntries = 2
  LearningThreshold = 2
  LearnFields <- MCFields
  Half = 128
  Enums <- MCEnums
  Payloads <- MCPayloads
  MaxMessages = 4
  Rules <- AllRules
SPECIFICATION DuplexSpec
INVARIANTS NeverGarbled TablesAgree
CHECK_DEADLOCK FALSE
