CONSTANTS
  Schemas = {s1, s2}
  Initiators = {"client"}
  MaxInitiations = 1
  MaxResets = 0
SPECIFICATION Spec
PROPERTY StrictRemainsRaw
CHECK_DEADLOCK FALSE
