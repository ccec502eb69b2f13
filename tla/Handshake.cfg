CONSTANTS
  Schemas = {s1, s2}
  Initiators = {"client"}
  MaxInitiations = 2
  MaxResets = 0
SPECIFICATION Spec
INVARIANTS TypeOK ReaderReady BothOrNeither
PROPERTIES Negotiates
CHECK_DEADLOCK FALSE
