CONSTANTS
  Schemas = {s1, s2}
  Initiators = {"client", "server"}
  MaxInitiations = 3
  MaxResets = 2
SPECIFICATION Spec
INVARIANT TransferIsAnnounced
PROPERTY Terminates
CHECK_DEADLOCK FALSE
