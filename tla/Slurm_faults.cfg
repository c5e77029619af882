\* Two hosts, two controllers and one fault of any kind.
SPECIFICATION Spec
CONSTANTS
  Host = {h1, h2}
  Node = {n1, n2, n3}
  Daemon = {c1, c2}
  MaxResumes = 1
  MaxFaults = 1
  Faulty = {"redeliver", "raise", "slow", "node"}
  None = None
  MaxMessages = 3
  MaxFailures = 1
  MaxWaits = 0
CHECK_DEADLOCK FALSE
SYMMETRY Interchangeable
INVARIANTS TokenHasEntity
PROPERTIES RegistersWhileResuming RemovesOwnNodes
