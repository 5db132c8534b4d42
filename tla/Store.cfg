SPECIFICATION Spec
CONSTANTS
  Procs = {p1, p2}
  Legacy = {"v0"}
  Current = {"v3", "v3b"}
  Migrated = "v3"
  Settings <- AllSettings
INVARIANTS NeverLost ReadYourWrites OriginalKept QuiescentReadable
PROPERTIES ImplementsHostStore
