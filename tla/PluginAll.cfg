SPECIFICATION FairSpec
CONSTANTS
  Drivers = {d1, d2}
  Faults = {"binary", "exec", "garbled", "listen", "dial", "oldrpc", "version", "config", "panic", "crash", "stall"}
INVARIANTS CloseSafe CleanCloseStopsPlugins
PROPERTIES PluginsReaped CommandTerminates
CHECK_DEADLOCK FALSE
