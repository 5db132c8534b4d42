SPECIFICATION Spec
CHECK_DEADLOCK FALSE
CONSTANTS
  Names <- DriverNames
  Table <- runDriver
  MayLeak <- KnownLeaks
  MayStay <- KnownLeftovers
  MayStick <- KnownStuck
  MayPanic <- KnownPanics
  MayClobber <- KnownClobbers
  MayRace <- KnownRaces
  MayPretend <- KnownPretenders
  MaxCreates = 2
  MaxFaults = 2
INVARIANTS
  RecordKnows
  RemovedIsGone
  RmConverges
  
  SharedKept
  CreatedExists
