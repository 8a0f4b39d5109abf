SPECIFICATION Spec
CONSTANTS
  Note = {20, 40, 100}
  ZoneSettings <- OneLower
  ExcessModes = {"oldest"}
  SustainSettings = {"on"}
  TimeOffsets = {0}
  MaxEvents = 9
  MaxDiscarded = 1
INVARIANT
  DeferredKeysAreUp
