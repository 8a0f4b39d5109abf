SPECIFICATION Spec
CONSTANTS
  Note = {20}
  ZoneSettings <- OneLower
  ExcessModes = {"oldest"}
  SustainSettings = {"on"}
  TimeOffsets = {0}
  MaxEvents = 2
  MaxDiscarded = 1
INVARIANT
  HeldIsHeard
