SPECIFICATION Spec
CONSTANTS
  Note = {20, 40}
  ZoneSettings <- LowerAndUpper
  ExcessModes = {"lowest", "newest"}
  SustainSettings = {"on"}
  TimeOffsets = {0, 1}
  MaxEvents = 2
  MaxDiscarded = 1
INVARIANTS
  DeferredKeysAreUp
  DeferralsAreWarranted
  HeardUnlessDiscarded
  NoHungNotes
