SPECIFICATION Spec
CONSTANTS
  Note = {20, 40, 100}
  ZoneSettings <- LowerAndUpper
  ExcessModes = {"ignore", "highest", "oldest"}
  SustainSettings = {"off"}
  TimeOffsets = {}
  MaxEvents = 2
  MaxDiscarded = 1
VIEW WithoutKeys
INVARIANTS
  TypeOK
  ChannelPartition
  HalvesFollowTheAnchor
  HeardUnlessDiscarded
  EventsArePaired
PROPERTY
  ImplementsMpeVoices
