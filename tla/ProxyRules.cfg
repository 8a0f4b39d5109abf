SPECIFICATION Spec
CONSTANTS
  Note = {20, 40, 100}
  Zones <- BothZones
  ControllerId = {"bend", "press", "sustain"}
  RuleSets <- OneOrTwoRules
  Edits <- SomeEdits
  Inputs <- BendInputs
  TimeOffsets = {0, 1}
INVARIANTS
  TypeOK
  StatsAreCurrent
  LastValueFollowsTheTarget
  OthersAreAtInitialValue
  HalfMovesTogether
  GlobalValueIsCurrent
  NotesStartWithTheirSetUp
