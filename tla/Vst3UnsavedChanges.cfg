SPECIFICATION Spec
CONSTANTS
  ParamCount = 2
  Values = {"learn", "wheel", "pedal"}
  DefaultValue = "wheel"
  QueueCapacity = 12
  MidiLearn = "learn"
  Writers = {"widgets", "automation"}
  MaxCalls = 3
INVARIANT UnsavedChangesAreKnown
