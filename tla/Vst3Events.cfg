SPECIFICATION EventsSpec
CONSTANTS
  Note = {20, 40}
  BlockLengths = {1, 2}
  MaxNotes = 2
  MaxPoints = 2
  StableSortLength = 3
INVARIANTS
  KeysAreHeld
  LastValuesArrive
