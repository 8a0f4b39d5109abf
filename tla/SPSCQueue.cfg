SPECIFICATION FairSpec
CONSTANTS
  Items = {a, b, c}
  DefaultItem = default
  Capacity = 3
INVARIANTS TypeOK NoDataRace PromisedItemsAreThere
PROPERTIES ImplementsFifo ItemsArrive
