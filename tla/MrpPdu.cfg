SPECIFICATION Spec
CONSTANTS
  Inventories <- MCInventories
  BufferSize = 83
  DomainVlan = 2
  Starts = {0, 4}
  MaxChanges = 6
INVARIANTS PduHeard PduFits
PROPERTY ListenersSettle
