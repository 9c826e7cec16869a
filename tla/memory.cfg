SPECIFICATION Spec
CONSTANTS
  Unmarkable = {2}
  Caching = TRUE
  MaxMessages = 3
  MaxHanded = 2
  MaxArrays = 6
INVARIANTS
  HandedUnchanged OneMarker HistoryUnmarked
PROPERTIES
  ImplementsConversation
CHECK_DEADLOCK FALSE
