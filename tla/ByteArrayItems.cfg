SPECIFICATION Spec
CONSTANTS
  H = 4
  WordBytes = 2
  Groups = 3
  HostOrder = "little"
  m_baseSize = 3
  FreshBytes = {7}
  Items <- MCItems
  Files <- MCFiles
  MaxNodes = 4
  MaxItems = 2
INVARIANTS
  CursorSound
  ReadsBack
  ViewsAgree
PROPERTIES
  FlatArray
CHECK_DEADLOCK FALSE
