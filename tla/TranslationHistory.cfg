SPECIFICATION MCSpec
CONSTANTS
  Empty = Empty
  Garbage = Garbage
  MaxHistory = 2
  Items = {i1, i2, i3}
  Slots = {v1, v2}
  MaxScreens = 2
CHECK_DEADLOCK FALSE
SYMMETRY Symmetry
INVARIANTS TypeOK NothingDoubled FileFollows PresenceFollows
