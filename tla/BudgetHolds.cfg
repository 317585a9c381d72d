SPECIFICATION Spec
CONSTANTS
  o1 = o1
  o2 = o2
  o3 = o3
  o4 = o4
  Orders = {o1, o2, o3, o4}
  Local = {o1, o2}
  Buckets = {"account", "A", "B"}
  Uses <- UsesOf
  Last <- LastOf
  Ceiling <- Ceilings
  OpenCeiling = 2
  One = 2
  MaxSecond = 2
  MaxMinute = 2
  MinuteLength = 2
INVARIANTS TypeOK CountsWhatIsHeld WithinCeiling WithinRate
