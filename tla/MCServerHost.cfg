CONSTANTS
  ChanSize = 1
  Stoppable = TRUE
  Customers = {c1, c2}
  SensorIds = {s1}
  SensorPosts = {p1, p2}
  TaskPosts = {t1, t2}
  SetPosts = {a1, a2}
  Addresses = {x, y}
  None = None
SPECIFICATION Spec
SYMMETRY Symmetry
INVARIANTS TypeOK TasksComplete EachAcceptedOnce RegistrationsKept SoundAlone
PROPERTIES SetOnceStands

CHECK_DEADLOCK FALSE
