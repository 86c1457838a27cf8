SPECIFICATION Spec
CONSTANTS
  m1 = m1
  m2 = m2
  c1 = c1
  c2 = c2
  c3 = c3
  NoMachine = NoMachine
  Interval = c1
  Machines <- TwoMachines
  Calls <- ThreeCalls
  Events <- AnyEvent
  MaxEvents = 1
  MaxJobs = 3
  Limit = 1
SYMMETRY Alike
INVARIANTS TypeOK SlotLimit StartedOnce
CHECK_DEADLOCK FALSE
