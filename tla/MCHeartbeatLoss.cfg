SPECIFICATION Spec
CONSTANTS
  Calls = {c1, c2, c3}
  Manager = manager
  Cooldown = 2
  Interval = 3
  MaxFailures = 0
CHECK_DEADLOCK TRUE
INVARIANTS
  ChangesHaveACall
