SPECIFICATION Spec
CONSTANTS
  Deliveries = {1, 2, 3, 4}
  TaskIds = {1, 2, 4}
  IdOf <- MCIdOf
  Skills = {"resize", "mix"}
  SkillOf <- MCSkillOf
  Unsupported = "unknown"
  Types = {"image", "audio"}
  TypeOf <- MCTypeOf
  LimitedTypes = {"audio"}
  TypeLimit <- MCTypeLimit
  SyncSkills = {"mix"}
  Forbidden = {4}
  MaxConcurrentTasks = 2
  MaxCancels = 2
  NoTask = NoTask
INVARIANTS
  EveryTaskReports
CHECK_DEADLOCK FALSE
