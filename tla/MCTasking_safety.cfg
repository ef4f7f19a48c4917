SPECIFICATION Spec
CONSTANTS
  first_user_proc = first_user_proc
  second_user_proc = second_user_proc
  main_task = main_task
  NULL = NULL
  UserTask <- TwoUserTasks
  Garbage = {TRUE, FALSE}
  MaxDepth = 5
  MaxCalls = 2
INVARIANTS
  TypeOK
  RunningTaskIsExecuting
  ContextIntact
  KernelStackOwn
  UserEnvironment
  LockNeverContended
  NothingInServiceAtSwitch
  TidIsCallers
PROPERTIES
  KernelNotPreempted
  RoundRobin
