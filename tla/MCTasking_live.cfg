SPECIFICATION FairSpec
CONSTANTS
  first_user_proc = first_user_proc
  second_user_proc = second_user_proc
  main_task = main_task
  NULL = NULL
  UserTask <- TwoUserTasks
  Garbage = {}
  MaxDepth = 4
  MaxCalls = 1
PROPERTIES
  EveryTaskRunsAgain
