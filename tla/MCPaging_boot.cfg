CONSTANTS
  E = 20
  KPDE = 8
  VGA = 0
  code = 1
  ecode = 3
  data = 3
  edata = 4
  kernel_page_dir = 4
  user_proc_dir = 5
  boot_page_directory = 6
  boot_page_table1 = 7
  KernelEnd = 16
  BootSlack = 5
  UserPage = 2
  StaticList <- StaticPages
  Pools <- PcPools
SPECIFICATION Spec
INVARIANTS
  KernelReachable
  MappedAsAsked
  UserSpaceOwn
  Protected
PROPERTIES
  TlbCoherent
CHECK_DEADLOCK FALSE
