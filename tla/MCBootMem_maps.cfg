\* A window of ten pages in an address space of 128, the kernel's image of
\* five pages at the third one, with a pool of three.
CONSTANTS
  W = 256
  PGSIZE = 2
  KERN_BASE = 192
  OneMiB = 4
  kernel_size = 10
  static_pool = 200
  StaticSize = 6
  Window = 20
  UserPages = 2
  Maps <- PcMaps
SPECIFICATION FairSpec
INVARIANTS
  TypeOK
  KernelKept
  PagesAreMemory
PROPERTIES
  UsesAllocator
  GivenOnce
  MemoryDecides
CHECK_DEADLOCK FALSE
