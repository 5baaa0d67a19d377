SPECIFICATION FileSpec
CONSTANTS
  i1 = i1
  i2 = i2
  i3 = i3
  i4 = i4
  i5 = i5
  Writer = {"loop", "thread", "watchdog"}
  Backend = {"loop", "thread"}
  Inode = {i1, i2, i3, i4, i5}
  MaxCrashes = 1
SYMMETRY InodeSymmetry
PROPERTIES HaltsFailClosed AtomicAlone
