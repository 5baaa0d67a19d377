SPECIFICATION Spec
CONSTANTS
  FailThreshold = 2
  Cooldown = 3
  ResumeAfter = 2
  ResumeChecks = 2
  Grace = 1
  RequireReconcile = TRUE
  auto1 = auto1
  auto2 = auto2
  AutoSlots = {auto1}
  MaxLegs = 1
  MaxFaults = 2
PROPERTY AutoResumeSkipsManual
