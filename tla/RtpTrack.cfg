\* Timestamps that wrap, every way to pack an access unit, changes of sets.
SPECIFICATION Spec
CONSTANTS
  Wrap = 4
  Hour = 2
  HalfHour = 1
  Steps <- FrameSteps
  Bases = {3}
  Forms <- AllForms
  MaxSlices = 3
CHECK_DEADLOCK FALSE
INVARIANTS
  SlicesWhole
  TimesExact
  ChangeNoticed
