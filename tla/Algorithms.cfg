SPECIFICATION Spec
CONSTANTS
  FRAMES = 8
  PAGE_BYTES = 2
  BITS_PER_BYTE = 2
  MEMORY = 12
  ENTRIES = 3
  MAX_TASKS = 4
  WAIT_QUEUES = {"keyboard", "children"}
  EVENTS = 5
  LETTERS = 7
  WIDTH = 2
  HEIGHT = 2
INVARIANTS
  FirstFit
  BitmapProtectsItself
  SegmentsInPlace
  ClockFollowsCalendar
  ScreenIsWindow
  QueuesLinked
  OpenFindsFile
  StageTwoStarts
  KernelInPlace
  TrapsRoundTrip
  IrqsReachHandlers
  SameOnBothOutputs
CHECK_DEADLOCK FALSE
