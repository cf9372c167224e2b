SPECIFICATION Spec
CONSTANTS
  NoNode = NoNode
  Unset = Unset
INVARIANTS FreedExactlyOnce TreeIsTheDocument SheetMeansItsRules WinnerIsDrawn
CHECK_DEADLOCK FALSE
