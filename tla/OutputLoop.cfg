SPECIFICATION OutputSpec
CONSTANTS
  Bos = {bo1, bo2, bo3}
  NoBo = NoBo
  Images = {img1, img2}
  Fallback = Fallback
  MaxFailures = 2
INVARIANTS
  LockedBosAreOnScreen
  IdlePanelIsCurrent
PROPERTY ImportedImageReachesPanel
