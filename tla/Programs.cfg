SPECIFICATION Programs
CONSTANTS
  f1 = f1
  f2 = f2
  i1 = i1
  i2 = i2
  NoFont = NoFont
  NoIcon = NoIcon
  Fonts = {f1, f2}
  Icons = {i1, i2}
  IconBytes <- MCIconBytes
  MaxFonts = 1
  MaxIcons = 2
  MaxBytes = 2
  MaxFailures = 1
  Builds <- MCBuilds
  Capabilities <- MCCapabilities
  MaxContexts = 2
  MaxSize = 2
  p1 = p1
  p2 = p2
  p3 = p3
  Params = {p1, p2, p3}
  MaxPlanes = 2
  MaxFd = 5
  MaxImages = 2
INVARIANTS NothingIsSharedOrLeaks NothingIsLeft TexturesAreOwnedOnce TheFrameIsShown
SYMMETRY Interchangeable
CHECK_DEADLOCK FALSE
