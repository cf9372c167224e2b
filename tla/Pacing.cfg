SPECIFICATION PacedSpec
CONSTANTS
  app = app
  shell1 = shell1
  appWin = appWin
  shellWin = shellWin
  dma1 = dma1
  dma2 = dma2
  shm1 = shm1
  shellBuf = shellBuf
  shellBuf2 = shellBuf2
  Clients = {app, shell1}
  NoClient = NoClient
  ShellExes = {shell1}
  Windows = {appWin, shellWin}
  owner <- MCOwner
  Buffers = {dma1, shellBuf}
  maker <- MCMaker
  Shm = {}
  NoBuffer = NoBuffer
  Titles = {NoTitle}
  NoTitle = NoTitle
  Untold = Untold
  MaxHandle = 1
  MaxBufferId = 1
  MaxCallbacks = 1
  ForwardFaults = FALSE
  DrmActive = TRUE
  Bos = {bo1, bo2}
  NoBo = NoBo
  Fallback = Fallback
  MaxFailures = 1
  Requests = {"attach", "commit", "frame", "shell_destroy"}
  Teardown = {}
PROPERTY ForwardedFrameIsPaced
CHECK_DEADLOCK FALSE
