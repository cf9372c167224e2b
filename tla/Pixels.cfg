SPECIFICATION SessionSpec
CONSTANTS
  app = app
  shell1 = shell1
  appWin = appWin
  shellWin = shellWin
  dma1 = dma1
  dma2 = dma2
  shm1 = shm1
  shellBuf = shellBuf
  shellBuf2 = shellBuf2
  Clients = {app, shell1}
  NoClient = NoClient
  ShellExes = {shell1}
  Windows = {appWin, shellWin}
  owner <- MCOwner
  Buffers = {dma1, shm1}
  maker <- MCMaker
  Shm = {shm1}
  NoBuffer = NoBuffer
  Titles = {NoTitle}
  NoTitle = NoTitle
  Untold = Untold
  MaxHandle = 1
  MaxBufferId = 3
  MaxCallbacks = 0
  ForwardFaults = TRUE
  DrmActive = TRUE
  Bos = {bo1, bo2}
  NoBo = NoBo
  Fallback = Fallback
  MaxFailures = 0
  Requests = {"attach", "commit", "buffer_destroy", "disconnect"}
  Teardown = {}
INVARIANTS NoDanglingBuffer HeldIdNamesOneBuffer
CHECK_DEADLOCK FALSE
