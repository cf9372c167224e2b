SPECIFICATION Spec
CONSTANTS
  app = app
  shell1 = shell1
  shell2 = shell2
  appWin1 = appWin1
  appWin2 = appWin2
  shellWin = shellWin
  Clients = {app, shell1, shell2}
  NoClient = NoClient
  ShellExes = {shell1, shell2}
  Windows = {appWin1, appWin2, shellWin}
  owner <- MCOwner
  Buffers = {}
  maker <- MCMaker
  Shm = {}
  NoBuffer = NoBuffer
  Titles = {NoTitle, title}
  NoTitle = NoTitle
  Untold = Untold
  MaxHandle = 2
  MaxBufferId = 0
  MaxCallbacks = 0
  ForwardFaults = FALSE
  DrmActive = FALSE
  Bos = {bo1, bo2}
  NoBo = NoBo
  Fallback = Fallback
  MaxFailures = 0
  Requests = {"title", "commit", "popup", "disconnect", "shell_destroy"}
  Teardown = {"together", "split", "surface_first"}
CONSTRAINT TitlesOrOrders
SYMMETRY Interchangeable
INVARIANT ShellKnowsTheOthers
PROPERTIES ShellKnowsNoOtherWindow HandlesAreFresh
CHECK_DEADLOCK FALSE
