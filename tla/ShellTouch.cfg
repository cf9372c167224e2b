SPECIFICATION Spec
CONSTANTS
  MaxHandle = 2
  RegistryMax = 2
  title = title
  Untitled = Untitled
  Titles = {Untitled}
  tex1 = tex1
  tex2 = tex2
  Textures = {tex1, tex2}
  NoTexture = NoTexture
  card1 = card1
  card2 = card2
  Cards = {card1, card2}
  NoCard = NoCard
  Unregistered = Unregistered
  MaxBufferId = 1
  CacheMax = 1
  FreeNode = FreeNode
  Fingers = {0}
  NoFinger = NoFinger
  Moves = {"up_dismiss"}
  MaxChan = 1
  ImportFails = FALSE
  ShmIds = {2}
  Closed = Closed
  Happens = {"cancel"}
INVARIANTS FullscreenShowsFocus CardsMirrorRegistry ScreenIsNeverStale
  PressedNodeIsLive NoTapAndDismiss
SYMMETRY Interchangeable
CHECK_DEADLOCK FALSE
