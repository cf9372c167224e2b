SPECIFICATION Spec
CONSTANTS
  MaxHandle = 3
  RegistryMax = 2
  title = title
  Untitled = Untitled
  Titles = {Untitled, title}
  tex1 = tex1
  tex2 = tex2
  Textures = {tex1, tex2}
  NoTexture = NoTexture
  card1 = card1
  card2 = card2
  Cards = {card1, card2}
  NoCard = NoCard
  Unregistered = Unregistered
  MaxBufferId = 2
  CacheMax = 1
  FreeNode = FreeNode
  Fingers = {}
  NoFinger = NoFinger
  Moves = {}
  MaxChan = 1
  ImportFails = TRUE
  ShmIds = {2}
  Closed = Closed
  Happens = {"retitle", "ime", "crash"}
INVARIANT RegistryFollowsStream
SYMMETRY Interchangeable
CHECK_DEADLOCK FALSE
