SPECIFICATION LiveSpec
CONSTANTS
  NoNode = NoNode
  Dangling = Dangling
  NoId = NoId
  NoBlob = NoBlob
  Broken = Broken
  Nothing = Nothing
  UiContents <- MCUiContents
  Widgets <- MCWidgets
  Styles = {"s1"}
  Redraws = TRUE
  MaxSaves = 1
  MaxNodes = 3
  MapCap = 2
  Hash <- MCHash
  Gestures = {"button", "move", "key", "host"}
INVARIANTS PointersAreLive ModalPopup BlobsOwnedOnce
  KeyboardServesFocus
PROPERTIES EditingSurvives EditsAreShown
