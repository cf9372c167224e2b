SPECIFICATION SessionSpec
CONSTANTS
  MaxClients = 2
  s1 = s1
  s2 = s2
  Surfaces = {s1, s2}
  t1 = t1
  TextInputs = {t1}
  NULL = NULL
  NoKeyboard = NoKeyboard
  Slots = {0}
  MaxHandle = 2
  Pids = {7, 8}
  Gone = Gone
  MaxTimers = 1
INVARIANTS EnteredIsFocused TouchesEnd KillHitsTheAsked
PROPERTY KilledAppDies
CHECK_DEADLOCK FALSE
