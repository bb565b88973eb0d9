SPECIFICATION Spec
CONSTANTS
  a = a
  w1 = w1
  Widget = {w1}
  Label = {a}
  WidgetOf <- OneWidget
  Priority = {w1}
  Caller = {c1}
  Env = {"settings", "monitors", "close", "reload", "game", "trigger"}
  MaxHandlers = 2
CHECK_DEADLOCK FALSE
INVARIANTS
  PodsMatchWindows
  NoWidgetOverGame
  WidgetsAsConfigured
  TriggersServed
