CONSTANTS
  DebounceTime = 2
  DoubleClick = 4
  LongPress = 5
  None = None
  MaxNow = 26
SPECIFICATION Spec
INVARIANTS EveryPressOneGesture ClickIsPrompt
PROPERTY SecondPressInWindow
