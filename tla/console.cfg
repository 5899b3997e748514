SPECIFICATION Spec
CONSTANTS
  Width = 3
  Height = 2
  PageCells = 7
  Blank = " "
  Newline = "nl"
  Letters = {"x"}
  Pressed <- MCPressed
  Firmware <- MCFirmware
  Address <- MCAddress
INVARIANTS
  TypeOK
  RowStaysOnScreen
  ScreenShowsText
  InterruptsReachTheirHandler
  KeysAreRequested
PROPERTY
  KeysAreServed
