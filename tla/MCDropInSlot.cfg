SPECIFICATION Spec
CONSTANTS
  NSlots = 3
  NPads = 1
  Pads = {p1}
  NoPad = NoPad
  NRoster = 1
  Presses <- MCPresses
  Configured = {0, 1}
  Listable = {1}
PROPERTY NewcomerTakesLowest
