SPECIFICATION Spec
CONSTANTS
  NSlots = 2
  NPads = 1
  Pads = {p1}
  NoPad = NoPad
  NRoster = 2
  Presses <- MCPresses
  Configured = {0}
  Listable = {1}
INVARIANTS
  OneDevicePerPlayer
  ChoosersStayOffStage
PROPERTIES
  DropsTheOpener
  SeatsAsPromised
  UnpluggedFighterLeaves
