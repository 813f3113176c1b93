CONSTANTS
  NativeW = 12
  NativeH = 4
  WideMax = 30
  FollowMax = 2
  Windows <- MCWindows
  PictureWidths <- MCPictureWidths
  Page = 16
  VramEnd = 400
  Ids = {1, 2, 3}
  None = None
  HudW = 10
  PanelLeft = 3
  PanelW = 6
  PanelFresh = 2
  Script <- MCScript
  Stages <- MCStages
  Sections = {9, 16}
  Cameras = {0, 20}
SPECIFICATION Spec
INVARIANTS FightersReachTheEdge
