CONSTANTS
  Esc = Esc
  Enter = Enter
  Q = Q
  f1 = f1
  f2 = f2
  None = None
  Escape <- Esc
  PhysicalKeys <- MCPhysical
  Return <- Enter
  Actions <- MCActions
  Pause = "pause"
  Zones <- MCZones
  ZoneActions <- MCZoneActions
  Bindable <- MCBindable
  Fingers = {f1, f2}
  RingSize = 3
SPECIFICATION Spec
INVARIANTS LedgerNeverSticks GameCatchesUp TouchHoldsWhatItShows
SYMMETRY MCSymmetry
