CONSTANTS
  F4 = F4
  F6 = F6
  Nothing = Nothing
  Attack = "attack"
  Jump = "jump"
  FunctionKeys <- MCFunctionKeys
  QueueCapacity = 1
  Hold = 2
SPECIFICATION MenuSpec
INVARIANTS PressesActOnce PulsesInOrder
PROPERTIES PauseIsGivenBack
SYMMETRY MCSymmetry
