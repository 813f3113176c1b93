CONSTANTS
  Functions <- MCFunctions
  Overridden <- MCOverridden
  Services <- MCServices
  Calls <- MCCalls
  Synthetic <- MCSynthetic
  NativeCalls <- MCNativeCalls
  callback = callback
  entry = entry
  Main = "main"
  None = "none"
  MaxStack = 10
  MaxHost = 11
SPECIFICATION Spec
INVARIANTS StackIsItsCalls RunsEndWhereTheyBegan OriginalsAreScoped
