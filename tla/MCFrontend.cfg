CONSTANTS
  Parsed <- Files
SPECIFICATION MCSpec
INVARIANTS
  TypeOK
  StaysTree
  ReturnsCollected
  DeclaredIsTyped
  AssignedIsTyped
  OperandsAreInts
  OnlyEarlyCallsUntyped
  AnonymousAreNew
  HandsOverSamples
  RefusesErrors
  CopiesReadAlike
PROPERTY Concludes
