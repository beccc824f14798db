CONSTANTS
  Half = 1024
  Programs <- MCPrograms
  Nodes <- MCNodes
  Inputs <- MCInputs
  MaxStack = 40
  MaxOut = 12
SPECIFICATION Spec
INVARIANTS
  NoFault
  SameDepth
PROPERTIES
  ReturnMatchesCall
  ImplementsSource
