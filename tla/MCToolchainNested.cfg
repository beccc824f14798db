CONSTANTS
  Half = 1024
  Programs <- Nested
  Nodes <- MCNodes
  Inputs <- MCInputs
  MaxStack = 40
  MaxOut = 12
SPECIFICATION Spec

PROPERTY ImplementsSource
