CONSTANTS
  Half = 32
  Chunks <- MCChunks
  Inputs <- MCInputs
  Garbage <- MCGarbage
  MaxStack = 5
  MaxOut = 2
  StackMap <- MCStackMap
SPECIFICATION Spec
INVARIANTS
  TypeOK
  MappedCodeRuns
PROPERTY ForwardCodeStops
