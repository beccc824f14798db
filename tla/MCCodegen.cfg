CONSTANTS
  Half = 1024
  Programs <- Samples
  Nodes <- SampleNodes
SPECIFICATION Spec
INVARIANTS
  TypeOK
  PoolExact
  JumpsLand
  AssertsHold
  TranslatedOnce
