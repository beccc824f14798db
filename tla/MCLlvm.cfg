CONSTANTS
  Half = 268435456
  Tests <- Files
SPECIFICATION Spec
INVARIANTS
  NamesAreFound
  BlocksTerminate
  PrintsAsMeant
PROPERTY EndsAsMeant
