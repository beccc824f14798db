CONSTANTS
  Half = 268435456
  Tests <- Fact
  MaxStack = 60
  MaxOut = 20
SPECIFICATION Spec
PROPERTY PrintsItsAnswer
