CONSTANTS
  Half = 32768
  ByteBase = 16
  Writers = {p1}
  Breaks = {}
  Rooms = {}
  valid = valid
  erroneous = erroneous
  rootless = rootless
  Missing = missing
  Valid <- MCValid
  Erroneous <- MCErroneous
  Rootless <- MCRootless
  ProgramChunk <- MCProgramChunk
SPECIFICATION Spec
INVARIANT CompilesSource
