CONSTANTS
  Half = 32768
  ByteBase = 16
  Writers = {p1, p2}
  Chunks <- MCChunks
  Breaks <- MCBreaks
  Rooms <- MCRooms
SPECIFICATION Spec
INVARIANTS TypeOK FileIsWritten LoadedIsWritten SavedIsReadBack
SYMMETRY WriterSymmetry
