SPECIFICATION FmSpec
CONSTANTS
  Voices = {0, 3, 6, 7}
  Channels = {0}
  Notes = {60, 61}
  Programs <- AllPrograms
INVARIANTS VoicesConsistent
PROPERTIES NoteEndsSilent NoNeedlessSteal
