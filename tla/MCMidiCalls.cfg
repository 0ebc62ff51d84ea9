SPECIFICATION Spec
CONSTANTS
  Cards = {0, 1, 2}
  Synths = {1, 2}
  Mpus = {0}
  MaxUsers = 3
  Notes = {60, 64}
INVARIANTS SequencerConsistent PlaysLoadedSynth
PROPERTIES OthersUndisturbed
CHECK_DEADLOCK FALSE
