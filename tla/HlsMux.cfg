SPECIFICATION Spec
CONSTANTS
  wrap = 6
  max_nb_segments = 6
  start_sequence = 0
  MaxSequence = 18
INVARIANTS NewestIsThere MediaSequence
PROPERTIES MovesOn
CHECK_DEADLOCK FALSE
