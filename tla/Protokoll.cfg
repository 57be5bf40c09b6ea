\* Every call, every message, also from other programs, and one frame left over.
CONSTANTS
  MaxRest = 1
  Fremde <- Alle
SPECIFICATION Spec
INVARIANTS Verstanden KeineVerwechslung AbbruchNurGestoert
