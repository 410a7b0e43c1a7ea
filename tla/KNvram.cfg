SPECIFICATION Spec
CONSTANTS
  Names = {a, b}
  Vals = {v1, v2}
  None = None
  Segs = 3
  Slots = 5
  SeqRange = 6
  MaxCrash = 2
SYMMETRY Symmetric
INVARIANTS
  CommittedSurvives
  MapMatchesFlash
  NeverOverruns
