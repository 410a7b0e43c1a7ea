SPECIFICATION PropertySpec
CONSTANTS
  volume = volume
  micGain = micGain
  micGainBoost = micGainBoost
  Names <- MCNames
  Vals = {val, big}
  TooBig = {big}
  None = None
  Slots = 2
  Matches <- Prefixes
VIEW Seen
INVARIANTS
  ReadYourWrites
  FlushedSurvives
PROPERTIES
  ClearForgets
