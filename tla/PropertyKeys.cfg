SPECIFICATION PropertySpec
CONSTANTS
  volume = volume
  micGain = micGain
  micGainBoost = micGainBoost
  Names <- TwoNames
  Vals = {val, big}
  TooBig = {big}
  None = None
  Slots = 2
  Matches <- Prefixes
INVARIANTS
  TargetKeyRead
