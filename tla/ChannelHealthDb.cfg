SPECIFICATION Spec
CONSTANTS
  Channels = {c1, c2}
  NoChannel = none
  Writers = {w1, w2, w3}
  FailureCap = 4
SYMMETRY Symmetry
INVARIANTS CooldownEarned StatusFollowsCount
