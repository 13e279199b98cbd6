SPECIFICATION FairSpec
CONSTANTS
  Sessions = {s1}
  NoSession = NoSession
  Requests = {r1, r2}
  OpTypes = {"rewrite-command"}
  MaxLines = 3
  MaxRestarts = 1
  SavedCap = 4
INVARIANTS NothingSkipped HandedOnceAlone SavedBounded
PROPERTIES SavingsHanded
