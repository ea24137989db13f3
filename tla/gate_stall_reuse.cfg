CONSTANTS
  Requests = {a, b, c}
  t1 = t1
  t2 = t2
  Tokens = {t1, t2}
  NoToken = NoToken
  lookup = lookup
  send = send
  Routes = {lookup, send}
  Stamp <- MCStamp
  Bits <- MCBits
  Difficulty <- MCDifficulty
  Validities = {2}
  MaxDuration = 15
  Offsets = {0}
  MaxTime = 7
  MaxBoots = 1
SYMMETRY Callers
SPECIFICATION Spec
INVARIANTS SingleUse
