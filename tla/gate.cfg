CONSTANTS
  Requests = {a, b, c}
  t1 = t1
  t2 = t2
  Tokens = {t1, t2}
  NoToken = NoToken
  lookup = lookup
  send = send
  Routes = {lookup, send}
  Stamp <- MCStamp
  Bits <- MCBits
  Difficulty <- MCDifficulty
  Validities <- MCValidities
  MaxDuration = 15
  Offsets <- ClockSteps
  MaxTime = 7
  MaxBoots = 2
SYMMETRY Callers
SPECIFICATION Spec
INVARIANTS TypeOK ReuseGap SecondUseIsLate EvictedIsExpired GrantedInWindow EntryAge
PROPERTIES ReplayedWasGranted LedgerSpec
