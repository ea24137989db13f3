CONSTANTS
  Calls = {a, b}
  a = a
  b = b
  Requests <- MCRequests
  Tokens <- MCTokens
  NoToken = NoToken
  Stamp <- MCStamp
  Bits <- MCBits
  Routes <- MCRoutes
  Difficulty <- MCDifficulty
  Validities <- MCValidities
  MaxDuration = 31
  Offsets <- Skews
  MaxTime = 2
  MaxBoots = 2
  Deployments <- MCDeployments
  Unset = Unset
  Empty = Empty
  Garbage = Garbage
  Cloudflare = Cloudflare
  Default <- MCDefault
  SendFallback = 3
  Second = 2
  Hash <- MCHash
  Starts = {0, 1}
  MaxNonce = 1
  LastStamp = 1
SPECIFICATION SessionSpec
INVARIANTS SessionTypeOK ServingIsSound ReplayExplained
PROPERTY InTimeIsServed
