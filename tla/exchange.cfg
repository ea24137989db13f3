CONSTANTS
  classic = classic
  pq = pq
  box1 = box1
  box2 = box2
  Listings <- MCListings
  PQKeys = {pq}
  Nothing = Nothing
  MaxCalls = 2
  MaxCopies = 2
  MaxEvents = 1
SPECIFICATION Spec
INVARIANTS TypeOK ConfirmedIsMailed OneMailPerStart ShownIsUsed WithdrawnGetsNothing
PROPERTY CallsDeliver
