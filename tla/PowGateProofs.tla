--------------------------- MODULE PowGateProofs ---------------------------
(***************************************************************************)
(* Proofs about PowGate, for every set of calls, tokens and routes, every  *)
(* validity with which a server comes up, every timestamp, every delay and *)
(* every reading of the clocks.  The bounds of the model are not used.     *)
(*                                                                         *)
(* The argument: the cache remembers every token granted since the server  *)
(* started, or else more than TTL has passed since the grant (CacheInv).   *)
(* Two uses of one token are therefore more than TTL apart (ReuseGap).     *)
(* The readings of their two checks are both within the token's window     *)
(* (GrantedInWindow), whose width is TTL: so the second reading is further *)
(* behind its grant than the first (SecondUseIsLate).                      *)
(***************************************************************************)
EXTENDS PowGate, TLAPS

\* A token passed the freshness check at reading c of the wall clock.
Passed(t, c) == \/ -validity <= c - Stamp[t] /\ c - Stamp[t] <= validity
                \/ c - Stamp[t] < -MaxDuration

\* A call past the freshness check passed it by the reading it made.
VerifyingInv ==
  \A r \in Requests : pc[r] = "verifying" =>
    token[r] \in Tokens /\ Passed(token[r], clock[r])

\* Grants lie in the past, and a call that got one is over.
GrantsInv == \A g \in grants : g.at <= mono /\ pc[g.req] = "served"

\* The cache holds what was granted, or the grant is more than TTL ago.
CacheInv ==
  \A g \in grants : \/ g.tok \in DOMAIN seen /\ g.at <= seen[g.tok]
                    \/ g.at + TTL < mono

\* Conversely the cache holds nothing that was not granted.
SeenInv == \A t \in DOMAIN seen : \E g \in grants : g.tok = t

\* The next tick is at most a period away, and no entry survived the last turn
\* of the sweeper by age.
SweepInv == /\ due <= mono + Period
            /\ \A t \in DOMAIN seen : /\ seen[t] <= mono
                                      /\ due - Period - TTL <= seen[t]

IInv == /\ TypeOK
        /\ VerifyingInv
        /\ GrantsInv
        /\ CacheInv
        /\ SeenInv
        /\ SweepInv
        /\ ReuseGap
        /\ GrantedInWindow

-----------------------------------------------------------------------------
(* Durations.                                                              *)

LEMMA Remainders ==
  ASSUME NEW m \in Nat, m > 0
  PROVE  /\ \A n \in 0..(m - 1) : n % m = n
         /\ \A n \in m..(2 * m - 1) : n % m = n - m
         /\ \A n \in (-m)..(-1) : n % m = n + m
OBVIOUS

\* A validity of zero or more, with which a server comes up, is half the ttl.
\* The ttl of a negative one is positive because it wraps.
LEMMA Lifetimes ==
  ASSUME NEW v \in Validities
  PROVE  /\ v \in Int /\ -MaxDuration - 1 < v /\ v < MaxDuration
         /\ Lifetime(v) \in Nat /\ Lifetime(v) >= 2
         /\ Lifetime(v) \div 2 \in Nat /\ 1 <= Lifetime(v) \div 2
         /\ v >= 0 => Lifetime(v) = 2 * v
<1> DEFINE half == MaxDuration + 1
           y == 2 * v + half
<1>1. /\ MaxDuration \in Nat /\ v \in Int /\ -half <= v /\ v <= MaxDuration
      /\ Lifetime(v) \div 2 > 0
  BY TimeAssumption, DurationAssumption DEF Durations
<1>2. Lifetime(v) = (y % (2 * half)) - half
  BY DEF Lifetime, Wrapped
<1>3. y % (2 * half) \in 0..(2 * half - 1)
  BY <1>1
<1>4. Lifetime(v) \in Nat /\ Lifetime(v) >= 2 /\ Lifetime(v) \div 2 \in Nat
      /\ 1 <= Lifetime(v) \div 2
  <2>1. Lifetime(v) \in Int
    BY <1>1, <1>2, <1>3
  <2> HIDE DEF y
  <2> QED BY <1>1, <2>1
<1>5. v # -half
  <2> SUFFICES ASSUME v = -half PROVE FALSE
    OBVIOUS
  <2>1. y = -half /\ y \in (-(2 * half))..(-1)
    BY <1>1
  <2>2. y % (2 * half) = half
    BY <1>1, <2>1, Remainders
  <2> QED BY <1>1, <1>2, <1>4, <2>2
<1>6. ASSUME v >= 0 PROVE Lifetime(v) = 2 * v
  <2>1. CASE y \in 0..(2 * half - 1)
    <3>1. y % (2 * half) = y
      BY <1>1, <2>1, Remainders
    <3> QED BY <1>1, <1>2, <3>1
  <2>2. CASE y \in (2 * half)..(4 * half - 1)
    <3>1. y % (2 * half) = y - 2 * half
      BY <1>1, <2>2, Remainders
    <3>2. Lifetime(v) < 0
      BY <1>1, <1>2, <3>1
    <3> QED BY <1>1, <1>4, <3>2
  <2> QED BY <1>1, <1>6, <2>1, <2>2
<1>7. v < MaxDuration
  <2>1. Lifetime(v) <= MaxDuration
    BY <1>1, <1>2, <1>3
  <2>2. CASE v >= 0
    BY <1>1, <1>4, <1>6, <2>1, <2>2
  <2>3. CASE v < 0
    BY <1>1, <2>3
  <2> QED BY <1>1, <2>2, <2>3
<1> QED BY <1>1, <1>4, <1>5, <1>6, <1>7

\* The same of the server that is up.
LEMMA TTLType ==
  ASSUME validity \in Validities
  PROVE  /\ validity \in Int /\ TTL \in Nat /\ TTL >= 2
         /\ Period \in Nat /\ 1 <= Period
         /\ validity >= 0 => TTL = 2 * validity
BY Lifetimes DEF TTL, Period

\* The first tick after a moment x later than the last.
LEMMA NextTick ==
  ASSUME NEW p \in Nat, p >= 1, NEW x \in Nat
  PROVE  /\ p * (1 + x \div p) \in Nat
         /\ p * (1 + x \div p) <= x + p
BY SMT

-----------------------------------------------------------------------------
(* The freshness check.                                                    *)

\* The check is passed within validity of the wall clock, on both sides, and
\* by a timestamp so far ahead that the difference has no negation.
LEMMA FreshMeansPassed ==
  ASSUME mono \in Nat, offset \in Offsets, validity \in Validities, NEW t \in Tokens
  PROVE  Fresh(t) <=> Passed(t, Wall)
<1>1. /\ Stamp[t] \in Int /\ Wall \in Int /\ MaxDuration \in Nat
      /\ validity \in Int /\ -MaxDuration - 1 < validity /\ validity < MaxDuration
  BY TokenAssumption, TimeAssumption, DurationAssumption, Lifetimes DEF Wall
<1> DEFINE d == Wall - Stamp[t]
<1>2. CASE d > MaxDuration
  <2>1. Since(Stamp[t]) = MaxDuration
    BY <1>1, <1>2 DEF Since, Saturated
  <2> QED BY <1>1, <1>2, <2>1 DEF Fresh, Delta, Passed
<1>3. CASE d < -MaxDuration
  <2>1. Since(Stamp[t]) = -MaxDuration - 1
    <3>1. Since(Stamp[t]) = IF d > MaxDuration THEN MaxDuration
                            ELSE IF d < -MaxDuration - 1 THEN -MaxDuration - 1 ELSE d
      BY DEF Since, Saturated
    <3>2. d \in Int
      BY <1>1
    <3> HIDE DEF d
    <3> QED BY <1>1, <1>3, <3>1, <3>2
  <2> QED BY <1>1, <1>3, <2>1 DEF Fresh, Delta, Negated, Passed
<1>4. CASE -MaxDuration <= d /\ d <= MaxDuration
  <2>1. Since(Stamp[t]) = d
    BY <1>1, <1>4 DEF Since, Saturated
  <2>2. Delta(Stamp[t]) = IF d < 0 THEN -d ELSE d
    BY <1>1, <1>4, <2>1 DEF Delta, Negated
  <2> QED BY <1>1, <1>4, <2>2 DEF Fresh, Passed
<1> QED BY <1>1, <1>2, <1>3, <1>4

-----------------------------------------------------------------------------
(* The invariant.                                                          *)

LEMMA InitInv == Init => IInv
<1> SUFFICES ASSUME Init PROVE IInv
  OBVIOUS
<1> USE DEF Init
<1>1. DOMAIN seen = {}
  OBVIOUS
<1>2. validity \in Validities
  OBVIOUS
<1>3. TypeOK
  BY <1>1, <1>2, TTLType, TokenAssumption, TimeAssumption DEF TypeOK, Phases
<1>4. /\ VerifyingInv /\ GrantsInv /\ CacheInv /\ SeenInv /\ ReuseGap
      /\ GrantedInWindow
  BY <1>1 DEF VerifyingInv, GrantsInv, CacheInv, SeenInv, ReuseGap, GrantedInWindow
<1>5. SweepInv
  BY <1>1, <1>2, TTLType DEF SweepInv
<1> QED
  BY <1>3, <1>4, <1>5 DEF IInv

\* The part of the invariant that is about the cache and the grants depends on
\* nothing else.
LEMMA CacheUntouched ==
  ASSUME IInv, UNCHANGED <<validity, mono, seen, due, boot, grants>>
  PROVE  /\ CacheInv' /\ SeenInv' /\ SweepInv' /\ ReuseGap'
         /\ GrantedInWindow'
BY DEF IInv, CacheInv, SeenInv, SweepInv, ReuseGap, GrantedInWindow, TTL, Period, Age,
       FarAhead

\* A step that lets no call advance past the freshness check.
LEMMA RefuseHeaderInv ==
  ASSUME IInv, NEW r \in Requests, RefuseHeader(r) PROVE IInv'
<1> USE DEF RefuseHeader
<1>1. TypeOK'
  BY DEF IInv, TypeOK, Phases
<1>2. VerifyingInv'
  BY DEF IInv, TypeOK, VerifyingInv, Passed
<1>3. GrantsInv'
  BY DEF IInv, TypeOK, Grants, GrantsInv
<1> QED
  BY <1>1, <1>2, <1>3, CacheUntouched DEF IInv

LEMMA CheckInv ==
  ASSUME IInv, NEW r \in Requests, NEW t \in Tokens, NEW route \in Routes,
         Check(r, t, route)
  PROVE  IInv'
<1> USE DEF Check
<1>1. TypeOK'
  <2>1. Wall \in Int
    BY TimeAssumption DEF Wall, IInv, TypeOK
  <2> QED BY <2>1 DEF IInv, TypeOK, Phases
<1>2. VerifyingInv'
  <2> SUFFICES ASSUME NEW q \in Requests, pc'[q] = "verifying"
               PROVE  token'[q] \in Tokens /\ Passed(token'[q], clock'[q])
    BY DEF VerifyingInv, Passed
  <2>1. CASE q # r
    BY <2>1 DEF IInv, TypeOK, VerifyingInv
  <2>2. CASE q = r
    <3>1. Fresh(t) /\ token'[r] = t /\ clock'[r] = Wall
      BY <2>2 DEF IInv, TypeOK
    <3> QED
      BY <2>2, <3>1, FreshMeansPassed DEF IInv, TypeOK
  <2> QED
    BY <2>1, <2>2
<1>3. GrantsInv'
  BY DEF IInv, TypeOK, Grants, GrantsInv
<1> QED
  BY <1>1, <1>2, <1>3, CacheUntouched DEF IInv

\* A call that finds its token in the cache changes only its own phase.
LEMMA ReplayInv ==
  ASSUME IInv, NEW r \in Requests, Add(r), Seen(token[r]) PROVE IInv'
<1> USE DEF Add
<1>1. TypeOK'
  BY DEF IInv, TypeOK, Phases
<1>2. VerifyingInv'
  BY DEF IInv, TypeOK, VerifyingInv, Passed
<1>3. GrantsInv'
  BY DEF IInv, TypeOK, Grants, GrantsInv
<1> QED
  BY <1>1, <1>2, <1>3, CacheUntouched DEF IInv

\* A call that does not find it is granted, and the token remembered.
LEMMA GrantInv ==
  ASSUME IInv, NEW r \in Requests, Add(r), ~Seen(token[r]) PROVE IInv'
<1> DEFINE t == token[r]
           n == [req |-> r, tok |-> t, at |-> mono, clock |-> clock[r]]
<1>1. /\ pc[r] = "verifying" /\ t \in Tokens /\ t \notin DOMAIN seen
      /\ pc' = [pc EXCEPT ![r] = "served"]
      /\ grants' = grants \cup {n}
      /\ clock' = [clock EXCEPT ![r] = 0]
      /\ UNCHANGED <<validity, mono, offset, due, token, boot>>
  BY DEF Add, Seen, IInv, VerifyingInv
<1>2. /\ DOMAIN seen' = DOMAIN seen \cup {t}
      /\ seen'[t] = mono
      /\ \A u \in DOMAIN seen : seen'[u] = seen[u]
  BY <1>1 DEF Add, Remember, Seen
<1>3. n \in Grants
  BY <1>1 DEF IInv, TypeOK, Grants
<1>4. TypeOK'
  <2>1. seen' \in [DOMAIN seen' -> Nat] /\ DOMAIN seen' \subseteq Tokens
    BY <1>1 DEF Add, Remember, Seen, IInv, TypeOK
  <2> QED
    BY <1>1, <1>3, <2>1 DEF IInv, TypeOK, Phases
<1>5. VerifyingInv'
  BY <1>1 DEF IInv, TypeOK, VerifyingInv, Passed
<1>6. GrantsInv'
  BY <1>1 DEF IInv, TypeOK, Grants, GrantsInv
<1>7. TTL' = TTL /\ Period' = Period
  BY <1>1 DEF TTL, Period
<1>8. CacheInv'
  <2> SUFFICES ASSUME NEW g \in grants'
               PROVE  \/ g.tok \in DOMAIN seen' /\ g.at <= seen'[g.tok]
                      \/ g.at + TTL < mono
    BY <1>1, <1>7 DEF CacheInv
  <2>1. CASE g = n
    BY <1>2, <2>1 DEF IInv, TypeOK
  <2>2. CASE g \in grants
    BY <1>2, <2>2 DEF IInv, CacheInv
  <2> QED
    BY <1>1, <2>1, <2>2
<1>9. SeenInv'
  <2>1. n \in grants' /\ n.tok = t /\ grants \subseteq grants'
    BY <1>1
  <2> QED
    BY <1>2, <2>1 DEF IInv, SeenInv
<1>10. SweepInv'
  <2>1. due - Period - TTL <= mono
    BY TTLType DEF IInv, SweepInv, TypeOK
  <2> QED
    BY <1>1, <1>2, <1>7, <2>1 DEF IInv, SweepInv, TypeOK
<1>11. ReuseGap'
  <2>1. ASSUME NEW g \in grants, g.tok = t
        PROVE  mono - g.at > TTL
    <3>1. g.at + TTL < mono
      BY <1>1, <2>1 DEF IInv, CacheInv
    <3> QED
      BY <3>1, TTLType DEF IInv, TypeOK, Grants
  <2> QED
    BY <1>1, <1>7, <2>1 DEF IInv, ReuseGap
<1>12. GrantedInWindow'
  <2>1. Passed(t, clock[r])
    BY <1>1 DEF IInv, VerifyingInv
  <2>2. \/ -validity <= Age(n) /\ Age(n) <= validity
        \/ FarAhead(n)
    BY <2>1 DEF Passed, Age, FarAhead
  <2> QED
    BY <1>1, <2>2 DEF IInv, GrantedInWindow, Age, FarAhead
<1> QED
  BY <1>4, <1>5, <1>6, <1>8, <1>9, <1>10, <1>11, <1>12 DEF IInv

LEMMA SweepKeepsInv == ASSUME IInv, Sweep PROVE IInv'
<1>1. /\ mono >= due /\ due' = due + Period * (1 + (mono - due) \div Period)
      /\ UNCHANGED <<validity, mono, offset, pc, token, clock, boot, grants>>
  BY DEF Sweep
<1>2. /\ DOMAIN seen' = {u \in DOMAIN seen : ~Outdated(u)}
      /\ \A u \in DOMAIN seen' : seen'[u] = seen[u]
      /\ seen' \in [DOMAIN seen' -> Nat]
  BY DEF Sweep, IInv, TypeOK
<1>3. /\ mono \in Nat /\ due \in Nat /\ TTL \in Nat /\ Period \in Nat /\ Period >= 1
      /\ TTL' = TTL /\ Period' = Period /\ seen \in [DOMAIN seen -> Nat]
  BY <1>1, TTLType DEF IInv, TypeOK, TTL, Period
<1>4. due' \in Nat /\ due' <= mono + Period
  <2>1. mono - due \in Nat
    BY <1>1, <1>3
  <2> QED BY <1>1, <1>3, <2>1, NextTick
<1>5. \A u \in DOMAIN seen' : u \in DOMAIN seen /\ mono - TTL <= seen[u]
  BY <1>2, <1>3 DEF Outdated
<1>6. TypeOK'
  BY <1>1, <1>2, <1>4 DEF IInv, TypeOK
<1>7. VerifyingInv' /\ GrantsInv' /\ ReuseGap' /\ GrantedInWindow'
  BY <1>1, <1>3 DEF IInv, VerifyingInv, Passed, GrantsInv, ReuseGap, GrantedInWindow, Age,
     FarAhead
<1>8. CacheInv'
  <2> SUFFICES ASSUME NEW g \in grants
               PROVE  \/ g.tok \in DOMAIN seen' /\ g.at <= seen'[g.tok]
                      \/ g.at + TTL < mono
    BY <1>1, <1>3 DEF CacheInv
  <2>1. CASE g.at + TTL < mono
    BY <2>1
  <2>2. CASE g.tok \in DOMAIN seen /\ g.at <= seen[g.tok]
    <3>1. CASE Outdated(g.tok)
      BY <1>3, <2>2, <3>1 DEF Outdated, IInv, TypeOK, Grants
    <3>2. CASE ~Outdated(g.tok)
      BY <1>2, <2>2, <3>2
    <3> QED
      BY <3>1, <3>2
  <2> QED
    BY <2>1, <2>2 DEF IInv, CacheInv
<1>9. SeenInv'
  BY <1>1, <1>2 DEF IInv, SeenInv
<1>10. SweepInv'
  <2> SUFFICES ASSUME NEW u \in DOMAIN seen'
               PROVE  seen'[u] <= mono /\ due' - Period - TTL <= seen'[u]
    BY <1>1, <1>3, <1>4 DEF SweepInv
  <2>1. /\ u \in DOMAIN seen /\ seen'[u] = seen[u] /\ seen[u] \in Nat
        /\ mono - TTL <= seen[u] /\ seen[u] <= mono
    BY <1>2, <1>3, <1>5 DEF IInv, SweepInv
  <2> QED
    BY <1>3, <1>4, <2>1
<1> QED
  BY <1>6, <1>7, <1>8, <1>9, <1>10 DEF IInv

LEMMA TickInv == ASSUME IInv, Tick PROVE IInv'
<1>1. /\ mono' = mono + 1
      /\ UNCHANGED <<validity, offset, seen, due, pc, token, clock, boot, grants>>
  BY DEF Tick
<1>2. /\ mono \in Nat /\ due \in Nat /\ TTL \in Nat /\ Period \in Nat
      /\ TTL' = TTL /\ Period' = Period /\ seen \in [DOMAIN seen -> Nat]
      /\ grants \subseteq Grants
  BY <1>1, TTLType DEF IInv, TypeOK, TTL, Period
<1>3. TypeOK'
  BY <1>1 DEF IInv, TypeOK
<1>4. VerifyingInv' /\ ReuseGap' /\ GrantedInWindow' /\ SeenInv'
  BY <1>1, <1>2 DEF IInv, VerifyingInv, Passed, ReuseGap, GrantedInWindow, Age, FarAhead,
     SeenInv
<1>5. GrantsInv'
  BY <1>1, <1>2 DEF IInv, GrantsInv, Grants
<1>6. CacheInv'
  BY <1>1, <1>2 DEF IInv, CacheInv, Grants
<1>7. SweepInv'
  BY <1>1, <1>2 DEF IInv, SweepInv
<1> QED
  BY <1>3, <1>4, <1>5, <1>6, <1>7 DEF IInv

LEMMA StepClockInv == ASSUME IInv, StepClock PROVE IInv'
<1> USE DEF StepClock
<1>1. TypeOK'
  BY DEF IInv, TypeOK
<1>2. VerifyingInv' /\ GrantsInv'
  BY DEF IInv, VerifyingInv, Passed, GrantsInv
<1> QED
  BY <1>1, <1>2, CacheUntouched DEF IInv

LEMMA RestartInv == ASSUME IInv, NEW v \in Validities, Restart(v) PROVE IInv'
<1> USE DEF Restart
<1>1. DOMAIN seen' = {} /\ seen' \in [DOMAIN seen' -> Nat]
  OBVIOUS
<1>2. /\ Lifetime(v) \div 2 \in Nat /\ Period' = Lifetime(v) \div 2
      /\ mono \in Nat /\ mono' = mono
  BY Lifetimes DEF IInv, TypeOK, Period, TTL
<1>3. TypeOK'
  BY <1>1, <1>2 DEF IInv, TypeOK, Phases
<1>4. VerifyingInv'
  BY DEF IInv, TypeOK, VerifyingInv
<1>5. GrantsInv' /\ CacheInv' /\ SeenInv' /\ ReuseGap' /\ GrantedInWindow'
  BY <1>1 DEF GrantsInv, CacheInv, SeenInv, ReuseGap, GrantedInWindow
<1>6. SweepInv'
  BY <1>1, <1>2 DEF SweepInv
<1> QED
  BY <1>3, <1>4, <1>5, <1>6 DEF IInv

LEMMA StutterInv == ASSUME IInv, UNCHANGED vars PROVE IInv'
<1> USE DEF vars
<1>1. TypeOK' /\ VerifyingInv' /\ GrantsInv'
  BY DEF IInv, TypeOK, VerifyingInv, Passed, GrantsInv
<1> QED BY <1>1, CacheUntouched DEF IInv

LEMMA StepInv == IInv /\ [Next]_vars => IInv'
<1> SUFFICES ASSUME IInv, [Next]_vars PROVE IInv'
  OBVIOUS
<1>1. CASE \E r \in Requests : RefuseHeader(r)
  BY <1>1, RefuseHeaderInv
<1>2. CASE \E r \in Requests, t \in Tokens, route \in Routes : Check(r, t, route)
  BY <1>2, CheckInv
<1>3. CASE \E r \in Requests : Add(r)
  BY <1>3, ReplayInv, GrantInv
<1>4. CASE Sweep
  BY <1>4, SweepKeepsInv
<1>5. CASE Tick
  BY <1>5, TickInv
<1>6. CASE StepClock
  BY <1>6, StepClockInv
<1>7. CASE \E v \in Validities : Restart(v)
  BY <1>7, RestartInv
<1>8. CASE UNCHANGED vars
  BY <1>8, StutterInv
<1> QED
  BY <1>1, <1>2, <1>3, <1>4, <1>5, <1>6, <1>7, <1>8 DEF Next, Horizon

\* The invariant holds in every reachable state of the gate.
THEOREM Invariance == Spec => []IInv
BY InitInv, StepInv, PTL DEF Spec

-----------------------------------------------------------------------------
(* What follows from the invariant.                                        *)

\* Every variable keeps its type; the cache maps tokens to clock readings.
THEOREM TypeCorrect == Spec => []TypeOK
<1>1. IInv => TypeOK
  BY DEF IInv
<1> QED
  BY <1>1, Invariance, PTL

\* One server grants a token twice only at a distance of more than TTL,
\* whatever the clocks, the stalls and the timestamps do.
THEOREM ReusesAreFarApart == Spec => []ReuseGap
<1>1. IInv => ReuseGap
  BY DEF IInv
<1> QED
  BY <1>1, Invariance, PTL

\* The sweeper evicts every entry within TTL, a period and its own lag.
THEOREM EntriesAreEvicted == Spec => []EntryAge
<1>1. IInv => EntryAge
  <2> SUFFICES ASSUME IInv, NEW t \in DOMAIN seen
               PROVE  mono - seen[t]
                        <= TTL + Period + (IF mono > due THEN mono - due ELSE 0)
    BY DEF EntryAge
  <2> QED
    BY TTLType DEF IInv, SweepInv, TypeOK
<1> QED
  BY <1>1, Invariance, PTL

\* Calls are granted within their token's window by the clock their check
\* read, or by a stamp whose distance to it has no negation.
THEOREM GrantsAreInWindow == Spec => []GrantedInWindow
<1>1. IInv => GrantedInWindow
  BY DEF IInv
<1> QED
  BY <1>1, Invariance, PTL

\* Two readings within the window of one token are no more than TTL apart.
LEMMA WindowIsTTL ==
  ASSUME validity \in Validities, NEW s \in Int, NEW c \in Int, NEW d \in Int,
         -validity <= c - s, c - s <= validity, -validity <= d - s, d - s <= validity
  PROVE  d - c <= TTL
BY TTLType

\* The later of two grants that are more than TTL apart is further behind.
LEMMA LaterIsBehind ==
  ASSUME NEW v \in Validities, NEW g \in Grants, NEW h \in Grants, g.tok = h.tok,
         -v <= Age(g), Age(g) <= v, -v <= Age(h), Age(h) <= v,
         h.at - g.at > Lifetime(v)
  PROVE  Behind(g) < Behind(h)
<1>1. /\ g.at \in Nat /\ h.at \in Nat /\ g.clock \in Int /\ h.clock \in Int
      /\ Stamp[g.tok] \in Int
  BY TokenAssumption DEF Grants
<1> QED
  BY <1>1, Lifetimes DEF Behind, Age

LEMMA SecondUse ==
  ASSUME TypeOK, ReuseGap, GrantedInWindow, NEW g \in grants, NEW h \in grants,
         g.tok = h.tok, g # h, g.at <= h.at, ~FarAhead(g), ~FarAhead(h)
  PROVE  Behind(g) < Behind(h)
<1>1. g \in Grants /\ h \in Grants /\ validity \in Validities
  BY DEF TypeOK
<1>2. h.at - g.at > Lifetime(validity)
  <2>1. g.at \in Nat /\ h.at \in Nat
    BY <1>1 DEF Grants
  <2> QED BY <1>1, <2>1, TTLType DEF ReuseGap, TTL
<1>3. /\ -validity <= Age(g) /\ Age(g) <= validity
      /\ -validity <= Age(h) /\ Age(h) <= validity
  BY DEF GrantedInWindow
<1> QED
  BY <1>1, <1>2, <1>3, LaterIsBehind

\* A token buys a second call only of a goroutine that was held up for longer
\* than the first, or after the clock was set back, or by a stamp far ahead.
THEOREM SecondUsesAreLate == Spec => []SecondUseIsLate
<1>1. IInv => SecondUseIsLate
  BY SecondUse DEF IInv, SecondUseIsLate
<1> QED
  BY <1>1, Invariance, PTL

\* What the cache has forgotten has expired, unless the clock is now further
\* behind than the token's call was, or the token's stamp is far ahead.
THEOREM EvictedTokensHaveExpired == Spec => []EvictedIsExpired
<1>1. IInv => EvictedIsExpired
  <2> SUFFICES ASSUME IInv, NEW g \in grants, g.tok \notin DOMAIN seen, Fresh(g.tok),
                      ~(Wall - Stamp[g.tok] < -MaxDuration), ~FarAhead(g)
               PROVE  Behind(g) < mono - Wall
    BY DEF EvictedIsExpired
  <2>1. /\ g.at \in Nat /\ g.tok \in Tokens /\ Stamp[g.tok] \in Int /\ g.clock \in Int
        /\ mono \in Nat /\ offset \in Int /\ Wall \in Int /\ validity \in Validities
    BY TokenAssumption, TimeAssumption DEF IInv, TypeOK, Grants, Wall
  <2>2. g.at + TTL < mono
    BY DEF IInv, CacheInv
  <2>3. -validity <= g.clock - Stamp[g.tok] /\ g.clock - Stamp[g.tok] <= validity
    BY DEF IInv, GrantedInWindow, Age
  <2>4. -validity <= Wall - Stamp[g.tok] /\ Wall - Stamp[g.tok] <= validity
    BY <2>1, FreshMeansPassed DEF IInv, TypeOK, Passed
  <2>5. Wall - g.clock <= TTL
    BY <2>1, <2>3, <2>4, WindowIsTTL
  <2> QED
    BY <2>1, <2>2, <2>5, TTLType DEF Behind
<1> QED
  BY <1>1, Invariance, PTL

\* 429 is only said of a token that bought another call since the last start.
LEMMA ReplayedStep ==
  ASSUME IInv, [Next]_vars, NEW r \in Requests,
         pc[r] = "verifying", pc'[r] = "replayed"
  PROVE  \E g \in grants : g.tok = token[r] /\ g.req # r
<1>1. Add(r) /\ Seen(token[r])
  <2>1. CASE \E q \in Requests : RefuseHeader(q)
    BY <2>1 DEF RefuseHeader, IInv, TypeOK
  <2>2. CASE \E q \in Requests, t \in Tokens, route \in Routes : Check(q, t, route)
    BY <2>2 DEF Check, IInv, TypeOK
  <2>3. CASE \E q \in Requests : Add(q)
    BY <2>3 DEF Add, IInv, TypeOK
  <2>4. CASE \/ Sweep \/ Tick \/ StepClock \/ UNCHANGED vars
             \/ \E v \in Validities : Restart(v)
    BY <2>4 DEF Sweep, Tick, StepClock, Restart, vars, IInv, TypeOK
  <2> QED
    BY <2>1, <2>2, <2>3, <2>4 DEF Next, Horizon
<1>2. PICK g \in grants : g.tok = token[r]
  BY <1>1 DEF Seen, IInv, SeenInv
<1>3. g.req # r
  BY <1>2 DEF IInv, GrantsInv
<1> QED
  BY <1>2, <1>3

\* The same as an action property: a 429 is told of used tokens only.
THEOREM RefusalsAreTrue == Spec => ReplayedWasGranted
<1>1. IInv /\ [Next]_vars =>
        [\A r \in Requests : pc[r] = "verifying" /\ pc'[r] = "replayed"
           => \E g \in grants : g.tok = token[r] /\ g.req # r]_vars
  BY ReplayedStep
<1> QED
  BY <1>1, Invariance, PTL DEF Spec, ReplayedWasGranted

-----------------------------------------------------------------------------
(* PowGate implements TokenLedger.                                         *)

UsedNow == {g.tok : g \in grants}

VerdictNow == [r \in Requests |-> IF pc[r] \in {"new", "verifying"}
                                    THEN "waiting" ELSE pc[r]]

LEMMA LedgerInit == Init => Ledger!Init
<1> SUFFICES ASSUME Init PROVE UsedNow = {} /\ VerdictNow = [r \in Requests |-> "waiting"]
  BY DEF Ledger!Init, UsedNow, VerdictNow
<1> QED
  BY DEF Init, UsedNow, VerdictNow

LEMMA LedgerStep ==
  ASSUME IInv, IInv', [Next]_vars, ~Disturbed'
  PROVE  [Ledger!Next]_<<UsedNow, VerdictNow>>
<1> USE DEF UsedNow, VerdictNow, Ledger!Next
<1>1. ASSUME NEW r \in Requests, RefuseHeader(r) PROVE Ledger!Refuse(r)
  BY <1>1 DEF RefuseHeader, Ledger!Refuse, Ledger!Give, IInv, TypeOK
<1>2. ASSUME NEW r \in Requests, NEW t \in Tokens, NEW route \in Routes,
             Check(r, t, route)
      PROVE  Ledger!Refuse(r) \/ UNCHANGED <<UsedNow, VerdictNow>>
  <2>1. UNCHANGED UsedNow /\ pc[r] = "new"
    BY <1>2 DEF Check
  <2>2. CASE pc' = [pc EXCEPT ![r] = "verifying"]
    BY <2>1, <2>2 DEF IInv, TypeOK
  <2>3. CASE pc' = [pc EXCEPT ![r] = "refused"]
    BY <2>1, <2>3 DEF Ledger!Refuse, Ledger!Give, IInv, TypeOK
  <2> QED
    BY <1>2, <2>2, <2>3 DEF Check
<1>3. ASSUME NEW r \in Requests, Add(r)
      PROVE  \E t \in Tokens : Ledger!Serve(r, t) \/ Ledger!Replay(r, t)
  <2>1. pc[r] = "verifying" /\ token[r] \in Tokens
    BY <1>3 DEF Add, IInv, VerifyingInv
  <2>2. CASE Seen(token[r])
    <3>1. UNCHANGED UsedNow /\ pc' = [pc EXCEPT ![r] = "replayed"]
      BY <1>3, <2>2 DEF Add
    <3>2. token[r] \in UsedNow
      BY <2>2 DEF Seen, IInv, SeenInv
    <3>3. Ledger!Replay(r, token[r])
      BY <2>1, <3>1, <3>2 DEF Ledger!Replay, Ledger!Give, IInv, TypeOK
    <3> QED
      BY <2>1, <3>3
  <2>3. CASE ~Seen(token[r])
    <3> DEFINE n == [req |-> r, tok |-> token[r], at |-> mono, clock |-> clock[r]]
    <3>1. /\ pc' = [pc EXCEPT ![r] = "served"]
          /\ grants' = grants \cup {n}
      BY <1>3, <2>3 DEF Add
    <3>2. token[r] \notin UsedNow
      <4> SUFFICES ASSUME NEW g \in grants, g.tok = token[r]
                   PROVE  FALSE
        OBVIOUS
      <4>1. g.req # r
        BY <2>1 DEF IInv, GrantsInv
      <4>2. g \in grants' /\ n \in grants' /\ g # n /\ g.at <= n.at
        BY <3>1, <4>1 DEF IInv, GrantsInv
      <4>3. g.at <= n.at /\ n.at <= n.at /\ n.tok = token[r]
        BY <4>2 DEF IInv, TypeOK
      <4>4. ~FarAhead(g) /\ ~FarAhead(n) /\ ~(Behind(g) < Behind(n))
        BY <4>2, <4>3 DEF Disturbed
      <4> HIDE DEF n
      <4>5. g \in Grants /\ n \in Grants /\ validity' \in Validities
        BY <4>2 DEF IInv, TypeOK
      <4>6. n.at - g.at > Lifetime(validity')
        <5>1. g.at - n.at > Lifetime(validity') \/ n.at - g.at > Lifetime(validity')
          BY <4>2, <4>3 DEF IInv, ReuseGap, TTL
        <5>2. g.at \in Nat /\ n.at \in Nat /\ Lifetime(validity') \in Nat
          BY <4>5, Lifetimes DEF Grants
        <5> QED BY <4>3, <5>1, <5>2
      <4>7. /\ -validity' <= Age(g) /\ Age(g) <= validity'
            /\ -validity' <= Age(n) /\ Age(n) <= validity'
        BY <4>2, <4>4 DEF IInv, GrantedInWindow
      <4> QED
        BY <4>3, <4>4, <4>5, <4>6, <4>7, LaterIsBehind
    <3>3. UsedNow' = UsedNow \cup {token[r]}
      <4>1. grants' = grants \cup {n}
        BY <3>1
      <4>2. n.tok = token[r]
        OBVIOUS
      <4> HIDE DEF n
      <4> QED
        BY <4>1, <4>2
    <3>4. Ledger!Serve(r, token[r])
      BY <2>1, <3>1, <3>2, <3>3 DEF Ledger!Serve, Ledger!Give, IInv, TypeOK
    <3> QED
      BY <2>1, <3>4 DEF Ledger!Serve, Ledger!Give
  <2> QED
    BY <2>2, <2>3
<1>4. ASSUME NEW v \in Validities, Restart(v) PROVE Ledger!Restart
  <2>1. UsedNow' = {}
    BY <1>4 DEF Restart
  <2>2. \A r \in Requests : pc'[r] = IF pc[r] = "verifying" THEN "lost" ELSE pc[r]
    BY <1>4 DEF Restart
  <2>3. VerdictNow' \in [Requests -> Ledger!Verdicts]
    BY <2>2 DEF Ledger!Verdicts, IInv, TypeOK, Phases
  <2>4. \A r \in Requests :
          \/ VerdictNow'[r] = VerdictNow[r]
          \/ VerdictNow[r] = "waiting" /\ VerdictNow'[r] = "lost"
    BY <2>2
  <2> QED
    BY <2>1, <2>3, <2>4 DEF Ledger!Restart
<1>5. CASE Sweep \/ Tick \/ StepClock \/ UNCHANGED vars
  BY <1>5 DEF Sweep, Tick, StepClock, vars
<1> QED
  BY <1>1, <1>2, <1>3, <1>4, <1>5 DEF Next, Horizon

\* What the gate does, a ledger of single-use tokens could do, as long as
\* nothing since the last start disturbs the order of checks and grants: calls
\* are served by unused tokens, refused as replays of used ones, and a restart
\* forgets.
THEOREM GateImplementsLedger == Spec => LedgerSpec
<1>1. IInv /\ IInv' /\ [Next]_vars => [Ledger!Next \/ Disturbed']_Ledger!ledgerVars
  BY LedgerStep DEF Ledger!ledgerVars, UsedNow, VerdictNow
<1> QED
  BY <1>1, LedgerInit, Invariance, PTL DEF Spec, LedgerSpec
=============================================================================
