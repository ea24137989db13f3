------------------------------ MODULE PowGate ------------------------------
(***************************************************************************)
(* The proof-of-work gate in front of /api/lookup and /api/send:           *)
(* PoWMiddleware (internal/api/middleware.go), pow.Verify and ReplayCache  *)
(* (internal/pow/pow.go), with the cache that main shares between the two  *)
(* routes (cmd/agemail/main.go).                                           *)
(*                                                                         *)
(* Each call runs in a goroutine of its own.  Verify reads the WALL clock  *)
(* for the freshness check and consumes the token afterwards, under the    *)
(* mutex of the cache; the sweeper evicts entries by their age on the      *)
(* MONOTONIC clock.  Time passes between any two steps, the wall clock may *)
(* be stepped (NTP), and a restart empties the cache.                      *)
(*                                                                         *)
(* SHA-256 is not modelled: a token has a number of leading zero bits.     *)
(***************************************************************************)
EXTENDS Durations, FiniteSets

CONSTANTS
  Requests,      \* calls to the gate, each made once
  Tokens,        \* well-formed tokens "ts.nonce"
  NoToken,       \* a call that has not presented a well-formed token
  Stamp,         \* the timestamp of a token
  Bits,          \* the leading zero bits of SHA-256(ts || nonce)
  Routes,        \* the routes behind the gate
  Difficulty,    \* the bits a route demands
  Validities,    \* what cfg.PoWValidity() may be for a server that comes up
  Offsets,       \* what the wall clock may read beyond the monotonic clock
  MaxTime,       \* bound on the monotonic clock
  MaxBoots       \* bound on the starts of the server

ASSUME TokenAssumption == /\ NoToken \notin Tokens
                          /\ Stamp \in [Tokens -> Int]
                          /\ Bits \in [Tokens -> Nat]
                          /\ Difficulty \in [Routes -> Nat]

\* The cache's ttl: 2*cfg.PoWValidity(), a product of durations.
Lifetime(v) == Wrapped(2 * v)

\* time.NewTicker panics, and no server comes up, unless ttl/2 is positive.
ASSUME TimeAssumption ==
  /\ Validities \subseteq Durations /\ Validities # {}
  /\ \A v \in Validities : Lifetime(v) \div 2 > 0
  /\ Offsets \subseteq Int /\ Offsets # {}

\* Where Verify is for a call.  "refused" is 401, "replayed" 429; a call
\* under way when the server dies is "lost".
Phases == {"new", "verifying", "served", "refused", "replayed", "lost"}

VARIABLES
  validity, \* cfg.PoWValidity() of the server that is up
  mono,     \* the monotonic clock
  offset,   \* wall clock minus monotonic clock
  seen,     \* ReplayCache.seen: token |-> monotonic time of its Add
  due,      \* when the sweeper's ticker fires next
  pc,       \* the phase of each call
  token,    \* the token of a call that is past the freshness check
  clock,    \* what that check read on the wall clock; 0 when Verify is over
  boot,     \* how often the server was started
  grants    \* history: the calls let through since the last start, by what
            \* token, when, and what their check had read

vars == <<validity, mono, offset, seen, due, pc, token, clock, boot, grants>>

Wall == mono + offset

TTL == Lifetime(validity)

\* The ticker of the sweeper: time.NewTicker(rc.ttl / 2).
Period == TTL \div 2

-----------------------------------------------------------------------------
(* The freshness check, on 64-bit durations.                               *)

\* time.Since(time.Unix(ts, 0)).
Since(ts) == Saturated(Wall - ts)

\* (Wrong: the sign is forgotten, and timestamps of the future never expire.)
DeltaOfPast(ts) == Since(ts)

Delta(ts) == IF Since(ts) < 0 THEN Negated(Since(ts)) ELSE Since(ts)

Fresh(t) == Delta(Stamp[t]) <= validity

HardEnough(t, route) == Bits[t] >= Difficulty[route]

-----------------------------------------------------------------------------
(* The cache.                                                              *)

\* (Wrong: the entry is dated by the token's age, not by the clock.)
RememberAge(t) == seen' = [u \in DOMAIN seen \cup {t} |->
                             IF u = t THEN Since(Stamp[t]) ELSE seen[u]]

\* What Add writes: the token's entry, dated now.
Remember(t) == seen' = [u \in DOMAIN seen \cup {t} |->
                          IF u = t THEN mono ELSE seen[u]]

\* (Wrong: Add does not look whether the entry exists.  Wrong: an entry stands
\* for every token of its timestamp.)
NeverSeen(t)   == FALSE
SeenByStamp(t) == \E u \in DOMAIN seen : Stamp[u] = Stamp[t]

Seen(t) == t \in DOMAIN seen

\* (Wrong: an entry exactly ttl old is evicted.  Wrong: the ttl counts twice.)
OutdatedAtTTL(t)   == seen[t] <= mono - TTL
OutdatedAfterTwo(t) == seen[t] < mono - 2 * TTL

\* t.Before(now - ttl).
Outdated(t) == seen[t] < mono - TTL

-----------------------------------------------------------------------------
Init == /\ validity \in Validities
        /\ mono = 0
        /\ offset \in Offsets
        /\ seen = <<>>
        /\ due = Period
        /\ pc = [r \in Requests |-> "new"]
        /\ token = [r \in Requests |-> NoToken]
        /\ clock = [r \in Requests |-> 0]
        /\ boot = 1
        /\ grants = {}

\* No X-PoW header, or one that is not "ts.nonce" with an int64 ts.
RefuseHeader(r) ==
  /\ pc[r] = "new"
  /\ pc' = [pc EXCEPT ![r] = "refused"]
  /\ UNCHANGED <<validity, mono, offset, seen, due, token, clock, boot, grants>>

\* (Wrong: the token is remembered before the difficulty check can fail.)
CheckRemembersFirst(r, t, route) ==
  /\ pc[r] = "new"
  /\ Fresh(t)
  /\ Remember(t)
  /\ pc' = [pc EXCEPT ![r] = IF HardEnough(t, route) THEN "verifying" ELSE "refused"]
  /\ token' = [token EXCEPT ![r] = t]
  /\ clock' = [clock EXCEPT ![r] = Wall]
  /\ UNCHANGED <<validity, mono, offset, due, boot, grants>>

\* Verify up to the replay check: freshness, then difficulty.  Only the clock
\* is shared with other goroutines, and it is read once.
Check(r, t, route) ==
  /\ pc[r] = "new"
  /\ IF Fresh(t) /\ HardEnough(t, route)
       THEN /\ pc' = [pc EXCEPT ![r] = "verifying"]
            /\ token' = [token EXCEPT ![r] = t]
            /\ clock' = [clock EXCEPT ![r] = Wall]
       ELSE /\ pc' = [pc EXCEPT ![r] = "refused"]
            /\ UNCHANGED <<token, clock>>
  /\ UNCHANGED <<validity, mono, offset, seen, due, boot, grants>>

\* cache.Add under the mutex, and the answer it gives the call.
Add(r) ==
  /\ pc[r] = "verifying"
  /\ IF Seen(token[r])
       THEN /\ pc' = [pc EXCEPT ![r] = "replayed"]
            /\ UNCHANGED <<seen, grants>>
       ELSE /\ Remember(token[r])
            /\ pc' = [pc EXCEPT ![r] = "served"]
            /\ grants' = grants \cup
                 {[req |-> r, tok |-> token[r], at |-> mono, clock |-> clock[r]]}
  /\ clock' = [clock EXCEPT ![r] = 0]
  /\ UNCHANGED <<validity, mono, offset, due, token, boot>>

\* One turn of the sweeper, under the mutex.  The ticker keeps its beat: ticks
\* that came while the sweeper was late are dropped.
Sweep ==
  /\ mono >= due
  /\ due' = due + Period * (1 + (mono - due) \div Period)
  /\ seen' = [t \in {u \in DOMAIN seen : ~Outdated(u)} |-> seen[t]]
  /\ UNCHANGED <<validity, mono, offset, pc, token, clock, boot, grants>>

\* A second passes, whoever is held up meanwhile.
Tick ==
  /\ mono < MaxTime
  /\ mono' = mono + 1
  /\ UNCHANGED <<validity, offset, seen, due, pc, token, clock, boot, grants>>

\* The wall clock is set; the monotonic clock is not affected.
StepClock ==
  /\ offset' \in Offsets \ {offset}
  /\ UNCHANGED <<validity, mono, seen, due, pc, token, clock, boot, grants>>

\* The server dies and starts again, with the validity it is then configured
\* with: main makes a new, empty cache, and its ticker starts.
Restart(v) ==
  /\ boot < MaxBoots
  /\ boot' = boot + 1
  /\ validity' = v
  /\ seen' = <<>>
  /\ due' = mono + Lifetime(v) \div 2
  /\ pc' = [r \in Requests |-> IF pc[r] = "verifying" THEN "lost" ELSE pc[r]]
  /\ clock' = [r \in Requests |-> 0]
  /\ grants' = {}
  /\ UNCHANGED <<mono, offset, token>>

\* The model's clock stops here; not a deadlock of the gate.
Horizon == mono = MaxTime /\ UNCHANGED vars

Next == \/ \E r \in Requests : RefuseHeader(r) \/ Add(r)
        \/ \E r \in Requests, t \in Tokens, route \in Routes : Check(r, t, route)
        \/ Sweep
        \/ Tick
        \/ StepClock
        \/ \E v \in Validities : Restart(v)
        \/ Horizon

Spec == Init /\ [][Next]_vars

-----------------------------------------------------------------------------
(* What a grant is told by.                                                *)

\* How old a token was by the clock its check read.
Age(g) == g.clock - Stamp[g.tok]

\* Stamped 292 years or more after the clock its check read.
FarAhead(g) == Age(g) < -MaxDuration

\* How far the reading of a check is behind the monotonic clock when its token
\* is remembered: it grows when Verify is held up, and when the wall clock is
\* set back.
Behind(g) == g.at - g.clock

Grants == [req : Requests, tok : Tokens, at : Nat, clock : Int]

\* The cache dates only tokens, and dates them with times.  Not stated: that
\* a date is not in the future, which EntryAge and ReuseGap depend on.
TypeOK ==
  /\ validity \in Validities
  /\ mono \in Nat
  /\ offset \in Offsets
  /\ DOMAIN seen \subseteq Tokens
  /\ seen \in [DOMAIN seen -> Nat]
  /\ due \in Nat
  /\ pc \in [Requests -> Phases]
  /\ token \in [Requests -> Tokens \cup {NoToken}]
  /\ clock \in [Requests -> Int]
  /\ boot \in Nat
  /\ grants \subseteq Grants

\* If one server lets a token through twice, more than TTL lies between.
ReuseGap == \A g, h \in grants :
              g.tok = h.tok /\ g # h
                => g.at - h.at > TTL \/ h.at - g.at > TTL

\* One server lets a token through a second time only if the second call was
\* held up for longer than the first, or the wall clock was set back between
\* them, or the token is stamped 292 years ahead.  In any other interleaving
\* of calls, ticks and sweeps on the two routes a token buys one call.
SecondUseIsLate ==
  \A g, h \in grants :
    g.tok = h.tok /\ g # h /\ g.at <= h.at
      => Behind(g) < Behind(h) \/ FarAhead(g) \/ FarAhead(h)

\* "The server consumes each token exactly once": between two starts a token
\* buys at most one call on the two routes together.
SingleUse == \A g, h \in grants : g.tok = h.tok => g = h

\* "older entries are evicted and would fail the freshness check anyway": no
\* token the cache has forgotten would pass the check again, but for a clock
\* that is now further behind than at its first use, or a stamp far ahead.
EvictedIsExpired ==
  \A g \in grants :
    g.tok \notin DOMAIN seen /\ Fresh(g.tok)
      => \/ Behind(g) < mono - Wall
         \/ Wall - Stamp[g.tok] < -MaxDuration \/ FarAhead(g)

\* The sweeper bounds the memory of the cache: no entry outlives TTL by more
\* than one period and what its goroutine is late, however many ticks it drops.
EntryAge == LET late == IF mono > due THEN mono - due ELSE 0
            IN  \A t \in DOMAIN seen : mono - seen[t] <= TTL + Period + late

\* "token already used" is never said of a first use: a check that fails
\* leaves no entry behind, nor does a server that has died.
ReplayedWasGranted ==
  [][\A r \in Requests : pc[r] = "verifying" /\ pc'[r] = "replayed"
       => \E g \in grants : g.tok = token[r] /\ g.req # r]_vars

\* No call is let through outside its token's window by the clock its check
\* read, unless the token is stamped so far ahead that its age has no negation.
GrantedInWindow ==
  \A g \in grants : \/ -validity <= Age(g) /\ Age(g) <= validity
                    \/ FarAhead(g)

-----------------------------------------------------------------------------
\* What the gate promises, as TokenLedger states it.
Ledger == INSTANCE TokenLedger WITH
            used <- {g.tok : g \in grants},
            verdict <- [r \in Requests |-> IF pc[r] \in {"new", "verifying"}
                                             THEN "waiting" ELSE pc[r]]

\* Since the last start a call was held up for longer than one before it, or
\* the clock was set back between them, or a stamp was far ahead.
Disturbed == \E g, h \in grants :
               g.at <= h.at /\ (Behind(g) < Behind(h) \/ FarAhead(g))

\* Every step of the gate is one of the ledger, as long as nothing since the
\* last start disturbs the order of checks and grants.
LedgerSpec == Ledger!Init /\ [][Ledger!Next \/ Disturbed']_Ledger!ledgerVars
=============================================================================
